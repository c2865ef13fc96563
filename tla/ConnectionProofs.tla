--------------------------- MODULE ConnectionProofs ---------------------------
(***************************************************************************)
(* However writes and reads cut the stream, each direction of a connection *)
(* is a channel of whole frames in order, for any number of tasks, any     *)
(* lengths of frames and any size of the socket's buffer.                  *)
(*                                                                         *)
(* The first part is about one direction, as values: what is buffered at   *)
(* either end and under way are consecutive pieces of one stream, that of  *)
(* the frames queued.                                                      *)
(***************************************************************************)
EXTENDS Connection, SequenceTheorems, TLAPS

-----------------------------------------------------------------------------
\* Sequences

LEMMA Appended ==
    ASSUME NEW S, NEW s \in Seq(S), NEW x \in S
    PROVE  /\ Append(s, x) \in Seq(S) /\ Len(Append(s, x)) = Len(s) + 1 /\ Len(s) \in Nat
           /\ Append(s, x)[Len(s) + 1] = x
           /\ \A i \in 1 .. Len(s) : Append(s, x)[i] = s[i]
OBVIOUS

LEMMA Joined ==
    ASSUME NEW S, NEW s \in Seq(S), NEW u \in Seq(S)
    PROVE  /\ s \o u \in Seq(S) /\ Len(s \o u) = Len(s) + Len(u)
           /\ Len(s) \in Nat /\ Len(u) \in Nat
           /\ \A k \in 1 .. Len(s) : (s \o u)[k] = s[k]
           /\ \A k \in 1 .. Len(u) : (s \o u)[Len(s) + k] = u[k]
<1>1. Len(s) \in Nat /\ Len(u) \in Nat
  OBVIOUS
<1>2. /\ s \o u \in Seq(S) /\ Len(s \o u) = Len(s) + Len(u)
      /\ \A i \in 1 .. Len(s) + Len(u) : (s \o u)[i] = IF i <= Len(s) THEN s[i] ELSE u[i - Len(s)]
  BY ConcatProperties
<1>3. ASSUME NEW k \in 1 .. Len(s) PROVE (s \o u)[k] = s[k]
  BY <1>1, <1>2
<1>4. ASSUME NEW k \in 1 .. Len(u) PROVE (s \o u)[Len(s) + k] = u[k]
  <2>1. /\ Len(s) + k \in 1 .. Len(s) + Len(u) /\ ~ (Len(s) + k <= Len(s))
        /\ (Len(s) + k) - Len(s) = k
    BY <1>1
  <2>2. QED BY <1>2, <2>1
<1>5. QED BY <1>1, <1>2, <1>3, <1>4

LEMMA SubSeqFacts ==
    ASSUME NEW S, NEW s \in Seq(S), NEW m \in Nat, NEW n \in Nat, m <= n, n <= Len(s)
    PROVE  /\ SubSeq(s, m + 1, n) \in Seq(S) /\ Len(SubSeq(s, m + 1, n)) = n - m
           /\ \A k \in 1 .. n - m : SubSeq(s, m + 1, n)[k] = s[m + k]
<1>1. \A i \in m + 1 .. n : s[i] \in S
  OBVIOUS
<1>2. m + 1 \in Int /\ n \in Int /\ n - (m + 1) + 1 = n - m /\ (m + 1 <= n <=> m < n)
  OBVIOUS
<1>3. /\ SubSeq(s, m + 1, n) \in Seq(S)
      /\ Len(SubSeq(s, m + 1, n)) = (IF m + 1 <= n THEN n - (m + 1) + 1 ELSE 0)
      /\ \A i \in 1 .. n - (m + 1) + 1 : SubSeq(s, m + 1, n)[i] = s[(m + 1) + i - 1]
  BY <1>1, <1>2, SubSeqProperties
<1>4. \A k \in 1 .. n - m : (m + 1) + k - 1 = m + k
  OBVIOUS
<1>5. m = n => n - m = 0
  OBVIOUS
<1>6. QED BY <1>2, <1>3, <1>4, <1>5

-----------------------------------------------------------------------------
\* Pieces of a stream

StreamUnits == Frames \X Nat
UnitSeqs == Seq(StreamUnits)
FrameSeqs == Seq(Frames)
Unit(f, k) == <<f, k>>

LEMMA UnitFacts ==
    /\ \A f, k : Unit(f, k)[1] = f /\ Unit(f, k)[2] = k
    /\ \A f \in Frames : \A k \in Nat : Unit(f, k) \in StreamUnits
BY DEF Unit, StreamUnits

\* The piece s is what the stream st has between two offsets.
Piece(s, st, lo, hi) == Len(s) = hi - lo /\ \A k \in 1 .. hi - lo : s[k] = st[lo + k]

LEMMA PieceOfPiece ==
    ASSUME NEW s \in UnitSeqs, NEW st, NEW lo \in Nat, NEW hi \in Nat, lo <= hi,
           Piece(s, st, lo, hi),
           NEW m \in Nat, NEW n \in Nat, m <= n, n <= hi - lo
    PROVE  /\ SubSeq(s, m + 1, n) \in UnitSeqs
           /\ Piece(SubSeq(s, m + 1, n), st, lo + m, lo + n)
<1>1. n <= Len(s)
  BY DEF Piece
<1>2. /\ SubSeq(s, m + 1, n) \in UnitSeqs /\ Len(SubSeq(s, m + 1, n)) = n - m
      /\ \A k \in 1 .. n - m : SubSeq(s, m + 1, n)[k] = s[m + k]
  BY <1>1, SubSeqFacts DEF UnitSeqs
<1>3. \A k \in 1 .. n - m : m + k \in 1 .. hi - lo /\ lo + (m + k) = (lo + m) + k
  OBVIOUS
<1>4. \A k \in 1 .. n - m : s[m + k] = st[(lo + m) + k]
  BY <1>3 DEF Piece
<1>5. (lo + n) - (lo + m) = n - m
  OBVIOUS
<1>6. QED BY <1>2, <1>4, <1>5 DEF Piece

\* What is cut off a buffer, and what is left of it.
Front(s, j) == SubSeq(s, 1, j)
Back(s, j) == SubSeq(s, j + 1, Len(s))

LEMMA PieceCut ==
    ASSUME NEW s \in UnitSeqs, NEW st, NEW lo \in Nat, NEW hi \in Nat, Piece(s, st, lo, hi),
           NEW j \in Nat, j <= Len(s)
    PROVE  /\ Front(s, j) \in UnitSeqs /\ Back(s, j) \in UnitSeqs
           /\ Len(Front(s, j)) = j /\ Len(Back(s, j)) = Len(s) - j /\ Len(s) \in Nat /\ Len(s) = hi - lo
           /\ Piece(Front(s, j), st, lo, lo + j) /\ Piece(Back(s, j), st, lo + j, hi)
<1>1. Len(s) \in Nat /\ Len(s) = hi - lo
  BY DEF Piece, UnitSeqs
<1>2. lo <= hi /\ 0 <= j /\ j <= hi - lo /\ hi - lo <= hi - lo /\ hi - lo \in Nat /\ 0 \in Nat
  BY <1>1
<1>3. /\ SubSeq(s, 0 + 1, j) \in UnitSeqs
      /\ Piece(SubSeq(s, 0 + 1, j), st, lo + 0, lo + j)
  BY <1>2, PieceOfPiece
<1>4. /\ SubSeq(s, j + 1, hi - lo) \in UnitSeqs
      /\ Piece(SubSeq(s, j + 1, hi - lo), st, lo + j, lo + (hi - lo))
  BY <1>2, PieceOfPiece
<1>5. 0 + 1 = 1 /\ lo + 0 = lo /\ lo + (hi - lo) = hi
  OBVIOUS
<1>6. Front(s, j) \in UnitSeqs /\ Piece(Front(s, j), st, lo, lo + j)
  BY <1>3, <1>5 DEF Front
<1>7. Back(s, j) \in UnitSeqs /\ Piece(Back(s, j), st, lo + j, hi)
  BY <1>1, <1>4, <1>5 DEF Back
<1>8. Len(Front(s, j)) = j /\ Len(Back(s, j)) = Len(s) - j
  <2>1. (lo + j) - lo = j /\ hi - (lo + j) = Len(s) - j
    BY <1>1
  <2>2. QED BY <1>6, <1>7, <2>1 DEF Piece
<1>9. QED BY <1>1, <1>6, <1>7, <1>8

LEMMA PiecesJoin ==
    ASSUME NEW s \in UnitSeqs, NEW u \in UnitSeqs, NEW st,
           NEW lo \in Nat, NEW mid \in Nat, NEW hi \in Nat, lo <= mid, mid <= hi,
           Piece(s, st, lo, mid), Piece(u, st, mid, hi)
    PROVE  s \o u \in UnitSeqs /\ Piece(s \o u, st, lo, hi)
<1> DEFINE c == s \o u
<1>1. /\ c \in UnitSeqs /\ Len(c) = Len(s) + Len(u)
      /\ \A k \in 1 .. Len(s) : c[k] = s[k]
      /\ \A k \in 1 .. Len(u) : c[Len(s) + k] = u[k]
  BY Joined DEF UnitSeqs
<1> HIDE DEF c
<1>2. /\ Len(s) = mid - lo /\ \A k \in 1 .. mid - lo : s[k] = st[lo + k]
      /\ Len(u) = hi - mid /\ \A k \in 1 .. hi - mid : u[k] = st[mid + k]
  BY DEF Piece
<1>3. ASSUME NEW k \in 1 .. hi - lo
      PROVE  c[k] = st[lo + k]
  <2>1. CASE k <= mid - lo
    <3>1. k \in 1 .. mid - lo
      BY <2>1
    <3>2. QED BY <1>1, <1>2, <3>1
  <2>2. CASE k > mid - lo
    <3>1. PICK j \in 1 .. hi - mid : j = k - (mid - lo)
      BY <2>2
    <3>2. (mid - lo) + j = k /\ mid + j = lo + k
      BY <3>1
    <3>3. c[k] = u[j]
      BY <1>1, <1>2, <3>2
    <3>4. u[j] = st[mid + j]
      BY <1>2
    <3>5. st[mid + j] = st[lo + k]
      BY <3>2
    <3>6. QED BY <3>3, <3>4, <3>5
  <2>3. QED BY <2>1, <2>2
<1>4. Len(c) = hi - lo
  BY <1>1, <1>2
<1>5. QED BY <1>1, <1>3, <1>4 DEF Piece, c

\* A piece is the same in two streams that agree as far as it goes.
LEMMA PieceStays ==
    ASSUME NEW st, NEW st2, NEW s, NEW lo \in Nat, NEW hi \in Nat, Piece(s, st, lo, hi),
           \A x \in 1 .. hi : st2[x] = st[x]
    PROVE  Piece(s, st2, lo, hi)
<1>1. \A k \in 1 .. hi - lo : lo + k \in 1 .. hi
  OBVIOUS
<1>2. QED BY <1>1 DEF Piece

-----------------------------------------------------------------------------
\* One direction

Offsets == [Nat -> Nat]
Streams == [Nat -> StreamUnits]
Lengths == [Frames -> Nat]

\* The frames q, of lengths len, make up the stream st; the i-th begins at pos[i], and
\* the next one will begin at pos[Len(q) + 1].
Layout(len, q, st, pos) ==
    /\ pos[1] = 0
    /\ \A i \in 1 .. Len(q) :
          /\ len[q[i]] > 0 /\ pos[i + 1] = pos[i] + len[q[i]]
          /\ \A k \in 1 .. len[q[i]] : st[pos[i] + k] = Unit(q[i], k)
    /\ \A i \in 1 .. Len(q) : \A j \in i + 1 .. Len(q) + 1 : pos[i] + len[q[i]] <= pos[j]

\* The chunks of p follow each other in st; the i-th begins at cut[i].
Chunks(p, st, cut) == \A i \in 1 .. Len(p) : cut[i] < cut[i + 1] /\ Piece(p[i], st, cut[i], cut[i + 1])
ChunksTo(p, st, first, last) ==
    \E cut \in Offsets :
        /\ Chunks(p, st, cut)
        /\ cut[1] = first /\ cut[Len(p) + 1] = last /\ \A i \in 1 .. Len(p) + 1 : cut[i] <= last

\* Of the frames q, n have been decoded; rb, p and wb from wr on follow in the stream,
\* and wb begins where a frame does.
FlowBy(len, q, n, rb, p, wb, wr, st, pos, mid, w) ==
    /\ Layout(len, q, st, pos)
    /\ n <= Len(q) /\ pos[n + 1] <= mid /\ Piece(rb, st, pos[n + 1], mid)
    /\ ChunksTo(p, st, mid, pos[w] + wr)
    /\ w \in 1 .. Len(q) + 1 /\ pos[w] + wr <= pos[Len(q) + 1]
    /\ Piece(wb, st, pos[w], pos[Len(q) + 1])
Flow(len, q, n, rb, p, wb, wr) ==
    \E st \in Streams, pos \in Offsets, mid \in Nat, w \in Nat :
        FlowBy(len, q, n, rb, p, wb, wr, st, pos, mid, w)

Pipes == Seq(UnitSeqs)

\* What a write and a read make of the chunks under way.
Carries(p, u, p2) == p2 = Append(p, u) \/ (Len(p) = 1 /\ p2 = <<p[1] \o u>>)
LeftOver(p, m) ==
    IF m = Len(Head(p)) THEN Tail(p) ELSE <<Back(Head(p), m)>> \o Tail(p)
NextUnits(wb, wr, m) == Front(Back(wb, wr), m)

Whole(len, f) == [i \in 1 .. len[f] |-> Unit(f, i)]

LEMMA WholeType ==
    ASSUME NEW len \in Lengths, NEW f \in Frames
    PROVE  /\ Whole(len, f) \in UnitSeqs /\ Len(Whole(len, f)) = len[f] /\ len[f] \in Nat
           /\ \A k \in 1 .. len[f] : Whole(len, f)[k] = Unit(f, k)
<1>1. len[f] \in Nat
  BY DEF Lengths
<1>2. \A k \in 1 .. len[f] : Unit(f, k) \in StreamUnits
  BY <1>1, UnitFacts
<1>3. Whole(len, f) \in [1 .. len[f] -> StreamUnits]
  BY <1>2 DEF Whole
<1>4. QED BY <1>1, <1>3 DEF Whole, UnitSeqs

LEMMA FlowStarts ==
    ASSUME NEW len
    PROVE  Flow(len, << >>, 0, << >>, << >>, << >>, 0)
<1> DEFINE zero == [i \in Nat |-> 0]
           st == [i \in Nat |-> Unit(Frame("push", Nobody), 0)]
<1>1. zero \in Offsets /\ st \in Streams
  BY UnitFacts DEF Offsets, Streams, Frames
<1>2. Layout(len, << >>, st, zero)
  BY DEF Layout
<1>3. ChunksTo(<< >>, st, 0, 0)
  <2>1. Chunks(<< >>, st, zero) /\ zero[1] = 0 /\ zero[Len(<< >>) + 1] = 0
    BY DEF Chunks
  <2>2. QED BY <1>1, <2>1 DEF ChunksTo
<1>4. zero[1] = 0 /\ zero[1] + 0 = 0
  OBVIOUS
<1>5. Piece(<< >>, st, 0, 0)
  BY DEF Piece
<1> HIDE DEF zero, st
<1>6. FlowBy(len, << >>, 0, << >>, << >>, << >>, 0, st, zero, 0, 1)
  BY <1>2, <1>3, <1>4, <1>5 DEF FlowBy
<1>7. QED BY <1>1, <1>6 DEF Flow

\* The i-th frame of a stream, and where it is.
LEMMA FrameAt ==
    ASSUME NEW len \in Lengths, NEW q \in FrameSeqs, NEW st, NEW pos \in Offsets,
           Layout(len, q, st, pos), NEW i \in 1 .. Len(q)
    PROVE  /\ q[i] \in Frames /\ len[q[i]] \in Nat /\ len[q[i]] > 0
           /\ pos[i] \in Nat /\ pos[Len(q) + 1] \in Nat /\ pos[i] + len[q[i]] <= pos[Len(q) + 1]
           /\ pos[i + 1] = pos[i] + len[q[i]]
           /\ \A k \in 1 .. len[q[i]] : st[pos[i] + k] = Unit(q[i], k)
           /\ \A j \in i + 1 .. Len(q) + 1 : pos[i] + len[q[i]] <= pos[j]
<1>1. Len(q) \in Nat /\ q[i] \in Frames /\ len[q[i]] \in Nat
  BY ElementOfSeq DEF Lengths, FrameSeqs
<1>2. pos[i] \in Nat /\ pos[Len(q) + 1] \in Nat
  BY <1>1 DEF Offsets
<1>3. /\ len[q[i]] > 0 /\ pos[i + 1] = pos[i] + len[q[i]]
      /\ \A k \in 1 .. len[q[i]] : st[pos[i] + k] = Unit(q[i], k)
      /\ \A j \in i + 1 .. Len(q) + 1 : pos[i] + len[q[i]] <= pos[j]
  BY DEF Layout
<1>4. Len(q) + 1 \in i + 1 .. Len(q) + 1
  BY <1>1
<1>5. pos[i] + len[q[i]] <= pos[Len(q) + 1]
  BY <1>3, <1>4
<1>6. QED BY <1>1, <1>2, <1>3, <1>5

\* Offsets of frames increase.
LEMMA LayoutBounds ==
    ASSUME NEW len \in Lengths, NEW q \in FrameSeqs, NEW st, NEW pos \in Offsets,
           Layout(len, q, st, pos)
    PROVE  /\ Len(q) \in Nat /\ pos[Len(q) + 1] \in Nat /\ pos[1] = 0
           /\ \A i \in 1 .. Len(q) + 1 : pos[i] \in Nat /\ pos[i] <= pos[Len(q) + 1]
<1>1. Len(q) \in Nat /\ pos[Len(q) + 1] \in Nat /\ pos[1] = 0
  BY DEF Offsets, Layout
<1>2. ASSUME NEW i \in 1 .. Len(q) + 1 PROVE pos[i] \in Nat /\ pos[i] <= pos[Len(q) + 1]
  <2>1. pos[i] \in Nat
    BY <1>1 DEF Offsets
  <2>2. CASE i = Len(q) + 1
    BY <2>1, <2>2
  <2>3. CASE i \in 1 .. Len(q)
    <3>1. pos[i] + len[q[i]] <= pos[Len(q) + 1] /\ len[q[i]] \in Nat
      BY <2>3, FrameAt
    <3>2. QED BY <1>1, <2>1, <3>1
  <2>4. QED BY <1>1, <2>2, <2>3
<1>3. QED BY <1>1, <1>2

\* Another frame f is laid out after the others.
LEMMA LayoutGrows ==
    ASSUME NEW len \in Lengths, NEW q \in FrameSeqs, NEW st \in Streams, NEW pos \in Offsets,
           Layout(len, q, st, pos), NEW f \in Frames, len[f] > 0,
           NEW total, total = pos[Len(q) + 1]
    PROVE  \E st2 \in Streams, pos2 \in Offsets :
               /\ \A x \in 1 .. total : st2[x] = st[x]
               /\ \A k \in 1 .. len[f] : st2[total + k] = Unit(f, k)
               /\ \A i \in 1 .. Len(q) + 1 : pos2[i] = pos[i]
               /\ pos2[Len(q) + 2] = total + len[f] /\ len[f] \in Nat /\ total \in Nat
               /\ Layout(len, Append(q, f), st2, pos2)
<1> DEFINE st2 == [x \in Nat |-> IF x <= total THEN st[x] ELSE Unit(f, x - total)]
           pos2 == [i \in Nat |-> IF i <= Len(q) + 1 THEN pos[i] ELSE total + len[f]]
<1>1. /\ Len(q) \in Nat /\ total \in Nat /\ len[f] \in Nat
      /\ pos[1] = 0 /\ \A i \in 1 .. Len(q) + 1 : pos[i] \in Nat
  BY LayoutBounds DEF Lengths
<1>2. /\ pos2 \in Offsets /\ pos2[Len(q) + 2] = total + len[f]
      /\ \A i \in 1 .. Len(q) + 1 : pos2[i] = pos[i]
  <2>1. \A i \in Nat : (IF i <= Len(q) + 1 THEN pos[i] ELSE total + len[f]) \in Nat
    <3>1. total + len[f] \in Nat
      BY <1>1
    <3>2. \A i \in Nat : pos[i] \in Nat
      BY DEF Offsets
    <3>3. QED BY <3>1, <3>2
  <2>2. Len(q) + 2 \in Nat /\ ~ (Len(q) + 2 <= Len(q) + 1)
    BY <1>1
  <2>3. \A i \in 1 .. Len(q) + 1 : i \in Nat /\ i <= Len(q) + 1
    BY <1>1
  <2>4. QED BY <2>1, <2>2, <2>3 DEF Offsets
<1>3. \A x \in Nat : st2[x] = IF x <= total THEN st[x] ELSE Unit(f, x - total)
  OBVIOUS
<1>4. st2 \in Streams
  <2>1. ASSUME NEW x \in Nat, ~ (x <= total) PROVE Unit(f, x - total) \in StreamUnits
    BY <1>1, <2>1, UnitFacts
  <2>2. \A x \in Nat : (IF x <= total THEN st[x] ELSE Unit(f, x - total)) \in StreamUnits
    BY <2>1 DEF Streams
  <2>3. QED BY <2>2 DEF Streams
<1> HIDE DEF st2, pos2
<1>5. \A x \in 1 .. total : st2[x] = st[x]
  BY <1>1, <1>3
<1>6. ASSUME NEW k \in 1 .. len[f] PROVE st2[total + k] = Unit(f, k)
  <2>1. total + k \in Nat /\ ~ (total + k <= total) /\ (total + k) - total = k
    BY <1>1
  <2>2. QED BY <1>3, <2>1
<1> DEFINE q2 == Append(q, f)
<1>7. /\ Len(q2) = Len(q) + 1 /\ q2[Len(q) + 1] = f
      /\ \A i \in 1 .. Len(q) : q2[i] = q[i]
  BY Appended
<1> HIDE DEF q2
<1>8. ASSUME NEW i \in 1 .. Len(q2)
      PROVE  /\ len[q2[i]] > 0 /\ pos2[i + 1] = pos2[i] + len[q2[i]]
             /\ \A k \in 1 .. len[q2[i]] : st2[pos2[i] + k] = Unit(q2[i], k)
             /\ \A j \in i + 1 .. Len(q2) + 1 : pos2[i] + len[q2[i]] <= pos2[j]
  <2>1. CASE i = Len(q) + 1
    <3>1. Len(q) + 1 \in 1 .. Len(q) + 1 /\ i + 1 = Len(q) + 2 /\ Len(q2) + 1 = i + 1
      BY <1>1, <1>7, <2>1
    <3>2. q2[i] = f /\ pos2[i] = total /\ pos2[i + 1] = total + len[f]
      BY <1>2, <1>7, <2>1, <3>1
    <3>3. \A j \in i + 1 .. Len(q2) + 1 : j = i + 1
      BY <3>1
    <3>4. pos2[i] + len[q2[i]] <= pos2[i + 1]
      BY <1>1, <3>2
    <3>5. QED BY <1>6, <3>2, <3>3, <3>4
  <2>2. CASE i \in 1 .. Len(q)
    <3>0. /\ \A k \in 1 .. len[q[i]] : st[pos[i] + k] = Unit(q[i], k)
          /\ \A j \in i + 1 .. Len(q) + 1 : pos[i] + len[q[i]] <= pos[j]
      BY <2>2, FrameAt
    <3>1. /\ len[q[i]] \in Nat /\ len[q[i]] > 0
          /\ pos[i] \in Nat /\ pos[i] + len[q[i]] <= total /\ total \in Nat
      BY <2>2, FrameAt
    <3>7. pos[i + 1] = pos[i] + len[q[i]]
      BY <2>2, FrameAt
    <3>2. i \in 1 .. Len(q) + 1 /\ i + 1 \in 1 .. Len(q) + 1
      BY <1>1, <2>2
    <3>3. q2[i] = q[i] /\ pos2[i] = pos[i] /\ pos2[i + 1] = pos[i + 1]
      BY <1>2, <1>7, <2>2, <3>2
    <3>4. ASSUME NEW k \in 1 .. len[q[i]] PROVE st2[pos[i] + k] = Unit(q[i], k)
      <4>1. pos[i] + k \in 1 .. total
        BY <3>1
      <4>2. QED BY <1>5, <3>0, <4>1
    <3>5. ASSUME NEW j \in i + 1 .. Len(q2) + 1 PROVE pos2[i] + len[q2[i]] <= pos2[j]
      <4>1. CASE j \in i + 1 .. Len(q) + 1
        <5>1. pos2[j] = pos[j] /\ pos[i] + len[q[i]] <= pos[j]
          BY <1>1, <1>2, <2>2, <3>0, <4>1
        <5>2. QED BY <3>3, <5>1
      <4>2. CASE j = Len(q) + 2
        <5>1. pos2[j] = total + len[f]
          BY <1>2, <4>2
        <5>2. total + len[f] \in Nat /\ total <= total + len[f]
          BY <1>1
        <5>3. pos[i] + len[q[i]] <= total + len[f]
          BY <3>1, <5>2
        <5>4. QED BY <3>3, <5>1, <5>3
      <4>3. Len(q) \in Nat /\ Len(q2) = Len(q) + 1
        BY <1>1, <1>7
      <4>4. j \in i + 1 .. Len(q) + 1 \/ j = Len(q) + 2
        BY <2>2, <4>3
      <4>5. QED BY <4>1, <4>2, <4>4
    <3>6. QED BY <3>1, <3>3, <3>4, <3>5, <3>7
  <2>3. QED BY <1>1, <1>7, <2>1, <2>2
<1>9. pos2[1] = 0
  BY <1>1, <1>2
<1>10. Layout(len, q2, st2, pos2)
  BY <1>8, <1>9 DEF Layout
<1>11. QED BY <1>1, <1>2, <1>4, <1>5, <1>6, <1>10 DEF q2

-----------------------------------------------------------------------------
\* Chunks under way

\* Chunks are the same in two streams that agree as far as they go.
LEMMA ChunksStay ==
    ASSUME NEW p \in Pipes, NEW st, NEW st2, NEW first, NEW last \in Nat, ChunksTo(p, st, first, last),
           \A x \in 1 .. last : st2[x] = st[x]
    PROVE  ChunksTo(p, st2, first, last)
<1>1. PICK cut \in Offsets :
          /\ Chunks(p, st, cut)
          /\ cut[1] = first /\ cut[Len(p) + 1] = last /\ \A i \in 1 .. Len(p) + 1 : cut[i] <= last
  BY DEF ChunksTo
<1>2. Len(p) \in Nat /\ \A i \in Nat : cut[i] \in Nat
  BY DEF Pipes, Offsets
<1>3. ASSUME NEW i \in 1 .. Len(p)
      PROVE  cut[i] < cut[i + 1] /\ Piece(p[i], st2, cut[i], cut[i + 1])
  <2>1. i \in Nat /\ i + 1 \in Nat /\ i + 1 \in 1 .. Len(p) + 1
    BY <1>2
  <2>2. cut[i] \in Nat /\ cut[i + 1] \in Nat /\ cut[i + 1] <= last
    BY <1>1, <1>2, <2>1
  <2>3. cut[i] < cut[i + 1] /\ Piece(p[i], st, cut[i], cut[i + 1])
    BY <1>1 DEF Chunks
  <2>4. \A x \in 1 .. cut[i + 1] : st2[x] = st[x]
    BY <2>2
  <2>5. QED BY <2>2, <2>3, <2>4, PieceStays
<1>4. Chunks(p, st2, cut)
  BY <1>3 DEF Chunks
<1>5. QED BY <1>1, <1>4 DEF ChunksTo

LEMMA ChunksBounds ==
    ASSUME NEW p \in Pipes, NEW st, NEW first, NEW last, ChunksTo(p, st, first, last)
    PROVE  first \in Nat /\ last \in Nat /\ first <= last /\ (p = << >> => first = last)
<1>1. PICK cut \in Offsets :
          cut[1] = first /\ cut[Len(p) + 1] = last /\ \A i \in 1 .. Len(p) + 1 : cut[i] <= last
  BY DEF ChunksTo
<1>2. Len(p) \in Nat /\ (p = << >> => Len(p) = 0)
  BY DEF Pipes
<1>3. 1 \in 1 .. Len(p) + 1 /\ Len(p) + 1 \in Nat
  BY <1>2
<1>4. first \in Nat /\ last \in Nat
  BY <1>1, <1>3 DEF Offsets
<1>5. QED BY <1>1, <1>2, <1>3, <1>4

\* The bytes of a write follow what is under way, as a chunk of their own
LEMMA ChunkSent ==
    ASSUME NEW p \in Pipes, NEW st, NEW first, NEW last, ChunksTo(p, st, first, last),
           NEW u \in UnitSeqs, NEW hi \in Nat, last < hi, Piece(u, st, last, hi),
           NEW p2, p2 = Append(p, u)
    PROVE  ChunksTo(p2, st, first, hi)
<1>0. PICK cut \in Offsets :
          /\ Chunks(p, st, cut)
          /\ cut[1] = first /\ cut[Len(p) + 1] = last /\ \A i \in 1 .. Len(p) + 1 : cut[i] <= last
  BY DEF ChunksTo
<1>9. last \in Nat
  BY ChunksBounds
<1> DEFINE cut2 == [i \in Nat |-> IF i <= Len(p) + 1 THEN cut[i] ELSE hi]
<1>1. /\ Len(p) \in Nat /\ Len(p2) = Len(p) + 1 /\ p2[Len(p) + 1] = u
      /\ \A i \in 1 .. Len(p) : p2[i] = p[i]
  BY Appended DEF Pipes
<1>2. cut2 \in Offsets
  <2>1. \A i \in Nat : cut[i] \in Nat
    BY DEF Offsets
  <2>2. QED BY <2>1 DEF Offsets
<1>3. /\ cut2[Len(p) + 2] = hi /\ \A i \in 1 .. Len(p) + 1 : cut2[i] = cut[i]
  <2>1. Len(p) + 2 \in Nat /\ ~ (Len(p) + 2 <= Len(p) + 1)
    BY <1>1
  <2>2. \A i \in 1 .. Len(p) + 1 : i \in Nat /\ i <= Len(p) + 1
    BY <1>1
  <2>3. QED BY <2>1, <2>2
<1> HIDE DEF cut2
<1>4. ASSUME NEW i \in 1 .. Len(p2)
      PROVE  cut2[i] < cut2[i + 1] /\ Piece(p2[i], st, cut2[i], cut2[i + 1])
  <2>1. CASE i \in 1 .. Len(p)
    <3>1. i \in 1 .. Len(p) + 1 /\ i + 1 \in 1 .. Len(p) + 1
      BY <1>1, <2>1
    <3>2. cut2[i] = cut[i] /\ cut2[i + 1] = cut[i + 1] /\ p2[i] = p[i]
      BY <1>1, <1>3, <2>1, <3>1
    <3>3. QED BY <1>0, <2>1, <3>2 DEF Chunks
  <2>2. CASE i = Len(p) + 1
    <3>1. i \in 1 .. Len(p) + 1 /\ i + 1 = Len(p) + 2
      BY <1>1, <2>2
    <3>2. cut2[i] = last /\ cut2[i + 1] = hi /\ p2[i] = u
      BY <1>0, <1>1, <1>3, <2>2, <3>1
    <3>3. QED BY <3>2
  <2>3. i \in 1 .. Len(p) \/ i = Len(p) + 1
    BY <1>1
  <2>4. QED BY <2>1, <2>2, <2>3
<1>5. Chunks(p2, st, cut2)
  BY <1>4 DEF Chunks
<1>6. ASSUME NEW i \in 1 .. Len(p2) + 1 PROVE cut2[i] <= hi
  <2>1. i \in 1 .. Len(p) + 1 \/ i = Len(p) + 2
    BY <1>1
  <2>2. CASE i \in 1 .. Len(p) + 1
    <3>1. cut[i] <= last /\ cut2[i] = cut[i]
      BY <1>0, <1>3, <2>2
    <3>2. cut[i] \in Nat
      BY <1>1, <2>2 DEF Offsets
    <3>3. QED BY <1>9, <3>1, <3>2
  <2>3. QED BY <1>3, <2>1, <2>2
<1>7. 1 \in 1 .. Len(p) + 1 /\ Len(p2) + 1 = Len(p) + 2
  BY <1>1
<1>8. QED BY <1>0, <1>2, <1>3, <1>5, <1>6, <1>7 DEF ChunksTo

\* or joined to the only chunk of a socket.
LEMMA ChunkJoined ==
    ASSUME NEW p \in Pipes, NEW st, NEW first, NEW last, ChunksTo(p, st, first, last),
           NEW u \in UnitSeqs, NEW hi \in Nat, last < hi, Piece(u, st, last, hi),
           Len(p) = 1, NEW p2, p2 = <<p[1] \o u>>
    PROVE  ChunksTo(p2, st, first, hi)
<1>0. PICK cut \in Offsets :
          /\ Chunks(p, st, cut)
          /\ cut[1] = first /\ cut[Len(p) + 1] = last /\ \A i \in 1 .. Len(p) + 1 : cut[i] <= last
  BY DEF ChunksTo
<1>12. last \in Nat
  BY ChunksBounds
<1> DEFINE c == p[1]
           cut2 == [i \in Nat |-> IF i = 1 THEN cut[1] ELSE hi]
<1>1. first \in Nat /\ cut[1] = first /\ cut[2] \in Nat /\ cut[2] \in Nat /\ Len(p) + 1 = 2 /\ last = cut[2]
  BY <1>0 DEF Offsets
<1>2. c \in UnitSeqs
  <2>1. 1 \in 1 .. Len(p)
    OBVIOUS
  <2>2. QED BY <2>1, ElementOfSeq DEF Pipes
<1>3. cut[1] < cut[2] /\ Piece(c, st, cut[1], cut[2])
  <2>1. 1 \in 1 .. Len(p) /\ 1 + 1 = 2
    OBVIOUS
  <2>2. QED BY <1>0, <2>1 DEF Chunks
<1>4. cut2 \in Offsets /\ cut2[1] = cut[1] /\ cut2[2] = hi
  BY <1>1 DEF Offsets
<1> HIDE DEF c, cut2
<1>5. Piece(c \o u, st, cut[1], hi)
  <2>1. cut[1] <= cut[2] /\ cut[2] <= hi /\ Piece(u, st, cut[2], hi)
    BY <1>1, <1>3
  <2>2. QED BY <1>1, <1>2, <1>3, <2>1, PiecesJoin
<1>6. Len(p2) = 1 /\ p2[1] = c \o u
  BY DEF c
<1>7. cut[1] < hi
  BY <1>1, <1>3
<1>8. Chunks(p2, st, cut2)
  <2>1. ASSUME NEW i \in 1 .. Len(p2)
        PROVE  cut2[i] < cut2[i + 1] /\ Piece(p2[i], st, cut2[i], cut2[i + 1])
    <3>1. i = 1 /\ i + 1 = 2
      BY <1>6
    <3>2. QED BY <1>4, <1>5, <1>6, <1>7, <3>1
  <2>2. QED BY <2>1 DEF Chunks
<1>9. \A i \in 1 .. Len(p2) + 1 : i = 1 \/ i = 2
  BY <1>6
<1>10. Len(p2) + 1 = 2
  BY <1>6
<1>11. QED BY <1>1, <1>4, <1>7, <1>8, <1>9, <1>10 DEF ChunksTo

LEMMA ChunksCarried ==
    ASSUME NEW p \in Pipes, NEW st, NEW first, NEW last, ChunksTo(p, st, first, last),
           NEW u \in UnitSeqs, NEW hi \in Nat, last < hi, Piece(u, st, last, hi),
           NEW p2, Carries(p, u, p2)
    PROVE  ChunksTo(p2, st, first, hi)
<1>1. CASE p2 = Append(p, u)
  BY <1>1, ChunkSent
<1>2. CASE Len(p) = 1 /\ p2 = <<p[1] \o u>>
  BY <1>2, ChunkJoined
<1>3. QED BY <1>1, <1>2 DEF Carries

\* The m units that a write takes from what is left of its buffer are the next in the
\* stream.
NextPiece(wb, wr, m, st, lo, total) ==
    \E last \in Nat, hi \in Nat :
        /\ last = lo + wr /\ hi = last + m /\ last < hi /\ hi <= total
        /\ Piece(NextUnits(wb, wr, m), st, last, hi)
        /\ (m = Len(wb) - wr => hi = total)

LEMMA UnitsWritten ==
    ASSUME NEW wb \in UnitSeqs, NEW wr \in Nat, wr <= Len(wb),
           NEW m \in Nat, m > 0, m <= Len(wb) - wr,
           NEW st, NEW lo \in Nat, NEW total \in Nat, Piece(wb, st, lo, total)
    PROVE  NextUnits(wb, wr, m) \in UnitSeqs /\ NextPiece(wb, wr, m, st, lo, total)
<1> DEFINE rest == Back(wb, wr)
<1>1. rest \in UnitSeqs /\ Len(rest) = Len(wb) - wr /\ Piece(rest, st, lo + wr, total)
      /\ Len(wb) = total - lo /\ Len(wb) \in Nat
  <2>1. /\ Back(wb, wr) \in UnitSeqs /\ Len(Back(wb, wr)) = Len(wb) - wr
        /\ Piece(Back(wb, wr), st, lo + wr, total)
    BY PieceCut
  <2>2. Len(wb) = total - lo /\ Len(wb) \in Nat
    BY DEF Piece, UnitSeqs
  <2>3. QED BY <2>1, <2>2
<1> HIDE DEF rest
<1>2. PICK last \in Nat : last = lo + wr
  OBVIOUS
<1>3. PICK hi \in Nat : hi = last + m
  OBVIOUS
<1>4. m \in Nat /\ m <= Len(rest) /\ Piece(rest, st, last, total)
  BY <1>1, <1>2
<1>5. Front(rest, m) \in UnitSeqs /\ Piece(Front(rest, m), st, last, last + m)
  BY <1>1, <1>4, PieceCut
<1>6. NextUnits(wb, wr, m) = Front(rest, m)
  BY DEF NextUnits, rest
<1>7. last < hi /\ hi <= total /\ (m = Len(wb) - wr => hi = total)
  BY <1>1, <1>2, <1>3
<1>8. QED BY <1>2, <1>3, <1>5, <1>6, <1>7 DEF NextPiece

\* The chunks that are left when m units of the first were read.
LEMMA ChunkRead ==
    ASSUME NEW p \in Pipes, p # << >>, NEW st, NEW first, NEW last, ChunksTo(p, st, first, last),
           NEW c, c = Head(p), NEW m \in 1 .. Len(c), NEW p2, p2 = LeftOver(p, m)
    PROVE  ChunksTo(p2, st, first + m, last)
<1>0. PICK cut \in Offsets :
          /\ Chunks(p, st, cut)
          /\ cut[1] = first /\ cut[Len(p) + 1] = last /\ \A i \in 1 .. Len(p) + 1 : cut[i] <= last
  BY DEF ChunksTo
<1>8. last \in Nat
  BY ChunksBounds
<1>1. /\ Len(p) \in Nat /\ Len(p) > 0 /\ c = p[1] /\ c \in UnitSeqs
      /\ Tail(p) \in Seq(UnitSeqs) /\ Len(Tail(p)) = Len(p) - 1
      /\ \A i \in 1 .. Len(p) - 1 : Tail(p)[i] = p[i + 1]
  BY HeadTailProperties DEF Pipes
<1>2. cut[1] \in Nat /\ cut[2] \in Nat /\ \A i \in Nat : cut[i] \in Nat
  BY DEF Offsets
<1>3. cut[1] < cut[2] /\ Piece(c, st, cut[1], cut[2])
  <2>1. 1 \in 1 .. Len(p) /\ 1 + 1 = 2
    BY <1>1
  <2>2. QED BY <1>0, <1>1, <2>1 DEF Chunks
<1>4. Len(c) = cut[2] - cut[1] /\ Len(c) \in Nat /\ m \in Nat
  BY <1>1, <1>3 DEF Piece
<1>5. CASE m = Len(c)
  <2> DEFINE cut2 == [i \in Nat |-> cut[i + 1]]
  <2>1. p2 = Tail(p) /\ Len(p2) = Len(p) - 1 /\ Len(p2) + 1 = Len(p) /\ Len(p2) \in Nat
    <3>1. p2 = Tail(p)
      BY <1>5 DEF LeftOver
    <3>2. QED BY <1>1, <3>1
  <2>2. cut2 \in Offsets /\ \A i \in Nat : cut2[i] = cut[i + 1]
    <3>1. \A i \in Nat : i + 1 \in Nat
      OBVIOUS
    <3>2. QED BY <1>2, <3>1 DEF Offsets
  <2> HIDE DEF cut2
  <2>3. cut2[1] = cut[1] + m
    <3>1. cut2[1] = cut[2]
      BY <2>2
    <3>2. QED BY <1>2, <1>4, <1>5, <3>1
  <2>4. ASSUME NEW i \in 1 .. Len(p2) + 1 PROVE cut2[i] <= last
    <3>1. i \in Nat /\ i + 1 \in 1 .. Len(p) + 1
      BY <1>1, <2>1
    <3>2. QED BY <1>0, <2>2, <3>1
  <2>5. ASSUME NEW i \in 1 .. Len(p2)
        PROVE  cut2[i] < cut2[i + 1] /\ Piece(p2[i], st, cut2[i], cut2[i + 1])
    <3>1. i \in Nat /\ i + 1 \in Nat /\ i + 1 \in 1 .. Len(p) /\ i \in 1 .. Len(p) - 1
      BY <1>1, <2>1
    <3>2. p2[i] = p[i + 1] /\ cut2[i] = cut[i + 1] /\ cut2[i + 1] = cut[(i + 1) + 1]
      BY <1>1, <2>1, <2>2, <3>1
    <3>3. cut[i + 1] < cut[(i + 1) + 1] /\ Piece(p[i + 1], st, cut[i + 1], cut[(i + 1) + 1])
      BY <1>0, <3>1 DEF Chunks
    <3>4. QED BY <3>2, <3>3
  <2>6. Chunks(p2, st, cut2)
    BY <2>5 DEF Chunks
  <2>7. cut2[Len(p2) + 1] = cut[Len(p) + 1]
    BY <1>1, <2>1, <2>2
  <2>8. QED BY <1>0, <2>2, <2>3, <2>4, <2>6, <2>7 DEF ChunksTo
<1>6. CASE m # Len(c)
  <2> DEFINE left == Back(c, m)
             cut2 == [i \in Nat |-> IF i = 1 THEN cut[1] + m ELSE cut[i]]
  <2>1. left \in UnitSeqs /\ Piece(left, st, cut[1] + m, cut[2])
    <3>1. m \in Nat /\ m <= Len(c)
      BY <1>4
    <3>2. QED BY <1>1, <1>2, <1>3, <3>1, PieceCut
  <2> HIDE DEF left
  <2>2. <<left>> \in Seq(UnitSeqs) /\ Len(<<left>>) = 1 /\ <<left>>[1] = left
    BY <2>1
  <2>3. /\ Len(p2) = Len(p) /\ p2[1] = left
        /\ \A i \in 2 .. Len(p) : p2[i] = p[i]
    <3>1. p2 = <<left>> \o Tail(p)
      BY <1>6 DEF left, LeftOver
    <3>2. /\ Len(p2) = 1 + (Len(p) - 1)
          /\ \A k \in 1 .. 1 : p2[k] = <<left>>[k]
          /\ \A k \in 1 .. Len(p) - 1 : p2[1 + k] = Tail(p)[k]
      BY <1>1, <2>2, <3>1, Joined
    <3>3. ASSUME NEW i \in 2 .. Len(p) PROVE p2[i] = p[i]
      <4>1. PICK k \in 1 .. Len(p) - 1 : i = 1 + k /\ i = k + 1
        <5>1. i - 1 \in 1 .. Len(p) - 1 /\ i = 1 + (i - 1) /\ i = (i - 1) + 1
          BY <1>1
        <5>2. QED BY <5>1
      <4>2. p2[1 + k] = Tail(p)[k] /\ Tail(p)[k] = p[k + 1]
        BY <1>1, <3>2
      <4>3. QED BY <4>1, <4>2
    <3>4. QED BY <1>1, <2>2, <3>2, <3>3
  <2>4. cut2 \in Offsets /\ cut2[1] = cut[1] + m /\ \A i \in Nat \ {1} : cut2[i] = cut[i]
    <3>1. cut[1] + m \in Nat
      BY <1>2, <1>4
    <3>2. QED BY <1>2, <3>1 DEF Offsets
  <2> HIDE DEF cut2
  <2>5. cut[1] + m < cut[2]
    BY <1>2, <1>4, <1>6
  <2>6. ASSUME NEW i \in 1 .. Len(p2) + 1 PROVE cut2[i] <= last
    <3>1. CASE i = 1
      <4>1. 2 \in 1 .. Len(p) + 1
        BY <1>1
      <4>2. cut[2] <= last
        BY <1>0, <4>1
      <4>3. QED BY <1>0, <1>8, <1>2, <1>4, <2>4, <2>5, <3>1, <4>2
    <3>2. CASE i # 1
      <4>1. i \in Nat \ {1} /\ i \in 1 .. Len(p) + 1
        BY <1>1, <2>3, <3>2
      <4>2. QED BY <1>0, <2>4, <4>1
    <3>3. QED BY <3>1, <3>2
  <2>7. ASSUME NEW i \in 1 .. Len(p2)
        PROVE  cut2[i] < cut2[i + 1] /\ Piece(p2[i], st, cut2[i], cut2[i + 1])
    <3>1. CASE i = 1
      <4>1. cut2[i + 1] = cut[2] /\ i + 1 = 2
        BY <2>4, <3>1
      <4>2. QED BY <2>1, <2>3, <2>4, <2>5, <3>1, <4>1
    <3>2. CASE i # 1
      <4>1. i \in 2 .. Len(p) /\ i \in 1 .. Len(p) /\ i \in Nat \ {1} /\ i + 1 \in Nat \ {1}
        BY <1>1, <2>3, <3>2
      <4>2. cut2[i] = cut[i] /\ cut2[i + 1] = cut[i + 1] /\ p2[i] = p[i]
        BY <2>3, <2>4, <4>1
      <4>3. cut[i] < cut[i + 1] /\ Piece(p[i], st, cut[i], cut[i + 1])
        BY <1>0, <4>1 DEF Chunks
      <4>4. QED BY <4>2, <4>3
    <3>3. QED BY <3>1, <3>2
  <2>8. Chunks(p2, st, cut2)
    BY <2>7 DEF Chunks
  <2>9. cut2[Len(p2) + 1] = cut[Len(p) + 1]
    <3>1. Len(p) + 1 \in Nat \ {1}
      BY <1>1
    <3>2. QED BY <2>3, <2>4, <3>1
  <2>10. QED BY <1>0, <2>4, <2>6, <2>8, <2>9 DEF ChunksTo
<1>7. QED BY <1>5, <1>6

LEMMA ChunksLeft ==
    ASSUME NEW p \in Pipes, p # << >>, NEW st, NEW first, NEW last, ChunksTo(p, st, first, last),
           NEW m \in 1 .. Len(Head(p))
    PROVE  /\ ChunksTo(LeftOver(p, m), st, first + m, last)
           /\ Front(Head(p), m) \in UnitSeqs
           /\ Piece(Front(Head(p), m), st, first, first + m)
<1> DEFINE c == Head(p)
           p2 == LeftOver(p, m)
<1>1. PICK cut \in Offsets :
          /\ Chunks(p, st, cut)
          /\ cut[1] = first /\ cut[Len(p) + 1] = last /\ \A i \in 1 .. Len(p) + 1 : cut[i] <= last
  BY DEF ChunksTo
<1>2. last \in Nat /\ first \in Nat
  BY ChunksBounds
<1>3. /\ Len(p) \in Nat /\ 1 \in 1 .. Len(p) /\ c = p[1] /\ c \in UnitSeqs
  BY HeadTailProperties DEF Pipes
<1>4. m \in 1 .. Len(c)
  OBVIOUS
<1> HIDE DEF c
<1>5. ChunksTo(p2, st, first + m, last)
  <2>1. c = Head(p) /\ p2 = LeftOver(p, m)
    BY DEF c
  <2> HIDE DEF p2
  <2>2. QED BY <1>4, <2>1, ChunkRead
<1>6. Front(c, m) \in UnitSeqs /\ Piece(Front(c, m), st, first, first + m)
  <2>1. PICK hi \in Nat : hi = cut[2]
    BY DEF Offsets
  <2>2. first < hi /\ Piece(c, st, first, hi)
    <3>1. cut[1] < cut[1 + 1] /\ Piece(p[1], st, cut[1], cut[1 + 1])
      BY <1>1, <1>3 DEF Chunks
    <3>2. 1 + 1 = 2
      OBVIOUS
    <3>3. QED BY <1>1, <1>3, <2>1, <3>1, <3>2
  <2>3. m \in Nat /\ m <= Len(c)
    BY <1>3, <1>4
  <2>4. QED BY <1>2, <1>3, <2>2, <2>3, PieceCut
<1>7. QED BY <1>5, <1>6 DEF c

-----------------------------------------------------------------------------
\* What each operation does to a direction

LEMMA OffsetAt ==
    ASSUME NEW pos \in Offsets, NEW i \in Nat
    PROVE  pos[i] \in Nat
BY DEF Offsets

\* Another frame f is queued.
LEMMA FlowQueues ==
    ASSUME NEW len \in Lengths, NEW q \in FrameSeqs, NEW n \in Nat,
           NEW rb, NEW p \in Pipes, NEW wb \in UnitSeqs, NEW wr \in Nat,
           Flow(len, q, n, rb, p, wb, wr),
           NEW f \in Frames, len[f] > 0
    PROVE  Flow(len, Append(q, f), n, rb, p, wb \o Whole(len, f), wr)
<1>1. PICK st \in Streams, pos \in Offsets, mid \in Nat, w \in Nat :
          FlowBy(len, q, n, rb, p, wb, wr, st, pos, mid, w)
  BY DEF Flow
<1> DEFINE u == Whole(len, f)
           q2 == Append(q, f)
           total == pos[Len(q) + 1]
<1>2. /\ Layout(len, q, st, pos) /\ ChunksTo(p, st, mid, pos[w] + wr)
      /\ n <= Len(q) /\ pos[n + 1] <= mid /\ Piece(rb, st, pos[n + 1], mid)
      /\ w \in 1 .. Len(q) + 1 /\ pos[w] + wr <= total
      /\ Piece(wb, st, pos[w], total)
  BY <1>1 DEF FlowBy
<1>3. PICK st2 \in Streams, pos2 \in Offsets :
          /\ \A x \in 1 .. total : st2[x] = st[x]
          /\ \A k \in 1 .. len[f] : st2[total + k] = Unit(f, k)
          /\ \A i \in 1 .. Len(q) + 1 : pos2[i] = pos[i]
          /\ pos2[Len(q) + 2] = total + len[f] /\ len[f] \in Nat /\ total \in Nat
          /\ Layout(len, q2, st2, pos2)
  <2>1. Layout(len, q, st, pos)
    BY <1>2
  <2>2. total = pos[Len(q) + 1]
    OBVIOUS
  <2> HIDE DEF total
  <2>3. QED BY <2>1, <2>2, LayoutGrows
<1>4. /\ u \in UnitSeqs /\ Len(u) = len[f]
      /\ \A k \in 1 .. len[f] : u[k] = Unit(f, k)
  BY WholeType
<1>5. Len(q) \in Nat /\ \A i \in 1 .. Len(q) + 1 : pos[i] \in Nat /\ pos[i] <= total
  BY <1>2, LayoutBounds
<1>6. Len(q2) = Len(q) + 1
  BY Appended
<1> HIDE DEF u, q2, total
<1>7. mid \in Nat /\ pos[w] + wr \in Nat /\ mid <= total
  <2>1. mid <= pos[w] + wr /\ pos[w] + wr \in Nat
    BY <1>2, ChunksBounds
  <2>2. QED BY <1>2, <1>3, <2>1
<1>8. \A hi \in Nat : hi <= total => \A x \in 1 .. hi : st2[x] = st[x]
  BY <1>3
<1>9. ChunksTo(p, st2, mid, pos[w] + wr)
  BY <1>2, <1>7, <1>8, ChunksStay
<1>10. Piece(rb, st2, pos[n + 1], mid)
  <2>1. pos[n + 1] \in Nat
    BY <1>2, <1>5
  <2>2. QED BY <1>2, <1>7, <1>8, <2>1, PieceStays
<1>11. Piece(wb \o u, st2, pos[w], total + len[f])
  <2>1. pos[w] \in Nat /\ pos[w] <= total
    BY <1>2, <1>5
  <2>2. Piece(wb, st2, pos[w], total)
    BY <1>2, <1>3, <1>8, <2>1, PieceStays
  <2>3. Piece(u, st2, total, total + len[f])
    BY <1>3, <1>4 DEF Piece
  <2>4. total + len[f] \in Nat /\ total <= total + len[f]
    BY <1>3
  <2>5. QED BY <1>3, <1>4, <2>1, <2>2, <2>3, <2>4, PiecesJoin
<1>12. /\ n + 1 \in 1 .. Len(q) + 1 /\ n <= Len(q2) /\ w \in 1 .. Len(q2) + 1
       /\ pos2[n + 1] = pos[n + 1] /\ pos2[w] = pos[w] /\ pos2[Len(q2) + 1] = total + len[f]
  BY <1>2, <1>3, <1>5, <1>6
<1>13. pos2[w] + wr <= pos2[Len(q2) + 1]
  <2>1. pos[w] + wr <= total /\ total <= total + len[f] /\ total + len[f] \in Nat
    BY <1>2, <1>3
  <2>2. pos[w] + wr <= total + len[f]
    BY <1>3, <1>7, <2>1
  <2>3. QED BY <1>12, <2>2
<1>14. FlowBy(len, q2, n, rb, p, wb \o u, wr, st2, pos2, mid, w)
  BY <1>2, <1>3, <1>9, <1>10, <1>11, <1>12, <1>13 DEF FlowBy
<1>15. Flow(len, q2, n, rb, p, wb \o u, wr)
  BY <1>3, <1>14 DEF Flow
<1>16. QED BY <1>15 DEF q2, u

\* m units of the write buffer get into the stream.
LEMMA FlowWrites ==
    ASSUME NEW len \in Lengths, NEW q \in FrameSeqs, NEW n \in Nat,
           NEW rb, NEW p \in Pipes, NEW wb \in UnitSeqs, NEW wr \in Nat,
           Flow(len, q, n, rb, p, wb, wr), wr <= Len(wb),
           NEW m \in 1 .. Len(wb) - wr, NEW p2, Carries(p, NextUnits(wb, wr, m), p2)
    PROVE  /\ m = Len(wb) - wr => Flow(len, q, n, rb, p2, << >>, 0)
           /\ Flow(len, q, n, rb, p2, wb, wr + m)
<1>1. PICK st \in Streams, pos \in Offsets, mid \in Nat, w \in Nat :
          FlowBy(len, q, n, rb, p, wb, wr, st, pos, mid, w)
  BY DEF Flow
<1> DEFINE u == NextUnits(wb, wr, m)
<1>2. /\ Layout(len, q, st, pos)
      /\ n <= Len(q) /\ pos[n + 1] <= mid /\ Piece(rb, st, pos[n + 1], mid)
      /\ ChunksTo(p, st, mid, pos[w] + wr)
      /\ w \in 1 .. Len(q) + 1 /\ Piece(wb, st, pos[w], pos[Len(q) + 1])
  BY <1>1 DEF FlowBy
<1>3. /\ Len(q) \in Nat /\ pos[Len(q) + 1] \in Nat
      /\ pos[w] \in Nat /\ pos[w] <= pos[Len(q) + 1]
  BY <1>2, LayoutBounds
<1>4. PICK total \in Nat : total = pos[Len(q) + 1]
  BY <1>3
<1>5. PICK lo \in Nat : lo = pos[w]
  BY <1>3
<1>6. u \in UnitSeqs /\ NextPiece(wb, wr, m, st, lo, total)
  <2>1. Piece(wb, st, lo, total)
    BY <1>2, <1>4, <1>5
  <2>2. m \in Nat /\ m > 0 /\ m <= Len(wb) - wr
    <3>1. Len(wb) \in Nat
      BY DEF UnitSeqs
    <3>2. QED BY <3>1
  <2>3. QED BY <2>1, <2>2, UnitsWritten
<1>7. PICK last \in Nat, hi \in Nat :
          /\ last = lo + wr /\ hi = last + m /\ last < hi /\ hi <= total
          /\ Piece(u, st, last, hi)
          /\ (m = Len(wb) - wr => hi = total)
  BY <1>6 DEF NextPiece
<1> HIDE DEF u
<1>8. ChunksTo(p2, st, mid, hi)
  <2>1. Carries(p, u, p2)
    BY DEF u
  <2>2. ChunksTo(p, st, mid, last)
    BY <1>2, <1>5, <1>7
  <2>3. QED BY <1>6, <1>7, <2>1, <2>2, ChunksCarried
<1>9. hi <= total /\ (m = Len(wb) - wr => hi = total)
  BY <1>7
<1>10. Flow(len, q, n, rb, p2, wb, wr + m)
  <2>1. pos[w] + (wr + m) = hi
    BY <1>3, <1>5, <1>7
  <2>2. FlowBy(len, q, n, rb, p2, wb, wr + m, st, pos, mid, w)
    BY <1>2, <1>4, <1>8, <1>9, <2>1 DEF FlowBy
  <2>3. QED BY <1>1, <2>2 DEF Flow
<1>11. ASSUME m = Len(wb) - wr PROVE Flow(len, q, n, rb, p2, << >>, 0)
  <2>1. PICK v \in Nat : v = Len(q) + 1 /\ v \in 1 .. Len(q) + 1
    BY <1>3
  <2>2. pos[v] = total /\ pos[v] + 0 = hi
    BY <1>4, <1>9, <1>11, <2>1
  <2>3. Piece(<< >>, st, pos[v], pos[Len(q) + 1])
    BY <1>4, <2>2 DEF Piece
  <2>4. FlowBy(len, q, n, rb, p2, << >>, 0, st, pos, mid, v)
    BY <1>2, <1>4, <1>8, <1>9, <2>1, <2>2, <2>3 DEF FlowBy
  <2>5. QED BY <1>1, <2>4 DEF Flow
<1>12. QED BY <1>10, <1>11

\* m units of the first chunk are read.
LEMMA FlowReads ==
    ASSUME NEW len \in Lengths, NEW q \in FrameSeqs, NEW n \in Nat,
           NEW rb \in UnitSeqs, NEW p \in Pipes, p # << >>, NEW wb, NEW wr \in Nat,
           Flow(len, q, n, rb, p, wb, wr), NEW m \in 1 .. Len(Head(p))
    PROVE  Flow(len, q, n, rb \o Front(Head(p), m), LeftOver(p, m), wb, wr)
<1>1. PICK st \in Streams, pos \in Offsets, mid \in Nat, w \in Nat :
          FlowBy(len, q, n, rb, p, wb, wr, st, pos, mid, w)
  BY DEF Flow
<1> DEFINE u == Front(Head(p), m)
           p2 == LeftOver(p, m)
<1>2. /\ Layout(len, q, st, pos)
      /\ n <= Len(q) /\ pos[n + 1] <= mid /\ Piece(rb, st, pos[n + 1], mid)
      /\ ChunksTo(p, st, mid, pos[w] + wr)
      /\ w \in 1 .. Len(q) + 1 /\ pos[w] + wr <= pos[Len(q) + 1]
      /\ Piece(wb, st, pos[w], pos[Len(q) + 1])
  BY <1>1 DEF FlowBy
<1>3. ChunksTo(p2, st, mid + m, pos[w] + wr) /\ u \in UnitSeqs /\ Piece(u, st, mid, mid + m)
  BY <1>2, ChunksLeft
<1> HIDE DEF u, p2
<1>4. m \in Nat /\ mid + m \in Nat /\ mid <= mid + m /\ pos[n + 1] \in Nat /\ pos[n + 1] <= mid + m
  <2>1. m \in Nat
    OBVIOUS
  <2>2. pos[n + 1] \in Nat
    <3>1. n + 1 \in Nat
      OBVIOUS
    <3>2. QED BY <3>1, OffsetAt
  <2>3. QED BY <1>2, <2>1, <2>2
<1>5. Piece(rb \o u, st, pos[n + 1], mid + m)
  BY <1>2, <1>3, <1>4, PiecesJoin
<1>6. FlowBy(len, q, n, rb \o u, p2, wb, wr, st, pos, mid + m, w)
  BY <1>2, <1>3, <1>4, <1>5 DEF FlowBy
<1>7. Flow(len, q, n, rb \o u, p2, wb, wr)
  BY <1>4, <1>6 DEF Flow
<1>8. QED BY <1>7 DEF u, p2

\* What is in the read buffer begins with the next frame's header.
LEMMA FlowHeader ==
    ASSUME NEW len \in Lengths, NEW q \in FrameSeqs, NEW n \in Nat,
           NEW rb \in UnitSeqs, rb # << >>, NEW p \in Pipes, NEW wb, NEW wr \in Nat,
           NEW st, NEW pos \in Offsets, NEW mid \in Nat, NEW w,
           FlowBy(len, q, n, rb, p, wb, wr, st, pos, mid, w)
    PROVE  /\ n < Len(q) /\ n + 1 \in 1 .. Len(q) /\ Head(rb) = Unit(q[n + 1], 1)
           /\ Len(rb) = mid - pos[n + 1] /\ Len(rb) > 0 /\ Len(rb) \in Nat
<1>1. /\ Layout(len, q, st, pos)
      /\ n <= Len(q) /\ pos[n + 1] <= mid /\ Piece(rb, st, pos[n + 1], mid)
      /\ ChunksTo(p, st, mid, pos[w] + wr) /\ pos[w] + wr <= pos[Len(q) + 1]
  BY DEF FlowBy
<1>2. Len(q) \in Nat /\ pos[Len(q) + 1] \in Nat /\ pos[n + 1] \in Nat
  BY <1>1, LayoutBounds DEF Offsets
<1>3. Len(rb) \in Nat /\ Len(rb) > 0 /\ Head(rb) = rb[1]
  OBVIOUS
<1>4. Len(rb) = mid - pos[n + 1] /\ \A k \in 1 .. mid - pos[n + 1] : rb[k] = st[pos[n + 1] + k]
  BY <1>1 DEF Piece
<1>5. mid <= pos[Len(q) + 1]
  <2>1. mid <= pos[w] + wr /\ pos[w] + wr \in Nat
    BY <1>1, ChunksBounds
  <2>2. QED BY <1>1, <1>2, <2>1
<1>6. pos[n + 1] < pos[Len(q) + 1]
  BY <1>2, <1>3, <1>4, <1>5
<1>7. n # Len(q)
  BY <1>2, <1>6
<1>8. n < Len(q) /\ n + 1 \in 1 .. Len(q)
  BY <1>1, <1>2, <1>7
<1>9. /\ len[q[n + 1]] \in Nat /\ len[q[n + 1]] > 0
      /\ \A k \in 1 .. len[q[n + 1]] : st[pos[n + 1] + k] = Unit(q[n + 1], k)
  BY <1>1, <1>8, FrameAt
<1>10. rb[1] = st[pos[n + 1] + 1]
  BY <1>2, <1>3, <1>4
<1>11. st[pos[n + 1] + 1] = Unit(q[n + 1], 1)
  BY <1>9
<1>12. QED BY <1>3, <1>4, <1>8, <1>10, <1>11

\* so what is decoded is the next frame queued, whole.
LEMMA FlowDecodes ==
    ASSUME NEW len \in Lengths, NEW q \in FrameSeqs, NEW n \in Nat,
           NEW rb \in UnitSeqs, rb # << >>, NEW p \in Pipes, NEW wb, NEW wr \in Nat,
           Flow(len, q, n, rb, p, wb, wr)
    PROVE  /\ n < Len(q) /\ n + 1 \in 1 .. Len(q) /\ q[n + 1] \in Frames
           /\ Head(rb) = Unit(q[n + 1], 1)
           /\ len[q[n + 1]] <= Len(rb) =>
                  /\ Front(rb, len[q[n + 1]]) = Whole(len, q[n + 1])
                  /\ Flow(len, q, n + 1, Back(rb, len[q[n + 1]]), p, wb, wr)
<1>1. PICK st \in Streams, pos \in Offsets, mid \in Nat, w \in Nat :
          FlowBy(len, q, n, rb, p, wb, wr, st, pos, mid, w)
  BY DEF Flow
<1>2. /\ n < Len(q) /\ n + 1 \in 1 .. Len(q) /\ Head(rb) = Unit(q[n + 1], 1)
      /\ Len(rb) = mid - pos[n + 1] /\ Len(rb) \in Nat
  BY <1>1, FlowHeader
<1>3. /\ Layout(len, q, st, pos)
      /\ pos[n + 1] <= mid /\ Piece(rb, st, pos[n + 1], mid)
      /\ ChunksTo(p, st, mid, pos[w] + wr)
      /\ w \in 1 .. Len(q) + 1 /\ pos[w] + wr <= pos[Len(q) + 1]
      /\ Piece(wb, st, pos[w], pos[Len(q) + 1])
  BY <1>1 DEF FlowBy
<1>4. PICK f \in Frames : f = q[n + 1]
  BY <1>2, <1>3, FrameAt
<1>5. PICK lo \in Nat : lo = pos[n + 1]
  BY DEF Offsets
<1>6. PICK j \in Nat : /\ j = len[f] /\ j > 0 /\ pos[n + 2] = lo + j
                       /\ \A k \in 1 .. j : st[lo + k] = Unit(f, k)
  <2>1. (n + 1) + 1 = n + 2
    OBVIOUS
  <2>2. /\ len[q[n + 1]] \in Nat /\ len[q[n + 1]] > 0 /\ pos[(n + 1) + 1] = pos[n + 1] + len[q[n + 1]]
        /\ \A k \in 1 .. len[q[n + 1]] : st[pos[n + 1] + k] = Unit(q[n + 1], k)
    <3>1. PICK i \in 1 .. Len(q) : i = n + 1
      BY <1>2
    <3>2. /\ len[q[i]] \in Nat /\ len[q[i]] > 0 /\ pos[i + 1] = pos[i] + len[q[i]]
          /\ \A k \in 1 .. len[q[i]] : st[pos[i] + k] = Unit(q[i], k)
      BY <1>3, FrameAt
    <3>3. QED BY <3>1, <3>2
  <2>3. QED BY <1>4, <1>5, <2>1, <2>2
<1>7. ASSUME j <= Len(rb)
      PROVE  Front(rb, j) = Whole(len, f) /\ Flow(len, q, n + 1, Back(rb, j), p, wb, wr)
  <2>1. /\ Front(rb, j) \in UnitSeqs /\ Len(Front(rb, j)) = j /\ Len(rb) = mid - lo
        /\ Piece(Front(rb, j), st, lo, lo + j) /\ Piece(Back(rb, j), st, lo + j, mid)
    <3>1. Piece(rb, st, lo, mid)
      BY <1>3, <1>5
    <3>2. QED BY <1>7, <3>1, PieceCut
  <2>2. Front(rb, j) = Whole(len, f)
    <3>1. (lo + j) - lo = j
      OBVIOUS
    <3>2. \A k \in 1 .. j : Front(rb, j)[k] = Unit(f, k)
      BY <1>6, <2>1, <3>1 DEF Piece
    <3>3. /\ Whole(len, f) \in UnitSeqs /\ Len(Whole(len, f)) = j
          /\ \A k \in 1 .. j : Whole(len, f)[k] = Unit(f, k)
      BY <1>6, WholeType
    <3>4. \A k \in 1 .. j : Front(rb, j)[k] = Whole(len, f)[k]
      BY <3>2, <3>3
    <3>5. QED BY <2>1, <3>3, <3>4, SeqEqual DEF UnitSeqs
  <2>3. Flow(len, q, n + 1, Back(rb, j), p, wb, wr)
    <3>1. lo + j <= mid
      BY <1>2, <1>5, <1>7, <2>1
    <3>2. Piece(Back(rb, j), st, pos[n + 2], mid) /\ pos[n + 2] <= mid
      BY <1>6, <2>1, <3>1
    <3>3. n + 1 \in Nat /\ (n + 1) + 1 = n + 2 /\ n + 1 <= Len(q)
      BY <1>2
    <3>4. FlowBy(len, q, n + 1, Back(rb, j), p, wb, wr, st, pos, mid, w)
      BY <1>3, <3>2, <3>3 DEF FlowBy
    <3>5. QED BY <1>1, <3>4 DEF Flow
  <2>4. QED BY <2>2, <2>3
<1>8. QED BY <1>2, <1>4, <1>6, <1>7

\* When nothing is under way and no write has begun, what was read is whole frames.
LEMMA FlowEnds ==
    ASSUME NEW len \in Lengths, NEW q \in FrameSeqs, NEW n \in Nat,
           NEW rb \in UnitSeqs, rb # << >>, NEW wb,
           Flow(len, q, n, rb, << >>, wb, 0)
    PROVE  len[q[n + 1]] <= Len(rb)
<1>0. << >> \in Pipes /\ 0 \in Nat
  BY DEF Pipes
<1>1. PICK st \in Streams, pos \in Offsets, mid \in Nat, w \in Nat :
          FlowBy(len, q, n, rb, << >>, wb, 0, st, pos, mid, w)
  BY DEF Flow
<1>2. /\ n + 1 \in 1 .. Len(q) /\ Len(rb) = mid - pos[n + 1] /\ Len(rb) > 0
  BY <1>0, <1>1, FlowHeader
<1>3. /\ Layout(len, q, st, pos) /\ w \in 1 .. Len(q) + 1 /\ ChunksTo(<< >>, st, mid, pos[w] + 0)
  BY <1>1 DEF FlowBy
<1>4. mid = pos[w] + 0
  BY <1>0, <1>3, ChunksBounds
<1>5. pos[w] \in Nat /\ pos[n + 1] \in Nat /\ Len(q) \in Nat
  <2>1. w \in Nat /\ n + 1 \in Nat /\ Len(q) \in Nat
    OBVIOUS
  <2>2. QED BY <2>1, OffsetAt
<1>6. pos[n + 1] < pos[w]
  BY <1>2, <1>4, <1>5
<1>7. len[q[n + 1]] \in Nat /\ \A j \in (n + 1) + 1 .. Len(q) + 1 : pos[n + 1] + len[q[n + 1]] <= pos[j]
  BY <1>2, <1>3, FrameAt
<1>8. w \in (n + 1) + 1 .. Len(q) + 1
  <2>1. ~ (w <= n)
    <3>1. ASSUME w <= n PROVE FALSE
      <4>1. w \in 1 .. Len(q) /\ n + 1 \in w + 1 .. Len(q) + 1
        BY <1>2, <1>3, <1>5, <3>1
      <4>2. pos[w] + len[q[w]] <= pos[n + 1] /\ len[q[w]] \in Nat
        BY <1>3, <4>1, FrameAt
      <4>3. QED BY <1>5, <1>6, <4>2
    <3>2. QED BY <3>1
  <2>2. w # n + 1
    BY <1>5, <1>6
  <2>3. QED BY <1>3, <1>5, <2>1, <2>2
<1>9. pos[n + 1] + len[q[n + 1]] <= pos[w]
  BY <1>7, <1>8
<1>10. QED BY <1>2, <1>4, <1>5, <1>7, <1>9

-----------------------------------------------------------------------------
\* The state

Places == Over \cup {"registered", "direct", "contended", "yielded", "writing", "waiting"}

StreamTypes ==
    /\ setting \in Settings
    /\ wbuf \in [Ends -> UnitSeqs] /\ rbuf \in [Ends -> UnitSeqs]
    /\ pipe \in [Ends -> Pipes] /\ written \in [Ends -> Nat]
    /\ queued \in [Ends -> FrameSeqs] /\ received \in [Ends -> Seq(Frames \cup Garbage)]
    /\ \A e \in Ends : written[e] < Len(wbuf[e]) \/ written[e] = 0
    /\ \A e \in Ends : setting.link = "socket" => Size(e) <= SocketCap /\ Len(pipe[e]) <= 1

ControlTypes ==
    /\ task \in [Tasks -> Places] /\ lock \in Tasks \cup {Nobody} /\ pending \cup mail \subseteq Tasks
    /\ session \in {"loop", "flush", "wait"} \cup Ended /\ closed \in {"yes", "no"} /\ torn \in {"yes", "no"}
    /\ \A t \in Tasks : task[t] = "writing" <=> lock = t

Lens == [f \in Frames |-> Length(f)]

\* The frames queued at end e, and where they are.
FlowOf(e) == Flow(Lens, queued[e], Len(received[e]), rbuf[Peer(e)], pipe[e], wbuf[e], written[e])

\* What the session and the calls have to do with it: who may still write, whose lock
\* begins with a write that has not begun, and when the session asks for more.
ControlInv ==
    /\ \A t \in Tasks : task[t] # "idle" => setting.request[t] > 0
    /\ lock = Nobody => written["client"] = 0
    /\ closed = "yes" => \A t \in Tasks : task[t] \in Over
    /\ session = "closed" => closed = "yes"
    /\ session \in {"flush", "wait"} => Decoded(rbuf["server"]) = "more"
    /\ \A i \in 1 .. Len(queued["client"]) : queued["client"][i].kind = "request"

FlowInv ==
    /\ FlowOf("server")
    /\ torn = "no" /\ session # "failed" => FlowOf("client")
    /\ torn = "no" /\ ~ Oversize => session # "failed"

ConnInv == StreamTypes /\ ControlTypes /\ ControlInv /\ FlowInv

-----------------------------------------------------------------------------
\* Facts of a state

LEMMA TwoEnds ==
    ASSUME NEW e \in Ends
    PROVE  Peer(e) \in Ends /\ Peer(e) # e /\ Peer(Peer(e)) = e /\ (\A d \in Ends : d # e => d = Peer(e))
BY DEF Ends, Peer

LEMMA FrameKinds ==
    /\ \A t \in Tasks : Frame("request", t) \in Frames /\ Frame("answer", t) \in Frames
    /\ Frame("push", Nobody) \in Frames
    /\ \A f \in Frames : /\ f.kind \in {"request", "answer", "push"} /\ f.task \in Tasks \cup {Nobody}
                         /\ f.kind = "request" => f.task \in Tasks /\ f = Frame("request", f.task)
                         /\ f.kind = "answer" => f.task \in Tasks
    /\ \A k, t : Frame(k, t).kind = k /\ Frame(k, t).task = t
<1>1. ASSUME NEW f \in Frames
      PROVE  \/ \E t \in Tasks : f = Frame("request", t) \/ f = Frame("answer", t)
             \/ f = Frame("push", Nobody)
  BY DEF Frames
<1>2. \A k, t : Frame(k, t).kind = k /\ Frame(k, t).task = t
  BY DEF Frame
<1>3. /\ \A t \in Tasks : Frame("request", t) \in Frames /\ Frame("answer", t) \in Frames
      /\ Frame("push", Nobody) \in Frames
  BY DEF Frames
<1>4. QED BY <1>1, <1>2, <1>3

LEMMA Settled ==
    ASSUME setting \in Settings
    PROVE  /\ \A t \in Tasks : setting.request[t] \in Nat /\ setting.answer[t] \in Nat /\ setting.answer[t] > 0
           /\ setting.link \in {"socket", "softbus"}
<1>1. IsSetting(setting)
  BY ConnectionAssumption
<1>2. QED BY <1>1 DEF IsSetting

LEMMA LensType ==
    ASSUME setting \in Settings
    PROVE  /\ Lens \in Lengths /\ \A f \in Frames : Lens[f] = Length(f) /\ Length(f) \in Nat
           /\ \A t \in Tasks : /\ Lens[Frame("request", t)] = setting.request[t]
                               /\ Lens[Frame("answer", t)] > 0
           /\ Lens[Frame("push", Nobody)] > 0
<1>1. ASSUME NEW f \in Frames PROVE Length(f) \in Nat
  BY FrameKinds, Settled DEF Length
<1>2. \A f \in Frames : Lens[f] = Length(f)
  BY DEF Lens
<1>3. Lens \in Lengths
  BY <1>1 DEF Lens, Lengths
<1>4. /\ \A t \in Tasks : /\ Length(Frame("request", t)) = setting.request[t]
                          /\ Length(Frame("answer", t)) = setting.answer[t]
      /\ Length(Frame("push", Nobody)) = 1
  BY FrameKinds DEF Length
<1>5. QED BY <1>1, <1>2, <1>3, <1>4, FrameKinds, Settled

LEMMA UnitsAreWhole ==
    ASSUME setting \in Settings, NEW f \in Frames
    PROVE  Units(f) = Whole(Lens, f) /\ Units(f) \in UnitSeqs /\ Len(Units(f)) = Lens[f] /\ Lens[f] \in Nat
<1>1. Lens \in Lengths /\ Lens[f] = Length(f)
  BY LensType
<1>2. Units(f) = Whole(Lens, f)
  BY <1>1 DEF Units, Whole, Unit
<1>3. QED BY <1>1, <1>2, WholeType

\* What a setting fixes stays fixed.
LEMMA LensStay ==
    ASSUME setting' = setting
    PROVE  Lens' = Lens /\ (Oversize' <=> Oversize)
BY DEF Lens, Length, Oversize

LEMMA FlowKept ==
    ASSUME setting' = setting, NEW e \in Ends,
           queued'[e] = queued[e], received'[e] = received[e], rbuf'[Peer(e)] = rbuf[Peer(e)],
           pipe'[e] = pipe[e], wbuf'[e] = wbuf[e], written'[e] = written[e]
    PROVE  FlowOf(e)' <=> FlowOf(e)
BY LensStay DEF FlowOf

LEMMA DecodedStays ==
    ASSUME setting' = setting, NEW e \in Ends, rbuf'[e] = rbuf[e]
    PROVE  Decoded(rbuf[e])' = Decoded(rbuf[e])
BY DEF Decoded, Length, Units

LEMMA DecodedCases ==
    ASSUME setting \in Settings, NEW b \in UnitSeqs
    PROVE  /\ Decoded(b) \in {"more", "error", "whole", "garbled"}
           /\ Decoded(b) \in {"whole", "garbled"} =>
                  /\ b # << >> /\ Head(b)[1] \in Frames /\ Length(Head(b)[1]) \in Nat
                  /\ Length(Head(b)[1]) <= Len(b) /\ FrameOf(b) \in Frames \cup Garbage
                  /\ RestOf(b) \in UnitSeqs
                  /\ FrameOf(b).kind = "request" => FrameOf(b).task \in Tasks
<1>1. Decoded(b) \in {"more", "error", "whole", "garbled"}
  BY DEF Decoded
<1>2. ASSUME Decoded(b) \in {"whole", "garbled"}
      PROVE  /\ b # << >> /\ Head(b)[1] \in Frames /\ Length(Head(b)[1]) \in Nat
             /\ Length(Head(b)[1]) <= Len(b) /\ FrameOf(b) \in Frames \cup Garbage
             /\ RestOf(b) \in UnitSeqs
             /\ FrameOf(b).kind = "request" => FrameOf(b).task \in Tasks
  <2>1. b # << >>
    BY <1>2 DEF Decoded
  <2> DEFINE f == Head(b)[1]
  <2>2. Head(b) \in StreamUnits /\ Len(b) \in Nat
    BY <2>1 DEF UnitSeqs
  <2>3. f \in Frames
    BY <2>2 DEF StreamUnits
  <2>4. Length(f) \in Nat
    BY <2>3, LensType
  <2> HIDE DEF f
  <2>5. Length(f) <= Len(b)
    BY <1>2, <2>1, <2>2, <2>4 DEF Decoded, f
  <2>6. FrameOf(b) = f \/ FrameOf(b) = [kind |-> "garbled", task |-> f.task]
    BY DEF FrameOf, f
  <2>7. f.task \in Tasks \cup {Nobody}
    BY <2>3, FrameKinds
  <2>8. FrameOf(b) \in Frames \cup Garbage
    BY <2>3, <2>6, <2>7 DEF Garbage
  <2>9. FrameOf(b).kind = "request" => FrameOf(b).task \in Tasks
    BY <2>3, <2>6, FrameKinds
  <2>10. RestOf(b) \in UnitSeqs
    <3>1. SubSeq(b, Length(f) + 1, Len(b)) \in Seq(StreamUnits)
      BY <2>2, <2>4, <2>5, SubSeqFacts DEF UnitSeqs
    <3>2. QED BY <3>1 DEF RestOf, UnitSeqs, f
  <2>11. QED BY <2>1, <2>3, <2>4, <2>5, <2>8, <2>9, <2>10 DEF f
<1>3. QED BY <1>1, <1>2

\* In a sound stream a reader finds the next frame queued, or too little of it, or a
\* length over the limit.
LEMMA SoundDecodes ==
    ASSUME StreamTypes, NEW e \in Ends, FlowOf(e), NEW b, b = rbuf[Peer(e)], NEW n, n = Len(received[e])
    PROVE  /\ Decoded(b) # "garbled"
           /\ Decoded(b) = "error" => Oversize
           /\ Decoded(b) = "whole" => /\ n < Len(queued[e]) /\ n + 1 \in 1 .. Len(queued[e])
                                      /\ FrameOf(b) = queued[e][n + 1]
                                      /\ Flow(Lens, queued[e], n + 1, RestOf(b), pipe[e], wbuf[e], written[e])
           /\ pipe[e] = << >> /\ written[e] = 0 /\ Decoded(b) = "more" => b = << >>
<1>1. /\ setting \in Settings /\ b \in UnitSeqs /\ n \in Nat /\ queued[e] \in FrameSeqs
      /\ pipe[e] \in Pipes /\ written[e] \in Nat
  BY TwoEnds DEF StreamTypes
<1>2. Lens \in Lengths
  BY <1>1, LensType
<1>3. Flow(Lens, queued[e], n, b, pipe[e], wbuf[e], written[e])
  BY DEF FlowOf
<1>4. CASE b = << >>
  BY <1>4 DEF Decoded
<1>5. CASE b # << >>
  <2>1. /\ n < Len(queued[e]) /\ n + 1 \in 1 .. Len(queued[e]) /\ queued[e][n + 1] \in Frames
        /\ Head(b) = Unit(queued[e][n + 1], 1)
        /\ Lens[queued[e][n + 1]] <= Len(b) =>
               /\ Front(b, Lens[queued[e][n + 1]]) = Whole(Lens, queued[e][n + 1])
               /\ Flow(Lens, queued[e], n + 1, Back(b, Lens[queued[e][n + 1]]), pipe[e], wbuf[e], written[e])
    <3>1. PICK q \in FrameSeqs, p \in Pipes, wr \in Nat, len \in Lengths :
              q = queued[e] /\ p = pipe[e] /\ wr = written[e] /\ len = Lens
      BY <1>1, <1>2
    <3>2. Flow(len, q, n, b, p, wbuf[e], wr)
      BY <1>3, <3>1
    <3>3. /\ n < Len(q) /\ n + 1 \in 1 .. Len(q) /\ q[n + 1] \in Frames
          /\ Head(b) = Unit(q[n + 1], 1)
          /\ len[q[n + 1]] <= Len(b) =>
                 /\ Front(b, len[q[n + 1]]) = Whole(len, q[n + 1])
                 /\ Flow(len, q, n + 1, Back(b, len[q[n + 1]]), p, wbuf[e], wr)
      BY <1>1, <1>5, <3>2, FlowDecodes
    <3>4. QED BY <3>1, <3>3
  <2>2. PICK f \in Frames : f = queued[e][n + 1]
    BY <2>1
  <2>3. Lens[f] = Length(f) /\ Length(f) \in Nat /\ Units(f) = Whole(Lens, f)
    BY <1>1, LensType, UnitsAreWhole
  <2>4. Head(b)[1] = f /\ Head(b)[2] = 1
    BY <2>1, <2>2, UnitFacts
  <2>5. Len(b) \in Nat
    BY <1>1 DEF UnitSeqs
  <2>6. Length(f) <= Len(b) =>
            /\ SubSeq(b, 1, Length(f)) = Units(f)
            /\ Flow(Lens, queued[e], n + 1, RestOf(b), pipe[e], wbuf[e], written[e])
    BY <2>1, <2>2, <2>3, <2>4 DEF Front, Back, RestOf
  <2>7. Decoded(b) = IF Length(f) > MaxLen THEN "error" ELSE IF Len(b) < Length(f) THEN "more" ELSE "whole"
    BY <1>5, <2>3, <2>4, <2>5, <2>6 DEF Decoded
  <2>8. Decoded(b) = "error" => Oversize
    BY <2>7 DEF Oversize
  <2>9. Decoded(b) = "whole" => FrameOf(b) = f /\ Length(f) <= Len(b)
    BY <2>3, <2>4, <2>5, <2>7 DEF FrameOf
  <2>10. pipe[e] = << >> /\ written[e] = 0 => Length(f) <= Len(b)
    <3>1. ASSUME pipe[e] = << >>, written[e] = 0 PROVE Length(f) <= Len(b)
      <4>1. Flow(Lens, queued[e], n, b, << >>, wbuf[e], 0)
        BY <1>3, <3>1
      <4>2. Lens[queued[e][n + 1]] <= Len(b)
        BY <1>1, <1>2, <1>5, <4>1, FlowEnds
      <4>3. QED BY <2>2, <2>3, <4>2
    <3>2. QED BY <3>1
  <2>11. QED BY <2>1, <2>2, <2>3, <2>5, <2>6, <2>7, <2>8, <2>9, <2>10
<1>6. QED BY <1>4, <1>5

-----------------------------------------------------------------------------
\* What the operations on the stream do

\* FrameWriter::queue appends one whole frame to the stream.
LEMMA QueueEffect ==
    ASSUME StreamTypes, NEW e \in Ends, NEW f \in Frames, QueueFrame(e, f), setting' = setting
    PROVE  /\ wbuf' \in [Ends -> UnitSeqs] /\ queued' \in [Ends -> FrameSeqs]
           /\ \A d \in Ends : Len(wbuf[d]) <= Len(wbuf'[d]) /\ Len(wbuf[d]) \in Nat /\ Len(wbuf'[d]) \in Nat
           /\ queued'[e] = Append(queued[e], f)
           /\ \A d \in Ends : d # e => wbuf'[d] = wbuf[d] /\ queued'[d] = queued[d]
           /\ /\ Lens[f] > 0 /\ FlowOf(e)
              /\ written'[e] = written[e] /\ pipe'[e] = pipe[e]
              /\ rbuf'[Peer(e)] = rbuf[Peer(e)] /\ received'[e] = received[e]
              => FlowOf(e)'
<1>1. /\ setting \in Settings /\ wbuf \in [Ends -> UnitSeqs] /\ queued \in [Ends -> FrameSeqs]
      /\ pipe[e] \in Pipes /\ written[e] \in Nat /\ Len(received[e]) \in Nat
  BY DEF StreamTypes
<1>2. Units(f) = Whole(Lens, f) /\ Units(f) \in UnitSeqs /\ Lens \in Lengths
  BY <1>1, UnitsAreWhole, LensType
<1>3. wbuf[e] \in UnitSeqs /\ queued[e] \in FrameSeqs
  BY <1>1
<1>4. /\ wbuf[e] \o Units(f) \in UnitSeqs /\ Len(wbuf[e] \o Units(f)) >= Len(wbuf[e])
      /\ Append(queued[e], f) \in FrameSeqs
  BY <1>2, <1>3, Joined DEF UnitSeqs, FrameSeqs
<1>5. /\ wbuf' = [wbuf EXCEPT ![e] = wbuf[e] \o Units(f)]
      /\ queued' = [queued EXCEPT ![e] = Append(queued[e], f)]
  BY DEF QueueFrame
<1>6. wbuf'[e] = wbuf[e] \o Whole(Lens, f) /\ queued'[e] = Append(queued[e], f)
  BY <1>1, <1>2, <1>5
<1>7. \A d \in Ends : d # e => wbuf'[d] = wbuf[d] /\ queued'[d] = queued[d]
  BY <1>1, <1>5
<1>8. wbuf' \in [Ends -> UnitSeqs] /\ queued' \in [Ends -> FrameSeqs]
  BY <1>1, <1>4, <1>5
<1>9. \A d \in Ends : Len(wbuf[d]) <= Len(wbuf'[d]) /\ Len(wbuf[d]) \in Nat /\ Len(wbuf'[d]) \in Nat
  <2>1. \A b \in UnitSeqs : Len(b) \in Nat
    BY DEF UnitSeqs
  <2>2. \A d \in Ends : Len(wbuf[d]) \in Nat /\ Len(wbuf'[d]) \in Nat
    BY <1>1, <1>8, <2>1
  <2>3. Len(wbuf[e]) <= Len(wbuf'[e])
    BY <1>2, <1>4, <1>6, <2>2
  <2>4. QED BY <1>7, <2>2, <2>3
<1>10. ASSUME Lens[f] > 0, FlowOf(e), written'[e] = written[e], pipe'[e] = pipe[e],
              rbuf'[Peer(e)] = rbuf[Peer(e)], received'[e] = received[e]
       PROVE  FlowOf(e)'
  <2>1. Flow(Lens, queued[e], Len(received[e]), rbuf[Peer(e)], pipe[e], wbuf[e], written[e])
    BY <1>10 DEF FlowOf
  <2>2. Flow(Lens, Append(queued[e], f), Len(received[e]), rbuf[Peer(e)], pipe[e],
             wbuf[e] \o Whole(Lens, f), written[e])
    BY <1>1, <1>2, <1>3, <1>10, <2>1, FlowQueues
  <2>3. Lens' = Lens
    BY LensStay
  <2>4. QED BY <1>6, <1>10, <2>2, <2>3 DEF FlowOf
<1>11. QED BY <1>6, <1>7, <1>8, <1>9, <1>10

\* FrameReader::next_buffered takes the next frame queued and leaves the rest.
LEMMA TakeFrameEffect ==
    ASSUME StreamTypes, NEW e \in Ends, TakeFrame(e), setting' = setting
    PROVE  /\ rbuf' \in [Ends -> UnitSeqs] /\ received' \in [Ends -> Seq(Frames \cup Garbage)]
           /\ FrameOf(rbuf[e]) \in Frames \cup Garbage
           /\ FrameOf(rbuf[e]).kind = "request" => FrameOf(rbuf[e]).task \in Tasks
           /\ received'[Peer(e)] = Append(received[Peer(e)], FrameOf(rbuf[e]))
           /\ rbuf'[Peer(e)] = rbuf[Peer(e)] /\ received'[e] = received[e]
           /\ FlowOf(Peer(e)) =>
                  /\ Len(received[Peer(e)]) < Len(queued[Peer(e)])
                  /\ Len(received[Peer(e)]) + 1 \in 1 .. Len(queued[Peer(e)])
                  /\ FrameOf(rbuf[e]) = queued[Peer(e)][Len(received[Peer(e)]) + 1]
                  /\ /\ queued'[Peer(e)] = queued[Peer(e)] /\ pipe'[Peer(e)] = pipe[Peer(e)]
                     /\ wbuf'[Peer(e)] = wbuf[Peer(e)] /\ written'[Peer(e)] = written[Peer(e)]
                     => FlowOf(Peer(e))'
<1> DEFINE d == Peer(e)
           b == rbuf[e]
<1>0. d \in Ends /\ d # e /\ Peer(d) = e
  BY TwoEnds
<1>1. /\ setting \in Settings /\ rbuf \in [Ends -> UnitSeqs] /\ received \in [Ends -> Seq(Frames \cup Garbage)]
      /\ b \in UnitSeqs
  BY DEF StreamTypes
<1>2. Decoded(b) \in {"whole", "garbled"}
  BY DEF TakeFrame
<1>3. /\ FrameOf(b) \in Frames \cup Garbage /\ RestOf(b) \in UnitSeqs
      /\ FrameOf(b).kind = "request" => FrameOf(b).task \in Tasks
  BY <1>1, <1>2, DecodedCases
<1>4. /\ rbuf' = [rbuf EXCEPT ![e] = RestOf(b)]
      /\ received' = [received EXCEPT ![d] = Append(received[d], FrameOf(b))]
  BY DEF TakeFrame
<1> HIDE DEF d, b
<1>5. /\ received[d] \in Seq(Frames \cup Garbage) /\ Len(received[d]) \in Nat
      /\ Append(received[d], FrameOf(b)) \in Seq(Frames \cup Garbage)
      /\ Len(Append(received[d], FrameOf(b))) = Len(received[d]) + 1
  BY <1>0, <1>1, <1>3
<1>6. rbuf' \in [Ends -> UnitSeqs] /\ received' \in [Ends -> Seq(Frames \cup Garbage)]
  BY <1>1, <1>3, <1>4, <1>5
<1>7. /\ rbuf'[e] = RestOf(b) /\ received'[d] = Append(received[d], FrameOf(b))
      /\ rbuf'[d] = rbuf[d] /\ received'[e] = received[e]
  BY <1>0, <1>1, <1>4
<1>8. ASSUME FlowOf(d)
      PROVE  /\ Len(received[d]) < Len(queued[d]) /\ Len(received[d]) + 1 \in 1 .. Len(queued[d])
             /\ FrameOf(b) = queued[d][Len(received[d]) + 1]
             /\ /\ queued'[d] = queued[d] /\ pipe'[d] = pipe[d]
                /\ wbuf'[d] = wbuf[d] /\ written'[d] = written[d]
                => FlowOf(d)'
  <2>1. /\ Decoded(b) # "garbled"
        /\ Decoded(b) = "whole" =>
               /\ Len(received[d]) < Len(queued[d]) /\ Len(received[d]) + 1 \in 1 .. Len(queued[d])
               /\ FrameOf(b) = queued[d][Len(received[d]) + 1]
               /\ Flow(Lens, queued[d], Len(received[d]) + 1, RestOf(b), pipe[d], wbuf[d], written[d])
    <3>1. b = rbuf[Peer(d)]
      BY <1>0 DEF b
    <3>2. QED BY <1>0, <1>8, <3>1, SoundDecodes
  <2>2. Lens' = Lens
    BY LensStay
  <2>3. Len(received'[d]) = Len(received[d]) + 1
    BY <1>5, <1>7
  <2>4. QED BY <1>0, <1>2, <1>7, <2>1, <2>2, <2>3 DEF FlowOf
<1>9. QED BY <1>3, <1>6, <1>7, <1>8 DEF b, d

LEMMA OneChunk ==
    ASSUME StreamTypes, NEW e \in Ends, setting.link = "socket", Len(pipe[e]) # 0
    PROVE  Len(pipe[e]) = 1
<1>1. Len(pipe[e]) <= 1
  BY DEF StreamTypes
<1>2. Len(pipe[e]) \in Nat
  <2>1. pipe[e] \in Pipes
    BY DEF StreamTypes
  <2>2. QED BY <2>1 DEF Pipes
<1>3. PICK k \in Nat : k = Len(pipe[e])
  BY <1>2
<1>4. k <= 1 /\ k # 0
  BY <1>1, <1>3
<1>5. k = 1
  BY <1>4
<1>6. QED BY <1>3, <1>5

\* A part of FrameWriter::flush moves units from the buffer into the stream.
LEMMA WriteEffect ==
    ASSUME StreamTypes, NEW e \in Ends, Write(e), UNCHANGED <<setting, rbuf, queued, received>>
    PROVE  /\ StreamTypes' /\ (FlowOf(e) => FlowOf(e)') /\ (FlowOf(Peer(e))' <=> FlowOf(Peer(e)))
           /\ wbuf'[e] = << >> => written'[e] = 0
           /\ written'[Peer(e)] = written[Peer(e)]
<1> DEFINE d == Peer(e)
<1>0. d \in Ends /\ d # e /\ Peer(d) = e /\ \A x \in Ends : x = e \/ x = d
  BY TwoEnds
<1>1. /\ setting \in Settings /\ wbuf \in [Ends -> UnitSeqs] /\ pipe \in [Ends -> Pipes]
      /\ written \in [Ends -> Nat] /\ queued[e] \in FrameSeqs /\ Len(received[e]) \in Nat
      /\ (written[e] < Len(wbuf[e]) \/ written[e] = 0)
      /\ setting.link = "socket" => Size(e) <= SocketCap /\ Len(pipe[e]) <= 1
  BY DEF StreamTypes
<1>2. /\ wbuf[e] \in UnitSeqs /\ Len(wbuf[e]) \in Nat /\ pipe[e] \in Pipes /\ written[e] \in Nat
      /\ Len(pipe[e]) \in Nat /\ (pipe[e] = << >> <=> Len(pipe[e]) = 0)
  <2>1. wbuf[e] \in UnitSeqs /\ pipe[e] \in Pipes /\ written[e] \in Nat
    BY <1>1
  <2>2. QED BY <2>1 DEF UnitSeqs, Pipes
<1>3. written[e] <= Len(wbuf[e])
  BY <1>1, <1>2
<1>4. Rest(e) = Back(wbuf[e], written[e]) /\ Len(Rest(e)) = Len(wbuf[e]) - written[e]
  <2>1. Len(SubSeq(wbuf[e], written[e] + 1, Len(wbuf[e]))) = Len(wbuf[e]) - written[e]
    BY <1>2, <1>3, SubSeqFacts DEF UnitSeqs
  <2>2. QED BY <2>1 DEF Rest, Back
<1>5. PICK n \in Accepts(e, Len(Rest(e))) \cap 1 .. Len(Rest(e)) :
          /\ Carry(e, SubSeq(Rest(e), 1, n))
          /\ IF n = Len(Rest(e)) THEN wbuf' = [wbuf EXCEPT ![e] = <<>>] /\ written' = [written EXCEPT ![e] = 0]
             ELSE written' = [written EXCEPT ![e] = @ + n] /\ UNCHANGED wbuf
  BY DEF Write
<1>6. n \in 1 .. Len(wbuf[e]) - written[e] /\ n \in Nat /\ n > 0
  BY <1>2, <1>4, <1>5
<1> DEFINE u == NextUnits(wbuf[e], written[e], n)
<1>7. u = SubSeq(Rest(e), 1, n)
  BY <1>4 DEF NextUnits, Front
<1>8. u \in UnitSeqs /\ Len(u) = n
  <2>1. SubSeq(wbuf[e], written[e] + 1, Len(wbuf[e])) \in Seq(StreamUnits)
    BY <1>2, <1>3, SubSeqFacts DEF UnitSeqs
  <2>2. Rest(e) \in Seq(StreamUnits) /\ n <= Len(Rest(e)) /\ 0 <= n /\ n - 0 = n /\ 0 + 1 = 1
    BY <1>4, <1>6, <2>1 DEF Rest
  <2>3. SubSeq(Rest(e), 0 + 1, n) \in Seq(StreamUnits) /\ Len(SubSeq(Rest(e), 0 + 1, n)) = n - 0
    BY <1>6, <2>2, SubSeqFacts
  <2>4. QED BY <1>7, <2>2, <2>3 DEF UnitSeqs
<1> HIDE DEF d, u
<1>9. pipe' = [pipe EXCEPT ![e] = IF setting.link = "softbus" \/ pipe[e] = <<>> THEN Append(pipe[e], u) ELSE <<pipe[e][1] \o u>>]
  BY <1>5, <1>7 DEF Carry
<1>10. pipe'[e] = IF setting.link = "softbus" \/ pipe[e] = <<>> THEN Append(pipe[e], u) ELSE <<pipe[e][1] \o u>>
  BY <1>1, <1>9
<1>11. pipe'[d] = pipe[d] /\ wbuf'[d] = wbuf[d] /\ written'[d] = written[d]
  BY <1>0, <1>1, <1>5, <1>9
<1>12. setting.link = "softbus" \/ setting.link = "socket"
  BY <1>1, Settled
<1>13. Carries(pipe[e], u, pipe'[e])
  <2>1. CASE setting.link = "softbus" \/ pipe[e] = << >>
    BY <1>10, <2>1 DEF Carries
  <2>2. CASE ~ (setting.link = "softbus" \/ pipe[e] = << >>)
    <3>1. Len(pipe[e]) = 1
      <4>1. setting.link = "socket" /\ Len(pipe[e]) # 0
        BY <1>2, <1>12, <2>2
      <4>2. QED BY <4>1, OneChunk
    <3>2. pipe'[e] = <<pipe[e][1] \o u>>
      BY <1>10, <2>2
    <3>3. QED BY <3>1, <3>2 DEF Carries
  <2>3. QED BY <2>1, <2>2
<1>14. /\ n = Len(wbuf[e]) - written[e] => wbuf'[e] = << >> /\ written'[e] = 0
       /\ n # Len(wbuf[e]) - written[e] => wbuf'[e] = wbuf[e] /\ written'[e] = written[e] + n
  BY <1>1, <1>4, <1>5
<1>15. FlowOf(d)' <=> FlowOf(d)
  BY <1>0, <1>11, FlowKept
<1>16. ASSUME FlowOf(e) PROVE FlowOf(e)'
  <2>1. PICK len \in Lengths, q \in FrameSeqs, k \in Nat, p \in Pipes, wb \in UnitSeqs, wr \in Nat :
            /\ len = Lens /\ q = queued[e] /\ k = Len(received[e])
            /\ p = pipe[e] /\ wb = wbuf[e] /\ wr = written[e]
    BY <1>1, <1>2, LensType
  <2>2. Flow(len, q, k, rbuf[Peer(e)], p, wb, wr)
    BY <1>16, <2>1 DEF FlowOf
  <2>3. wr <= Len(wb) /\ n \in 1 .. Len(wb) - wr /\ Carries(p, NextUnits(wb, wr, n), pipe'[e])
    BY <1>3, <1>6, <1>13, <2>1 DEF u
  <2>4. /\ n = Len(wb) - wr => Flow(len, q, k, rbuf[Peer(e)], pipe'[e], << >>, 0)
        /\ Flow(len, q, k, rbuf[Peer(e)], pipe'[e], wb, wr + n)
    BY <2>2, <2>3, FlowWrites
  <2>5. Lens' = len
    BY <2>1, LensStay
  <2>6. QED BY <1>14, <2>1, <2>4, <2>5 DEF FlowOf
<1>17. wbuf'[e] \in UnitSeqs /\ written'[e] \in Nat /\ (written'[e] < Len(wbuf'[e]) \/ written'[e] = 0)
  <2>1. << >> \in UnitSeqs
    BY DEF UnitSeqs
  <2>2. QED BY <1>2, <1>6, <1>14, <2>1
<1>18. /\ pipe'[e] \in Pipes
       /\ setting.link = "socket" => Size(e)' <= SocketCap /\ Len(pipe'[e]) <= 1
  <2>1. CASE setting.link = "softbus"
    BY <1>2, <1>8, <1>10, <2>1 DEF Pipes
  <2>2. CASE setting.link # "softbus" /\ pipe[e] = << >>
    <3>1. pipe'[e] = <<u>>
      BY <1>10, <2>2
    <3>2. Size(e)' = n /\ Len(pipe'[e]) = 1
      BY <1>8, <3>1 DEF Size
    <3>3. SocketCap - Size(e) = SocketCap /\ n \in 1 .. SocketCap - Size(e)
      BY <1>5, <2>2, ConnectionAssumption DEF Accepts, Size
    <3>4. n <= SocketCap
      BY <3>3
    <3>5. QED BY <1>8, <3>1, <3>2, <3>4 DEF Pipes
  <2>3. CASE setting.link # "softbus" /\ pipe[e] # << >>
    <3>1. pipe'[e] = <<pipe[e][1] \o u>>
      BY <1>10, <2>3
    <3>2. pipe[e][1] \in UnitSeqs /\ Size(e) = Len(pipe[e][1])
      BY <1>2, <2>3 DEF Pipes, Size
    <3>3. pipe[e][1] \o u \in UnitSeqs /\ Len(pipe[e][1] \o u) = Size(e) + n /\ Size(e) \in Nat
      BY <1>8, <3>2, Joined DEF UnitSeqs
    <3>4. Size(e)' = Size(e) + n /\ Len(pipe'[e]) = 1 /\ pipe'[e] \in Pipes
      BY <3>1, <3>3 DEF Size, Pipes
    <3>5. n \in 1 .. SocketCap - Size(e)
      BY <1>5, <2>3 DEF Accepts
    <3>6. QED BY <1>6, <3>3, <3>4, <3>5, ConnectionAssumption
  <2>4. QED BY <2>1, <2>2, <2>3
<1>19. /\ wbuf' = [wbuf EXCEPT ![e] = wbuf'[e]] /\ written' = [written EXCEPT ![e] = written'[e]]
       /\ pipe' = [pipe EXCEPT ![e] = pipe'[e]]
  BY <1>1, <1>5, <1>9, <1>10, <1>14
<1>20. wbuf' \in [Ends -> UnitSeqs] /\ written' \in [Ends -> Nat] /\ pipe' \in [Ends -> Pipes]
  BY <1>1, <1>17, <1>18, <1>19
<1>21. \A x \in Ends : written'[x] < Len(wbuf'[x]) \/ written'[x] = 0
  BY <1>0, <1>11, <1>17 DEF StreamTypes
<1>22. Size(d)' = Size(d)
  BY <1>11 DEF Size
<1>23. \A x \in Ends : setting.link = "socket" => Size(x)' <= SocketCap /\ Len(pipe'[x]) <= 1
  BY <1>0, <1>11, <1>18, <1>22 DEF StreamTypes
<1>24. StreamTypes'
  BY <1>20, <1>21, <1>23 DEF StreamTypes
<1>25. wbuf'[e] = << >> => written'[e] = 0
  BY <1>17
<1>26. QED BY <1>11, <1>15, <1>16, <1>24, <1>25 DEF d

\* One read moves units from the stream into the reader's buffer.
LEMMA TakeEffect ==
    ASSUME StreamTypes, NEW e \in Ends, Take(e), UNCHANGED <<setting, wbuf, written, queued, received>>
    PROVE  /\ StreamTypes' /\ (FlowOf(Peer(e)) => FlowOf(Peer(e))') /\ (FlowOf(e)' <=> FlowOf(e))
           /\ rbuf'[Peer(e)] = rbuf[Peer(e)]
<1> DEFINE d == Peer(e)
<1>0. d \in Ends /\ d # e /\ Peer(d) = e /\ \A x \in Ends : x = e \/ x = d
  BY TwoEnds
<1>1. /\ setting \in Settings /\ rbuf \in [Ends -> UnitSeqs] /\ pipe \in [Ends -> Pipes]
      /\ written[d] \in Nat /\ wbuf[d] \in UnitSeqs /\ queued[d] \in FrameSeqs /\ Len(received[d]) \in Nat
      /\ pipe[d] \in Pipes /\ rbuf[e] \in UnitSeqs
  BY <1>0 DEF StreamTypes
<1>2. pipe[d] # << >>
  BY DEF Take
<1> DEFINE c == Head(pipe[d])
<1>3. PICK n \in 1 .. Len(c) :
          /\ rbuf' = [rbuf EXCEPT ![e] = rbuf[e] \o Front(c, n)]
          /\ pipe' = [pipe EXCEPT ![d] = LeftOver(pipe[d], n)]
  BY DEF Take, Front, Back, LeftOver
<1>4. /\ c \in UnitSeqs /\ c = pipe[d][1] /\ Len(c) \in Nat
      /\ Tail(pipe[d]) \in Pipes /\ Len(Tail(pipe[d])) = Len(pipe[d]) - 1 /\ Len(pipe[d]) \in Nat
  BY <1>1, <1>2, HeadTailProperties DEF Pipes, UnitSeqs
<1>5. n \in Nat /\ n <= Len(c) /\ n > 0
  BY <1>4
<1> HIDE DEF c, d
<1>6. /\ Front(c, n) \in UnitSeqs /\ Back(c, n) \in UnitSeqs /\ Len(Back(c, n)) = Len(c) - n
  <2>1. 0 \in Nat /\ 0 <= n /\ 0 + 1 = 1
    BY <1>5
  <2>2. SubSeq(c, 0 + 1, n) \in Seq(StreamUnits)
    BY <1>4, <1>5, <2>1, SubSeqFacts DEF UnitSeqs
  <2>3. SubSeq(c, n + 1, Len(c)) \in Seq(StreamUnits) /\ Len(SubSeq(c, n + 1, Len(c))) = Len(c) - n
    BY <1>4, <1>5, SubSeqFacts DEF UnitSeqs
  <2>4. QED BY <2>1, <2>2, <2>3 DEF UnitSeqs, Front, Back
<1>7. /\ rbuf'[e] = rbuf[e] \o Front(c, n) /\ rbuf'[d] = rbuf[d]
      /\ pipe'[d] = LeftOver(pipe[d], n) /\ pipe'[e] = pipe[e]
  BY <1>0, <1>1, <1>3
<1>8. rbuf[e] \o Front(c, n) \in UnitSeqs
  BY <1>1, <1>6, Joined DEF UnitSeqs
<1>9. /\ LeftOver(pipe[d], n) \in Pipes
      /\ Len(LeftOver(pipe[d], n)) <= Len(pipe[d])
      /\ Len(pipe[d]) <= 1 =>
             \/ LeftOver(pipe[d], n) = << >>
             \/ LeftOver(pipe[d], n) # << >> /\ LeftOver(pipe[d], n)[1] = Back(c, n)
  <2>1. CASE n = Len(c)
    <3>1. LeftOver(pipe[d], n) = Tail(pipe[d])
      BY <2>1 DEF LeftOver, c
    <3>2. Len(pipe[d]) <= 1 => Tail(pipe[d]) = << >>
      BY <1>4 DEF Pipes
    <3>3. QED BY <1>4, <3>1, <3>2
  <2>2. CASE n # Len(c)
    <3>1. LeftOver(pipe[d], n) = <<Back(c, n)>> \o Tail(pipe[d])
      BY <2>2 DEF LeftOver, c
    <3>2. <<Back(c, n)>> \in Seq(UnitSeqs) /\ Len(<<Back(c, n)>>) = 1 /\ <<Back(c, n)>>[1] = Back(c, n)
      BY <1>6
    <3>3. Tail(pipe[d]) \in Seq(UnitSeqs)
      BY <1>4 DEF Pipes, UnitSeqs
    <3>4. /\ LeftOver(pipe[d], n) \in Seq(UnitSeqs)
          /\ Len(LeftOver(pipe[d], n)) = 1 + Len(Tail(pipe[d]))
          /\ \A k \in 1 .. 1 : LeftOver(pipe[d], n)[k] = <<Back(c, n)>>[k]
      BY <3>1, <3>2, <3>3, Joined
    <3>5. LeftOver(pipe[d], n) \in Pipes
      BY <3>4 DEF Pipes, UnitSeqs
    <3>6. LeftOver(pipe[d], n)[1] = Back(c, n) /\ LeftOver(pipe[d], n) # << >>
      BY <1>4, <3>2, <3>4
    <3>7. Len(LeftOver(pipe[d], n)) <= Len(pipe[d])
      BY <1>4, <3>4
    <3>8. QED BY <3>5, <3>6, <3>7
  <2>3. QED BY <2>1, <2>2
<1>10. rbuf' \in [Ends -> UnitSeqs] /\ pipe' \in [Ends -> Pipes]
  BY <1>1, <1>3, <1>8, <1>9
<1>11. ASSUME setting.link = "socket" PROVE Size(d)' <= SocketCap /\ Len(pipe'[d]) <= 1
  <2>1. Size(d) <= SocketCap /\ Len(pipe[d]) <= 1 /\ Size(d) = Len(c)
    BY <1>0, <1>2, <1>4, <1>11 DEF StreamTypes, Size
  <2>2. Len(pipe'[d]) <= 1
    <3>1. Len(pipe'[d]) \in Nat
      BY <1>7, <1>9 DEF Pipes
    <3>2. QED BY <1>4, <1>7, <1>9, <2>1, <3>1
  <2>3. Size(d)' = 0 \/ Size(d)' = Len(c) - n
    BY <1>6, <1>7, <1>9, <2>1 DEF Size
  <2>4. QED BY <1>4, <1>5, <2>1, <2>2, <2>3, ConnectionAssumption
<1>12. Size(e)' = Size(e)
  BY <1>7 DEF Size
<1>13. \A x \in Ends : setting.link = "socket" => Size(x)' <= SocketCap /\ Len(pipe'[x]) <= 1
  BY <1>0, <1>7, <1>11, <1>12 DEF StreamTypes
<1>14. StreamTypes'
  BY <1>10, <1>13 DEF StreamTypes
<1>15. ASSUME FlowOf(d) PROVE FlowOf(d)'
  <2>1. PICK len \in Lengths, q \in FrameSeqs, k \in Nat, p \in Pipes, rb \in UnitSeqs, wr \in Nat :
            /\ len = Lens /\ q = queued[d] /\ k = Len(received[d])
            /\ p = pipe[d] /\ rb = rbuf[e] /\ wr = written[d]
    BY <1>1, LensType
  <2>2. Flow(len, q, k, rb, p, wbuf[d], wr)
    BY <1>0, <1>15, <2>1 DEF FlowOf
  <2>3. p # << >> /\ n \in 1 .. Len(Head(p)) /\ Head(p) = c
    BY <1>2, <2>1 DEF c
  <2>4. Flow(len, q, k, rb \o Front(Head(p), n), LeftOver(p, n), wbuf[d], wr)
    BY <2>2, <2>3, FlowReads
  <2>5. Lens' = len
    BY <2>1, LensStay
  <2>6. QED BY <1>0, <1>7, <2>1, <2>3, <2>4, <2>5 DEF FlowOf
<1>16. FlowOf(e)' <=> FlowOf(e)
  BY <1>0, <1>7, FlowKept DEF d
<1>17. QED BY <1>7, <1>14, <1>15, <1>16 DEF d

-----------------------------------------------------------------------------
\* The steps

LEMMA BothEnds ==
    /\ "client" \in Ends /\ "server" \in Ends /\ "client" # "server"
    /\ Peer("client") = "server" /\ Peer("server") = "client"
    /\ \A e \in Ends : e = "client" \/ e = "server"
BY DEF Ends, Peer

\* A step that leaves the stream alone.
LEMMA NoTraffic ==
    ASSUME StreamTypes, UNCHANGED <<setting, ends>>, UNCHANGED <<queued, received>>
    PROVE  /\ StreamTypes' /\ (FlowOf("server")' <=> FlowOf("server")) /\ (FlowOf("client")' <=> FlowOf("client"))
           /\ Decoded(rbuf["server"])' = Decoded(rbuf["server"])
<1>1. /\ setting' = setting /\ wbuf' = wbuf /\ written' = written /\ pipe' = pipe /\ rbuf' = rbuf
      /\ queued' = queued /\ received' = received
  BY DEF ends
<1>2. \A e \in Ends : Size(e)' = Size(e)
  BY <1>1 DEF Size
<1>3. StreamTypes'
  BY <1>1, <1>2 DEF StreamTypes
<1>4. (FlowOf("server")' <=> FlowOf("server")) /\ (FlowOf("client")' <=> FlowOf("client"))
  BY <1>1, BothEnds, FlowKept
<1>5. Decoded(rbuf["server"])' = Decoded(rbuf["server"])
  BY <1>1, BothEnds, DecodedStays
<1>6. QED BY <1>3, <1>4, <1>5

\* A new connection has nothing queued, buffered or under way in either direction.
THEOREM InitConnInv == Init => ConnInv
<1> SUFFICES ASSUME Init PROVE ConnInv
  OBVIOUS
<1>1. /\ setting \in Settings
      /\ task = [t \in Tasks |-> "idle"] /\ lock = Nobody /\ pending = {} /\ mail = {}
      /\ session = "loop" /\ closed = "no" /\ torn = "no"
      /\ wbuf = [e \in Ends |-> <<>>] /\ written = [e \in Ends |-> 0]
      /\ pipe = [e \in Ends |-> <<>>] /\ rbuf = [e \in Ends |-> <<>>]
      /\ queued = [e \in Ends |-> <<>>] /\ received = [e \in Ends |-> <<>>]
  BY DEF Init
<1>2. << >> \in UnitSeqs /\ << >> \in Pipes /\ << >> \in FrameSeqs /\ << >> \in Seq(Frames \cup Garbage)
  BY DEF UnitSeqs, Pipes, FrameSeqs
<1>3. \A e \in Ends : Size(e) = 0 /\ Len(pipe[e]) = 0
  BY <1>1 DEF Size
<1>4. StreamTypes
  <2>1. wbuf \in [Ends -> UnitSeqs] /\ rbuf \in [Ends -> UnitSeqs] /\ pipe \in [Ends -> Pipes]
    BY <1>1, <1>2
  <2>2. queued \in [Ends -> FrameSeqs] /\ received \in [Ends -> Seq(Frames \cup Garbage)] /\ written \in [Ends -> Nat]
    BY <1>1, <1>2
  <2>3. \A e \in Ends : written[e] = 0
    BY <1>1
  <2>4. QED BY <1>1, <1>3, <2>1, <2>2, <2>3, ConnectionAssumption DEF StreamTypes
<1>5. ControlTypes
  BY <1>1, ConnectionAssumption DEF ControlTypes, Places, Over
<1>6. ControlInv
  BY <1>1, BothEnds DEF ControlInv
<1>7. \A e \in Ends : FlowOf(e)
  <2>1. ASSUME NEW e \in Ends PROVE FlowOf(e)
    <3>1. /\ queued[e] = << >> /\ Len(received[e]) = 0 /\ rbuf[Peer(e)] = << >> /\ pipe[e] = << >>
          /\ wbuf[e] = << >> /\ written[e] = 0
      BY <1>1, TwoEnds
    <3>2. QED BY <3>1, FlowStarts DEF FlowOf
  <2>2. QED BY <2>1
<1>8. QED BY <1>1, <1>4, <1>5, <1>6, <1>7, BothEnds DEF ConnInv, FlowInv

\* A step of the client that leaves the stream and the session alone, and lets nobody
\* call who has no request.
LEMMA QuietClient ==
    ASSUME ConnInv, UNCHANGED <<setting, ends>>, UNCHANGED <<queued, received>>,
           session' = session, torn' = torn, ControlTypes',
           lock' = Nobody => written["client"] = 0,
           closed = "yes" => closed' = "yes",
           closed' = "yes" => \A t \in Tasks : task'[t] \in Over,
           \A t \in Tasks : task'[t] # "idle" => setting.request[t] > 0
    PROVE  ConnInv'
<1>1. /\ StreamTypes' /\ (FlowOf("server")' <=> FlowOf("server")) /\ (FlowOf("client")' <=> FlowOf("client"))
      /\ Decoded(rbuf["server"])' = Decoded(rbuf["server"])
  BY NoTraffic DEF ConnInv
<1>2. setting' = setting /\ written' = written /\ queued' = queued /\ (Oversize' <=> Oversize)
  BY LensStay DEF ends
<1>3. ControlInv'
  BY <1>1, <1>2 DEF ConnInv, ControlInv
<1>4. FlowInv'
  BY <1>1, <1>2 DEF ConnInv, FlowInv
<1>5. QED BY <1>1, <1>3, <1>4 DEF ConnInv

\* A step of the session that leaves the stream and the client alone.
LEMMA QuietSession ==
    ASSUME ConnInv, UNCHANGED <<setting, ends>>, UNCHANGED <<queued, received>>,
           UNCHANGED <<task, lock, pending, mail, closed, torn>>,
           session' \in {"loop", "flush", "wait"} \cup Ended,
           session' = "closed" => closed = "yes",
           session' \in {"flush", "wait"} => Decoded(rbuf["server"]) = "more",
           session = "failed" => session' = "failed",
           torn = "no" /\ ~ Oversize => session' # "failed"
    PROVE  ConnInv'
<1>1. /\ StreamTypes' /\ (FlowOf("server")' <=> FlowOf("server")) /\ (FlowOf("client")' <=> FlowOf("client"))
      /\ Decoded(rbuf["server"])' = Decoded(rbuf["server"])
  BY NoTraffic DEF ConnInv
<1>2. setting' = setting /\ written' = written /\ queued' = queued /\ (Oversize' <=> Oversize)
  BY LensStay DEF ends
<1>3. ControlTypes'
  BY DEF ConnInv, ControlTypes
<1>4. ControlInv'
  BY <1>1, <1>2 DEF ConnInv, ControlInv
<1>5. FlowInv'
  BY <1>1, <1>2 DEF ConnInv, FlowInv
<1>6. QED BY <1>1, <1>3, <1>4, <1>5 DEF ConnInv

-----------------------------------------------------------------------------
\* The session's steps

LEMMA HandleKeeps == ConnInv /\ Handle => ConnInv'
<1> SUFFICES ASSUME ConnInv, Handle PROVE ConnInv'
  OBVIOUS
<1> DEFINE f == FrameOf(rbuf["server"])
           a == Frame("answer", f.task)
<1>1. /\ StreamTypes /\ ControlTypes /\ ControlInv /\ FlowInv
  BY DEF ConnInv
<1>2. /\ session = "loop" /\ TakeFrame("server")
      /\ UNCHANGED <<setting, task, lock, pending, mail, closed, written, pipe, pushes, torn>>
      /\ f.kind = "request" => /\ QueueFrame("server", a) /\ session' = session
      /\ f.kind # "request" => session' = "failed" /\ UNCHANGED <<wbuf, queued>>
  BY DEF Handle, QueueFrame
<1>3. /\ rbuf' \in [Ends -> UnitSeqs] /\ received' \in [Ends -> Seq(Frames \cup Garbage)]
      /\ f.kind = "request" => f.task \in Tasks
      /\ rbuf'["client"] = rbuf["client"] /\ received'["server"] = received["server"]
      /\ FlowOf("client") =>
             /\ Len(received["client"]) + 1 \in 1 .. Len(queued["client"])
             /\ f = queued["client"][Len(received["client"]) + 1]
             /\ /\ queued'["client"] = queued["client"] /\ pipe'["client"] = pipe["client"]
                /\ wbuf'["client"] = wbuf["client"] /\ written'["client"] = written["client"]
                => FlowOf("client")'
  BY <1>1, <1>2, BothEnds, TakeFrameEffect
<1> HIDE DEF f
<1>4. /\ wbuf' \in [Ends -> UnitSeqs] /\ queued' \in [Ends -> FrameSeqs]
      /\ \A d \in Ends : Len(wbuf[d]) <= Len(wbuf'[d]) /\ Len(wbuf[d]) \in Nat /\ Len(wbuf'[d]) \in Nat
      /\ wbuf'["client"] = wbuf["client"] /\ queued'["client"] = queued["client"]
      /\ FlowOf("server")'
  <2>1. CASE f.kind = "request"
    <3>1. a \in Frames /\ Lens[a] > 0 /\ QueueFrame("server", a)
      BY <1>1, <1>2, <1>3, <2>1, FrameKinds, LensType DEF StreamTypes
    <3> HIDE DEF a
    <3>2. FlowOf("server")
      BY <1>1 DEF FlowInv
    <3>3. QED BY <1>1, <1>2, <1>3, <3>1, <3>2, BothEnds, QueueEffect
  <2>2. CASE f.kind # "request"
    <3>1. wbuf' = wbuf /\ queued' = queued
      BY <1>2, <2>2
    <3>2. wbuf \in [Ends -> UnitSeqs] /\ queued \in [Ends -> FrameSeqs]
      BY <1>1 DEF StreamTypes
    <3>3. \A d \in Ends : Len(wbuf[d]) \in Nat
      <4>1. \A b \in UnitSeqs : Len(b) \in Nat
        BY DEF UnitSeqs
      <4>2. QED BY <3>2, <4>1
    <3>4. FlowOf("server")' <=> FlowOf("server")
      BY <1>2, <1>3, <3>1, BothEnds, FlowKept
    <3>5. QED BY <1>1, <3>1, <3>2, <3>3, <3>4 DEF FlowInv
  <2>3. QED BY <2>1, <2>2
<1>5. StreamTypes'
  <2>1. \A e \in Ends : written[e] < Len(wbuf'[e]) \/ written[e] = 0
    <3>1. ASSUME NEW e \in Ends PROVE written[e] < Len(wbuf'[e]) \/ written[e] = 0
      <4>1. written[e] \in Nat /\ (written[e] < Len(wbuf[e]) \/ written[e] = 0)
        BY <1>1 DEF StreamTypes
      <4>2. QED BY <1>4, <4>1
    <3>2. QED BY <3>1
  <2>2. \A e \in Ends : Size(e)' = Size(e)
    BY <1>2 DEF Size
  <2>3. QED BY <1>1, <1>2, <1>3, <1>4, <2>1, <2>2 DEF StreamTypes
<1>6. ControlTypes'
  <2>1. session' \in {"loop", "flush", "wait"} \cup Ended
    BY <1>2 DEF Ended
  <2>2. QED BY <1>1, <1>2, <2>1 DEF ControlTypes
<1>7. torn = "no" => f.kind = "request" /\ FlowOf("client")'
  <2>1. torn = "no" => FlowOf("client")
    BY <1>1, <1>2 DEF FlowInv
  <2>2. FlowOf("client") => f.kind = "request"
    BY <1>1, <1>3 DEF ControlInv
  <2>3. FlowOf("client") => FlowOf("client")'
    BY <1>2, <1>3, <1>4
  <2>4. QED BY <2>1, <2>2, <2>3
<1>8. ControlInv'
  BY <1>1, <1>2, <1>4 DEF ControlInv
<1>9. FlowInv'
  BY <1>2, <1>4, <1>7 DEF FlowInv
<1>10. QED BY <1>5, <1>6, <1>8, <1>9 DEF ConnInv

LEMMA HandleErrorKeeps == ConnInv /\ HandleError => ConnInv'
<1> SUFFICES ASSUME ConnInv, HandleError PROVE ConnInv'
  OBVIOUS
<1>1. /\ session = "loop" /\ Decoded(rbuf["server"]) = "error" /\ session' = "failed"
      /\ UNCHANGED <<setting, task, lock, pending, mail, closed, ends, queued, received, torn>>
  BY DEF HandleError, history
<1>2. ~ (torn = "no" /\ ~ Oversize)
  <2>1. torn = "no" => FlowOf("client")
    BY <1>1 DEF ConnInv, FlowInv
  <2>2. FlowOf("client") => Oversize
    BY <1>1, BothEnds, SoundDecodes DEF ConnInv
  <2>3. QED BY <2>1, <2>2
<1>3. QED BY <1>1, <1>2, QuietSession DEF Ended

LEMMA RunDryKeeps == ConnInv /\ RunDry => ConnInv'
<1> SUFFICES ASSUME ConnInv, RunDry PROVE ConnInv'
  OBVIOUS
<1>1. /\ session = "loop" /\ Decoded(rbuf["server"]) = "more" /\ session' \in {"wait", "flush"}
      /\ UNCHANGED <<setting, task, lock, pending, mail, closed, ends, queued, received, torn>>
  BY DEF RunDry, history
<1>2. QED BY <1>1, QuietSession

LEMMA ReadEndKeeps == ConnInv /\ ReadEnd => ConnInv'
<1> SUFFICES ASSUME ConnInv, ReadEnd PROVE ConnInv'
  OBVIOUS
<1>1. /\ session = "wait" /\ pipe["client"] = <<>> /\ closed = "yes"
      /\ session' = IF rbuf["server"] = <<>> THEN "closed" ELSE "failed"
      /\ UNCHANGED <<setting, task, lock, pending, mail, closed, ends, queued, received, torn>>
  BY DEF ReadEnd, history
<1>2. ASSUME torn = "no" PROVE session' # "failed"
  <2>1. FlowOf("client")
    BY <1>1, <1>2 DEF ConnInv, FlowInv
  <2>2. Decoded(rbuf["server"]) = "more"
    BY <1>1 DEF ConnInv, ControlInv
  <2>3. lock = Nobody
    <3>1. \A t \in Tasks : task[t] # "writing"
      BY <1>1 DEF ConnInv, ControlInv, Over
    <3>2. QED BY <3>1 DEF ConnInv, ControlTypes
  <2>4. written["client"] = 0
    BY <2>3 DEF ConnInv, ControlInv
  <2>5. rbuf["server"] = << >>
    BY <1>1, <2>1, <2>2, <2>4, BothEnds, SoundDecodes DEF ConnInv
  <2>6. QED BY <1>1, <2>5
<1>3. QED BY <1>1, <1>2, QuietSession DEF Ended

LEMMA FlushKeeps == ConnInv /\ Flush => ConnInv'
<1> SUFFICES ASSUME ConnInv, Flush PROVE ConnInv'
  OBVIOUS
<1>1. /\ session = "flush"
      /\ UNCHANGED <<setting, task, lock, pending, mail, closed, queued, received, torn>>
  BY DEF Flush, history
<1>2. CASE closed = "yes"
  <2>1. session' = "closed" /\ UNCHANGED ends
    BY <1>2 DEF Flush
  <2>2. QED BY <1>1, <1>2, <2>1, QuietSession DEF Ended
<1>3. CASE closed # "yes"
  <2>1. Write("server") /\ session' \in {"wait", "flush"} /\ rbuf' = rbuf
    BY <1>3 DEF Flush
  <2>2. /\ StreamTypes' /\ (FlowOf("server") => FlowOf("server")')
        /\ (FlowOf("client")' <=> FlowOf("client")) /\ written'["client"] = written["client"]
    BY <1>1, <2>1, BothEnds, WriteEffect DEF ConnInv
  <2>3. Decoded(rbuf["server"])' = Decoded(rbuf["server"]) /\ (Oversize' <=> Oversize)
    BY <1>1, <2>1, BothEnds, DecodedStays, LensStay
  <2>4. ControlTypes'
    BY <1>1, <2>1 DEF ConnInv, ControlTypes
  <2>5. ControlInv'
    BY <1>1, <2>1, <2>2, <2>3 DEF ConnInv, ControlInv
  <2>6. FlowInv'
    BY <1>1, <2>1, <2>2, <2>3 DEF ConnInv, FlowInv
  <2>7. QED BY <2>2, <2>4, <2>5, <2>6 DEF ConnInv
<1>4. QED BY <1>2, <1>3

LEMMA ReadRequestKeeps == ConnInv /\ ReadRequest => ConnInv'
<1> SUFFICES ASSUME ConnInv, ReadRequest PROVE ConnInv'
  OBVIOUS
<1>1. /\ session = "wait" /\ Take("server") /\ session' = "loop"
      /\ UNCHANGED <<setting, task, lock, pending, mail, closed, wbuf, written, queued, received, torn>>
  BY DEF ReadRequest, history
<1>2. /\ StreamTypes' /\ (FlowOf("client") => FlowOf("client")') /\ (FlowOf("server")' <=> FlowOf("server"))
  BY <1>1, BothEnds, TakeEffect DEF ConnInv
<1>3. ControlTypes'
  BY <1>1 DEF ConnInv, ControlTypes
<1>4. ControlInv'
  BY <1>1 DEF ConnInv, ControlInv
<1>5. FlowInv'
  BY <1>1, <1>2 DEF ConnInv, FlowInv
<1>6. QED BY <1>2, <1>3, <1>4, <1>5 DEF ConnInv

\* A frame is queued and nothing else happens to the stream.
LEMMA QueueOnly ==
    ASSUME StreamTypes, NEW e \in Ends, NEW f \in Frames, QueueFrame(e, f), Lens[f] > 0,
           UNCHANGED <<setting, written, pipe, rbuf, received>>
    PROVE  /\ StreamTypes' /\ (FlowOf(e) => FlowOf(e)') /\ (FlowOf(Peer(e))' <=> FlowOf(Peer(e)))
           /\ queued'[e] = Append(queued[e], f) /\ queued'[Peer(e)] = queued[Peer(e)]
           /\ Decoded(rbuf["server"])' = Decoded(rbuf["server"])
<1>1. /\ wbuf' \in [Ends -> UnitSeqs] /\ queued' \in [Ends -> FrameSeqs]
      /\ \A d \in Ends : Len(wbuf[d]) <= Len(wbuf'[d]) /\ Len(wbuf[d]) \in Nat /\ Len(wbuf'[d]) \in Nat
      /\ queued'[e] = Append(queued[e], f)
      /\ \A d \in Ends : d # e => wbuf'[d] = wbuf[d] /\ queued'[d] = queued[d]
      /\ FlowOf(e) => FlowOf(e)'
  BY QueueEffect
<1>2. \A d \in Ends : written[d] < Len(wbuf'[d]) \/ written[d] = 0
  <2>1. ASSUME NEW d \in Ends PROVE written[d] < Len(wbuf'[d]) \/ written[d] = 0
    <3>1. written[d] \in Nat /\ (written[d] < Len(wbuf[d]) \/ written[d] = 0)
      BY DEF StreamTypes
    <3>2. QED BY <1>1, <3>1
  <2>2. QED BY <2>1
<1>3. \A d \in Ends : Size(d)' = Size(d)
  BY DEF Size
<1>4. StreamTypes'
  BY <1>1, <1>2, <1>3 DEF StreamTypes
<1>5. FlowOf(Peer(e))' <=> FlowOf(Peer(e))
  <2>1. Peer(e) \in Ends /\ Peer(e) # e
    BY TwoEnds
  <2>2. QED BY <1>1, <2>1, FlowKept
<1>6. Decoded(rbuf["server"])' = Decoded(rbuf["server"])
  BY BothEnds, DecodedStays
<1>7. QED BY <1>1, <1>4, <1>5, <1>6, TwoEnds

LEMMA PushKeeps == ConnInv /\ Push => ConnInv'
<1> SUFFICES ASSUME ConnInv, Push PROVE ConnInv'
  OBVIOUS
<1>1. /\ session = "wait" /\ QueueFrame("server", Frame("push", Nobody)) /\ session' = "flush"
      /\ UNCHANGED <<setting, task, lock, pending, mail, closed, written, pipe, rbuf, received, torn>>
  BY DEF Push
<1>2. /\ StreamTypes' /\ (FlowOf("server") => FlowOf("server")') /\ (FlowOf("client")' <=> FlowOf("client"))
      /\ queued'["client"] = queued["client"] /\ Decoded(rbuf["server"])' = Decoded(rbuf["server"])
  <2>1. Frame("push", Nobody) \in Frames /\ Lens[Frame("push", Nobody)] > 0
    BY FrameKinds, LensType DEF ConnInv, StreamTypes
  <2>2. QED BY <1>1, <2>1, BothEnds, QueueOnly DEF ConnInv
<1>3. Oversize' <=> Oversize
  BY <1>1, LensStay
<1>4. ControlTypes'
  BY <1>1 DEF ConnInv, ControlTypes
<1>5. ControlInv'
  BY <1>1, <1>2 DEF ConnInv, ControlInv
<1>6. FlowInv'
  BY <1>1, <1>2, <1>3 DEF ConnInv, FlowInv
<1>7. QED BY <1>2, <1>4, <1>5, <1>6 DEF ConnInv

-----------------------------------------------------------------------------
\* The client's steps

\* A call moves to another place.
LEMMA Moves ==
    ASSUME ControlTypes, NEW t \in Tasks, NEW l \in Places, Goto(t, l)
    PROVE  /\ task' \in [Tasks -> Places] /\ task'[t] = l
           /\ \A x \in Tasks : x # t => task'[x] = task[x]
BY DEF ControlTypes, Goto

LEMMA RegisterKeeps == ASSUME NEW t \in Tasks, ConnInv, Register(t) PROVE ConnInv'
<1>1. /\ task[t] = "idle" /\ setting.request[t] > 0 /\ closed = "no" /\ Goto(t, "registered")
      /\ pending' = pending \cup {t}
      /\ UNCHANGED <<setting, lock, mail, session, closed, ends, queued, received, torn>>
  BY DEF Register, history
<1>2. task' \in [Tasks -> Places] /\ task'[t] = "registered" /\ \A x \in Tasks : x # t => task'[x] = task[x]
  BY <1>1, Moves DEF ConnInv, Places
<1>3. ControlTypes'
  BY <1>1, <1>2 DEF ConnInv, ControlTypes
<1>4. QED BY <1>1, <1>2, <1>3, QuietClient DEF ConnInv, ControlInv

LEMMA ChoosePathKeeps == ASSUME NEW t \in Tasks, ConnInv, ChoosePath(t) PROVE ConnInv'
<1>1. /\ task[t] = "registered" /\ \E l \in {"direct", "contended"} : Goto(t, l)
      /\ UNCHANGED <<setting, lock, pending, mail, session, closed, ends, queued, received, torn>>
  BY DEF ChoosePath, history
<1>2. /\ task' \in [Tasks -> Places] /\ task'[t] \in {"direct", "contended"}
      /\ \A x \in Tasks : x # t => task'[x] = task[x]
  BY <1>1, Moves DEF ConnInv, Places
<1>3. ControlTypes'
  BY <1>1, <1>2 DEF ConnInv, ControlTypes
<1>4. closed # "yes"
  BY <1>1 DEF ConnInv, ControlInv, Over
<1>5. QED BY <1>1, <1>2, <1>3, <1>4, QuietClient DEF ConnInv, ControlInv

\* What a call puts into the write buffer is a request.
LEMMA RequestQueued ==
    ASSUME ConnInv, NEW t \in Tasks, setting.request[t] > 0, QueueFrame("client", Frame("request", t)),
           UNCHANGED <<setting, session, torn, written, pipe, rbuf, received>>
    PROVE  /\ StreamTypes' /\ FlowInv' /\ Decoded(rbuf["server"])' = Decoded(rbuf["server"])
           /\ \A i \in 1 .. Len(queued'["client"]) : queued'["client"][i].kind = "request"
<1> DEFINE f == Frame("request", t)
<1>1. f \in Frames /\ Lens[f] > 0 /\ f.kind = "request"
  BY FrameKinds, LensType DEF ConnInv, StreamTypes
<1> HIDE DEF f
<1>2. QueueFrame("client", f)
  BY DEF f
<1>3. /\ StreamTypes' /\ (FlowOf("client") => FlowOf("client")') /\ (FlowOf("server")' <=> FlowOf("server"))
      /\ queued'["client"] = Append(queued["client"], f)
      /\ Decoded(rbuf["server"])' = Decoded(rbuf["server"])
  BY <1>1, <1>2, BothEnds, QueueOnly DEF ConnInv
<1>4. FlowInv'
  <2>1. Oversize' <=> Oversize
    BY LensStay
  <2>2. QED BY <1>3, <2>1 DEF ConnInv, FlowInv
<1>5. ASSUME NEW i \in 1 .. Len(queued'["client"]) PROVE queued'["client"][i].kind = "request"
  <2>1. PICK q \in Seq(Frames) : q = queued["client"]
    BY BothEnds DEF ConnInv, StreamTypes, FrameSeqs
  <2>2. \A k \in 1 .. Len(q) : q[k].kind = "request"
    BY <2>1 DEF ConnInv, ControlInv
  <2>3. /\ Len(Append(q, f)) = Len(q) + 1 /\ Len(q) \in Nat /\ Append(q, f)[Len(q) + 1] = f
        /\ \A k \in 1 .. Len(q) : Append(q, f)[k] = q[k]
    BY <1>1, Appended
  <2>4. i \in 1 .. Len(q) \/ i = Len(q) + 1
    BY <1>3, <2>1, <2>3
  <2>5. Append(q, f)[i].kind = "request"
    BY <1>1, <2>2, <2>3, <2>4
  <2>6. QED BY <1>3, <2>1, <2>5
<1>6. QED BY <1>3, <1>4, <1>5

LEMMA EnqueueKeeps == ASSUME NEW t \in Tasks, ConnInv, Enqueue(t) PROVE ConnInv'
<1>1. /\ task[t] = "contended" /\ lock = Nobody
      /\ QueueFrame("client", Frame("request", t)) /\ Goto(t, "yielded")
      /\ UNCHANGED <<setting, lock, pending, mail, session, closed, written, pipe, rbuf, received, torn>>
  BY DEF Enqueue
<1>2. task' \in [Tasks -> Places] /\ task'[t] = "yielded" /\ \A x \in Tasks : x # t => task'[x] = task[x]
  BY <1>1, Moves DEF ConnInv, Places
<1>3. setting.request[t] > 0 /\ closed # "yes"
  BY <1>1 DEF ConnInv, ControlInv, Over
<1>4. /\ StreamTypes' /\ FlowInv' /\ Decoded(rbuf["server"])' = Decoded(rbuf["server"])
      /\ \A i \in 1 .. Len(queued'["client"]) : queued'["client"][i].kind = "request"
  BY <1>1, <1>3, RequestQueued
<1>5. ControlTypes'
  BY <1>1, <1>2 DEF ConnInv, ControlTypes
<1>6. ControlInv'
  BY <1>1, <1>2, <1>3, <1>4 DEF ConnInv, ControlInv
<1>7. QED BY <1>4, <1>5, <1>6 DEF ConnInv

LEMMA StartSendKeeps == ASSUME NEW t \in Tasks, ConnInv, StartSend(t) PROVE ConnInv'
<1>1. /\ task[t] = "direct" /\ lock = Nobody
      /\ QueueFrame("client", Frame("request", t)) /\ lock' = t /\ Goto(t, "writing")
      /\ UNCHANGED <<setting, pending, mail, session, closed, written, pipe, rbuf, received, torn>>
  BY DEF StartSend
<1>2. task' \in [Tasks -> Places] /\ task'[t] = "writing" /\ \A x \in Tasks : x # t => task'[x] = task[x]
  BY <1>1, Moves DEF ConnInv, Places
<1>3. setting.request[t] > 0 /\ closed # "yes"
  BY <1>1 DEF ConnInv, ControlInv, Over
<1>4. /\ StreamTypes' /\ FlowInv' /\ Decoded(rbuf["server"])' = Decoded(rbuf["server"])
      /\ \A i \in 1 .. Len(queued'["client"]) : queued'["client"][i].kind = "request"
  BY <1>1, <1>3, RequestQueued
<1>5. ControlTypes'
  BY <1>1, <1>2, ConnectionAssumption DEF ConnInv, ControlTypes
<1>6. ControlInv'
  BY <1>1, <1>2, <1>3, <1>4, ConnectionAssumption DEF ConnInv, ControlInv
<1>7. QED BY <1>4, <1>5, <1>6 DEF ConnInv

LEMMA StartFlushKeeps == ASSUME NEW t \in Tasks, ConnInv, StartFlush(t) PROVE ConnInv'
<1>1. /\ task[t] = "yielded" /\ lock = Nobody
      /\ \/ Goto(t, "waiting") /\ lock' = lock
         \/ Goto(t, "writing") /\ lock' = t
      /\ UNCHANGED <<setting, pending, mail, session, closed, ends, queued, received, torn>>
  BY DEF StartFlush, history
<1>2. closed # "yes" /\ written["client"] = 0
  BY <1>1 DEF ConnInv, ControlInv, Over
<1>3. CASE Goto(t, "waiting") /\ lock' = lock
  <2>1. task' \in [Tasks -> Places] /\ task'[t] = "waiting" /\ \A x \in Tasks : x # t => task'[x] = task[x]
    BY <1>3, Moves DEF ConnInv, Places
  <2>2. ControlTypes'
    BY <1>1, <1>3, <2>1 DEF ConnInv, ControlTypes
  <2>3. QED BY <1>1, <1>2, <2>1, <2>2, QuietClient DEF ConnInv, ControlInv
<1>4. CASE Goto(t, "writing") /\ lock' = t
  <2>1. task' \in [Tasks -> Places] /\ task'[t] = "writing" /\ \A x \in Tasks : x # t => task'[x] = task[x]
    BY <1>4, Moves DEF ConnInv, Places
  <2>2. ControlTypes'
    BY <1>1, <1>4, <2>1, ConnectionAssumption DEF ConnInv, ControlTypes
  <2>3. QED BY <1>1, <1>2, <2>1, <2>2, QuietClient DEF ConnInv, ControlInv
<1>5. QED BY <1>1, <1>3, <1>4

LEMMA ReceiveMailKeeps == ASSUME NEW t \in Tasks, ConnInv, ReceiveMail(t) PROVE ConnInv'
<1>1. /\ task[t] = "waiting" /\ Goto(t, "done") /\ mail' = mail \ {t}
      /\ UNCHANGED <<setting, lock, pending, session, closed, ends, queued, received, torn>>
  BY DEF ReceiveMail, history
<1>2. task' \in [Tasks -> Places] /\ task'[t] = "done" /\ \A x \in Tasks : x # t => task'[x] = task[x]
  BY <1>1, Moves DEF ConnInv, Places, Over
<1>3. ControlTypes'
  BY <1>1, <1>2 DEF ConnInv, ControlTypes
<1>4. QED BY <1>1, <1>2, <1>3, QuietClient DEF ConnInv, ControlInv, Over

LEMMA ReadFailsKeeps == ASSUME NEW t \in Tasks, ConnInv, ReadFails(t) PROVE ConnInv'
<1>1. /\ task[t] = "waiting" /\ Goto(t, "done")
      /\ UNCHANGED <<setting, lock, pending, mail, session, closed, ends, queued, received, torn>>
  BY DEF ReadFails, Waiting, history
<1>2. task' \in [Tasks -> Places] /\ task'[t] = "done" /\ \A x \in Tasks : x # t => task'[x] = task[x]
  BY <1>1, Moves DEF ConnInv, Places, Over
<1>3. ControlTypes'
  BY <1>1, <1>2 DEF ConnInv, ControlTypes
<1>4. QED BY <1>1, <1>2, <1>3, QuietClient DEF ConnInv, ControlInv, Over

LEMMA CloseKeeps == ConnInv /\ Close => ConnInv'
<1> SUFFICES ASSUME ConnInv, Close PROVE ConnInv'
  OBVIOUS
<1>1. /\ \A t \in Tasks : task[t] \in Over
      /\ closed' = "yes" /\ UNCHANGED <<setting, task, lock, pending, mail, session, ends, queued, received, torn>>
  BY DEF Close, history
<1>2. ControlTypes'
  BY <1>1 DEF ConnInv, ControlTypes
<1>3. QED BY <1>1, <1>2, QuietClient DEF ConnInv, ControlInv

\* A write is given up: what had gone out of it will go out again.
LEMMA WriteGivenUp ==
    ASSUME StreamTypes, UNCHANGED <<setting, wbuf, pipe, rbuf, queued, received>>,
           written' = [written EXCEPT !["client"] = 0]
    PROVE  /\ StreamTypes' /\ (FlowOf("server")' <=> FlowOf("server"))
           /\ written["client"] = 0 => (FlowOf("client")' <=> FlowOf("client"))
           /\ Decoded(rbuf["server"])' = Decoded(rbuf["server"]) /\ written'["client"] = 0
<1>1. /\ written' \in [Ends -> Nat] /\ written'["client"] = 0 /\ written'["server"] = written["server"]
  BY BothEnds DEF StreamTypes
<1>2. \A e \in Ends : Size(e)' = Size(e)
  BY DEF Size
<1>3. \A e \in Ends : written'[e] < Len(wbuf[e]) \/ written'[e] = 0
  BY <1>1, BothEnds DEF StreamTypes
<1>4. StreamTypes'
  BY <1>1, <1>2, <1>3 DEF StreamTypes
<1>5. FlowOf("server")' <=> FlowOf("server")
  BY <1>1, BothEnds, FlowKept
<1>6. written["client"] = 0 => (FlowOf("client")' <=> FlowOf("client"))
  BY <1>1, BothEnds, FlowKept
<1>7. Decoded(rbuf["server"])' = Decoded(rbuf["server"])
  BY BothEnds, DecodedStays
<1>8. QED BY <1>1, <1>4, <1>5, <1>6, <1>7

LEMMA WriteRequestKeeps == ASSUME NEW t \in Tasks, ConnInv, WriteRequest(t) PROVE ConnInv'
<1>1. /\ task[t] = "writing" /\ UNCHANGED <<setting, pending, mail, session, closed, queued, received, torn>>
  BY DEF WriteRequest, history
<1>2. closed # "yes" /\ lock = t /\ (Oversize' <=> Oversize)
  BY <1>1, LensStay DEF ConnInv, ControlInv, ControlTypes, Over
<1>3. CASE session \in Ended
  <2>1. /\ Goto(t, "done") /\ lock' = Nobody /\ written' = [written EXCEPT !["client"] = 0]
        /\ UNCHANGED <<wbuf, pipe, rbuf>>
    BY <1>3 DEF WriteRequest
  <2>2. session = "failed"
    BY <1>2, <1>3 DEF ConnInv, ControlInv, Ended
  <2>3. task' \in [Tasks -> Places] /\ task'[t] = "done" /\ \A x \in Tasks : x # t => task'[x] = task[x]
    BY <2>1, Moves DEF ConnInv, Places, Over
  <2>4. /\ StreamTypes' /\ (FlowOf("server")' <=> FlowOf("server"))
        /\ Decoded(rbuf["server"])' = Decoded(rbuf["server"]) /\ written'["client"] = 0
    BY <1>1, <2>1, WriteGivenUp DEF ConnInv
  <2>5. ControlTypes'
    BY <1>1, <1>2, <2>1, <2>3, ConnectionAssumption DEF ConnInv, ControlTypes
  <2>6. ControlInv'
    BY <1>1, <1>2, <2>1, <2>3, <2>4 DEF ConnInv, ControlInv
  <2>7. FlowInv'
    BY <1>1, <1>2, <2>2, <2>4 DEF ConnInv, FlowInv
  <2>8. QED BY <2>4, <2>5, <2>6, <2>7 DEF ConnInv
<1>4. CASE session \notin Ended
  <2>1. /\ Write("client") /\ rbuf' = rbuf
        /\ \/ wbuf'["client"] = <<>> /\ Goto(t, "waiting") /\ lock' = Nobody
           \/ task' = task /\ lock' = lock
    BY <1>4 DEF WriteRequest
  <2>2. /\ StreamTypes' /\ (FlowOf("client") => FlowOf("client")')
        /\ (FlowOf("server")' <=> FlowOf("server"))
        /\ wbuf'["client"] = << >> => written'["client"] = 0
    BY <1>1, <2>1, BothEnds, WriteEffect DEF ConnInv
  <2>3. Decoded(rbuf["server"])' = Decoded(rbuf["server"])
    BY <1>1, <2>1, BothEnds, DecodedStays
  <2>4. FlowInv'
    BY <1>1, <1>2, <2>2 DEF ConnInv, FlowInv
  <2>5. CASE wbuf'["client"] = <<>> /\ Goto(t, "waiting") /\ lock' = Nobody
    <3>1. task' \in [Tasks -> Places] /\ task'[t] = "waiting" /\ \A x \in Tasks : x # t => task'[x] = task[x]
      BY <2>5, Moves DEF ConnInv, Places
    <3>2. ControlTypes'
      BY <1>1, <1>2, <2>5, <3>1, ConnectionAssumption DEF ConnInv, ControlTypes
    <3>3. ControlInv'
      BY <1>1, <1>2, <2>2, <2>3, <2>5, <3>1 DEF ConnInv, ControlInv
    <3>4. QED BY <2>2, <2>4, <3>2, <3>3 DEF ConnInv
  <2>6. CASE task' = task /\ lock' = lock
    <3>1. ControlTypes'
      BY <1>1, <2>6 DEF ConnInv, ControlTypes
    <3>2. lock' # Nobody
      BY <1>2, <2>6, ConnectionAssumption
    <3>3. ControlInv'
      BY <1>1, <1>2, <2>3, <2>6, <3>2 DEF ConnInv, ControlInv
    <3>4. QED BY <2>2, <2>4, <3>1, <3>3 DEF ConnInv
  <2>7. QED BY <2>1, <2>5, <2>6
<1>5. QED BY <1>3, <1>4

LEMMA ReadAnswerKeeps == ConnInv /\ ReadAnswer => ConnInv'
<1> SUFFICES ASSUME ConnInv, ReadAnswer PROVE ConnInv'
  OBVIOUS
<1>1. /\ Take("client")
      /\ UNCHANGED <<setting, task, lock, pending, mail, session, closed, wbuf, written, queued, received, torn>>
  BY DEF ReadAnswer, history
<1>2. /\ StreamTypes' /\ (FlowOf("server") => FlowOf("server")') /\ (FlowOf("client")' <=> FlowOf("client"))
      /\ rbuf'["server"] = rbuf["server"]
  BY <1>1, BothEnds, TakeEffect DEF ConnInv
<1>3. Decoded(rbuf["server"])' = Decoded(rbuf["server"]) /\ (Oversize' <=> Oversize)
  BY <1>1, <1>2, BothEnds, DecodedStays, LensStay
<1>4. ControlTypes'
  BY <1>1 DEF ConnInv, ControlTypes
<1>5. ControlInv'
  BY <1>1, <1>3 DEF ConnInv, ControlInv
<1>6. FlowInv'
  BY <1>1, <1>2, <1>3 DEF ConnInv, FlowInv
<1>7. QED BY <1>2, <1>4, <1>5, <1>6 DEF ConnInv

LEMMA DeliverKeeps == ConnInv /\ Deliver => ConnInv'
<1> SUFFICES ASSUME ConnInv, Deliver PROVE ConnInv'
  OBVIOUS
<1>1. /\ TakeFrame("client") /\ pending' \cup mail' \subseteq pending \cup mail
      /\ UNCHANGED <<setting, task, lock, session, closed, wbuf, written, pipe, queued, torn>>
  BY DEF Deliver
<1>2. /\ rbuf' \in [Ends -> UnitSeqs] /\ received' \in [Ends -> Seq(Frames \cup Garbage)]
      /\ rbuf'["server"] = rbuf["server"] /\ received'["client"] = received["client"]
      /\ FlowOf("server") => FlowOf("server")'
  BY <1>1, BothEnds, TakeFrameEffect DEF ConnInv
<1>3. Decoded(rbuf["server"])' = Decoded(rbuf["server"]) /\ (Oversize' <=> Oversize)
  BY <1>1, <1>2, BothEnds, DecodedStays, LensStay
<1>4. FlowOf("client")' <=> FlowOf("client")
  BY <1>1, <1>2, BothEnds, FlowKept
<1>5. StreamTypes'
  <2>1. \A e \in Ends : Size(e)' = Size(e)
    BY <1>1 DEF Size
  <2>2. QED BY <1>1, <1>2, <2>1 DEF ConnInv, StreamTypes
<1>6. ControlTypes'
  BY <1>1 DEF ConnInv, ControlTypes
<1>7. ControlInv'
  BY <1>1, <1>3 DEF ConnInv, ControlInv
<1>8. FlowInv'
  BY <1>1, <1>2, <1>3, <1>4 DEF ConnInv, FlowInv
<1>9. QED BY <1>5, <1>6, <1>7, <1>8 DEF ConnInv

LEMMA DropKeeps == ASSUME NEW t \in Tasks, ConnInv, Drop(t) PROVE ConnInv'
<1>1. /\ task[t] \notin Over /\ Goto(t, "dropped") /\ mail' = mail \ {t}
      /\ UNCHANGED <<setting, pending, session, closed, wbuf, pipe, rbuf, queued, received>>
  BY DEF Drop, Over
<1>2. task' \in [Tasks -> Places] /\ task'[t] = "dropped" /\ \A x \in Tasks : x # t => task'[x] = task[x]
  BY <1>1, Moves DEF ConnInv, Places, Over
<1>3. closed # "yes" /\ (Oversize' <=> Oversize) /\ task[t] # "idle"
  BY <1>1, LensStay DEF ConnInv, ControlInv, Over
<1>4. CASE lock = t
  <2>1. /\ lock' = Nobody /\ written' = [written EXCEPT !["client"] = 0]
        /\ torn' = IF written["client"] > 0 THEN "yes" ELSE torn
    BY <1>4 DEF Drop
  <2>2. /\ StreamTypes' /\ (FlowOf("server")' <=> FlowOf("server"))
        /\ written["client"] = 0 => (FlowOf("client")' <=> FlowOf("client"))
        /\ Decoded(rbuf["server"])' = Decoded(rbuf["server"]) /\ written'["client"] = 0
    BY <1>1, <2>1, WriteGivenUp DEF ConnInv
  <2>3. ControlTypes'
    BY <1>1, <1>2, <1>4, <2>1, ConnectionAssumption DEF ConnInv, ControlTypes
  <2>4. ControlInv'
    BY <1>1, <1>2, <1>3, <2>1, <2>2 DEF ConnInv, ControlInv
  <2>5. torn' = "no" => torn = "no" /\ written["client"] = 0
    <3>1. written["client"] \in Nat
      BY BothEnds DEF ConnInv, StreamTypes
    <3>2. QED BY <2>1, <3>1
  <2>6. FlowInv'
    BY <1>1, <1>3, <2>2, <2>5 DEF ConnInv, FlowInv
  <2>7. QED BY <2>2, <2>3, <2>4, <2>6 DEF ConnInv
<1>5. CASE lock # t
  <2>1. UNCHANGED <<lock, written, torn>>
    BY <1>5 DEF Drop
  <2>2. ControlTypes'
    BY <1>1, <1>2, <1>5, <2>1 DEF ConnInv, ControlTypes
  <2>3. UNCHANGED <<setting, ends>>
    BY <1>1, <2>1 DEF ends
  <2>4. lock' = Nobody => written["client"] = 0
    BY <2>1 DEF ConnInv, ControlInv
  <2>5. \A x \in Tasks : task'[x] # "idle" => setting.request[x] > 0
    BY <1>2, <1>3 DEF ConnInv, ControlInv
  <2>6. QED BY <1>1, <1>3, <2>1, <2>2, <2>3, <2>4, <2>5, QuietClient
<1>6. QED BY <1>4, <1>5

\* Every step keeps the two directions, and what the session and the calls owe them.
THEOREM NextConnInv == ConnInv /\ [Next]_vars => ConnInv'
<1> SUFFICES ASSUME ConnInv, [Next]_vars PROVE ConnInv'
  OBVIOUS
<1>1. CASE Session
  BY <1>1, HandleKeeps, HandleErrorKeeps, RunDryKeeps, FlushKeeps, ReadRequestKeeps, ReadEndKeeps DEF Session
<1>2. CASE Push \/ ReadAnswer \/ Deliver \/ Close
  BY <1>2, PushKeeps, ReadAnswerKeeps, DeliverKeeps, CloseKeeps
<1>3. ASSUME NEW t \in Tasks, Client(t) \/ Register(t) \/ Drop(t) PROVE ConnInv'
  BY <1>3, RegisterKeeps, DropKeeps, ChoosePathKeeps, EnqueueKeeps, StartSendKeeps, StartFlushKeeps,
     WriteRequestKeeps, ReceiveMailKeeps, ReadFailsKeeps DEF Client
<1>4. CASE UNCHANGED vars
  <2>1. /\ UNCHANGED <<setting, ends>> /\ UNCHANGED <<queued, received>>
        /\ UNCHANGED <<task, lock, pending, mail, closed, torn>> /\ session' = session
    BY <1>4 DEF vars, history
  <2>2. QED BY <2>1, QuietSession DEF ConnInv, ControlTypes, ControlInv, FlowInv
<1>5. QED BY <1>1, <1>2, <1>3, <1>4 DEF Next

\* So both directions stay sound, the client's until a write is torn or the session gives up
\* over a frame above the limit.
THEOREM ConnectionCorrect == Spec => []ConnInv
<1>1. QED BY InitConnInv, NextConnInv, PTL DEF Spec

-----------------------------------------------------------------------------
\* Neither end ever finds the stream in disorder, or ended within a frame, unless a
\* write was torn or a frame is over the limit, however writes and reads cut it
\* (FrameWriter::flush, FrameReader::next_frame, Frame::decode).
THEOREM StreamSoundAlways == Spec => []StreamStaysSound
<1>1. ConnInv => StreamStaysSound
  <2> SUFFICES ASSUME ConnInv PROVE StreamStaysSound
    OBVIOUS
  <2>1. TypeOK
    BY DEF ConnInv, ControlTypes, StreamTypes, TypeOK
  <2>2. torn = "no" /\ ~ Oversize => session # "failed"
    BY DEF ConnInv, FlowInv
  <2>3. ~ Oversize => Decoded(rbuf["client"]) # "error"
    BY BothEnds, SoundDecodes DEF ConnInv, FlowInv
  <2>4. QED BY <2>1, <2>2, <2>3 DEF StreamStaysSound
<1>2. QED BY <1>1, ConnectionCorrect, PTL

-----------------------------------------------------------------------------
\* The two directions as channels

LEMMA UpSteps == ConnInv /\ [Next]_vars => [Up!Next]_(Up!vars)
<1> SUFFICES ASSUME ConnInv, [Next]_vars PROVE Up!Next \/ UNCHANGED <<queued["client"], received["client"], torn>>
  BY DEF Up!vars
<1>1. CASE Handle
  <2> DEFINE f == FrameOf(rbuf["server"])
  <2>1. /\ session = "loop" /\ TakeFrame("server") /\ setting' = setting /\ torn' = torn
        /\ queued' = queued \/ QueueFrame("server", Frame("answer", f.task))
    BY <1>1 DEF Handle, QueueFrame
  <2>2. queued'["client"] = queued["client"]
    BY <2>1, BothEnds DEF QueueFrame, ConnInv, StreamTypes
  <2>3. /\ f \in Frames \cup Garbage /\ received'["client"] = Append(received["client"], f)
        /\ FlowOf("client") =>
               /\ Len(received["client"]) < Len(queued["client"])
               /\ f = queued["client"][Len(received["client"]) + 1]
    BY <2>1, BothEnds, TakeFrameEffect DEF ConnInv
  <2> HIDE DEF f
  <2>4. CASE torn = "no"
    <3>1. FlowOf("client")
      BY <2>1, <2>4 DEF ConnInv, FlowInv
    <3>2. QED BY <2>1, <2>2, <2>3, <3>1 DEF Up!Next, Up!Receive
  <2>5. CASE torn = "yes"
    BY <2>1, <2>2, <2>3, <2>5 DEF Up!Next, Up!ReceiveAnything
  <2>6. QED BY <2>4, <2>5 DEF ConnInv, ControlTypes
<1>2. CASE HandleError \/ RunDry \/ Flush \/ ReadRequest \/ ReadEnd \/ ReadAnswer \/ Close
  BY <1>2 DEF HandleError, RunDry, Flush, ReadRequest, ReadEnd, ReadAnswer, Close, history
<1>3. CASE Push
  BY <1>3, BothEnds DEF Push, QueueFrame, ConnInv, StreamTypes
<1>4. CASE Deliver
  <2>1. TakeFrame("client") /\ UNCHANGED <<setting, queued, torn>>
    BY <1>4 DEF Deliver
  <2>2. QED BY <2>1, BothEnds, TakeFrameEffect DEF ConnInv
<1>5. ASSUME NEW t \in Tasks, Enqueue(t) \/ StartSend(t) PROVE Up!Next
  <2>1. QueueFrame("client", Frame("request", t)) /\ UNCHANGED <<received, torn>>
    BY <1>5 DEF Enqueue, StartSend
  <2>2. queued'["client"] = Append(queued["client"], Frame("request", t))
    BY <2>1, BothEnds DEF QueueFrame, ConnInv, StreamTypes
  <2>3. QED BY <2>1, <2>2, FrameKinds DEF Up!Next, Up!Queue
<1>6. ASSUME NEW t \in Tasks, Drop(t)
      PROVE  Up!Next \/ UNCHANGED <<queued["client"], received["client"], torn>>
  <2>1. UNCHANGED <<queued, received>> /\ torn' \in {torn, "yes"}
    BY <1>6 DEF Drop
  <2>2. QED BY <2>1 DEF Up!Next, Up!Tear
<1>7. ASSUME NEW t \in Tasks,
             ChoosePath(t) \/ StartFlush(t) \/ WriteRequest(t) \/ ReceiveMail(t) \/ ReadFails(t) \/ Register(t)
      PROVE  UNCHANGED <<queued["client"], received["client"], torn>>
  BY <1>7 DEF ChoosePath, StartFlush, WriteRequest, ReceiveMail, ReadFails, Register, history
<1>8. CASE UNCHANGED vars
  BY <1>8 DEF vars, history
<1>9. QED BY <1>1, <1>2, <1>3, <1>4, <1>5, <1>6, <1>7, <1>8 DEF Next, Session, Client

LEMMA DownSteps == ConnInv /\ [Next]_vars => [Down!Next]_(Down!vars)
<1> SUFFICES ASSUME ConnInv, [Next]_vars PROVE Down!Next \/ UNCHANGED <<queued["server"], received["server"]>>
  BY DEF Down!vars
<1>1. CASE Handle
  <2> DEFINE f == FrameOf(rbuf["server"])
  <2>1. /\ TakeFrame("server") /\ setting' = setting
        /\ \/ queued' = queued
           \/ f.kind = "request" /\ QueueFrame("server", Frame("answer", f.task))
    BY <1>1 DEF Handle, QueueFrame
  <2>2. received'["server"] = received["server"] /\ (f.kind = "request" => f.task \in Tasks)
    BY <2>1, BothEnds, TakeFrameEffect DEF ConnInv
  <2> HIDE DEF f
  <2>3. CASE queued' = queued
    BY <2>2, <2>3
  <2>4. CASE f.kind = "request" /\ QueueFrame("server", Frame("answer", f.task))
    <3>1. queued'["server"] = Append(queued["server"], Frame("answer", f.task))
      BY <2>4, BothEnds DEF QueueFrame, ConnInv, StreamTypes
    <3>2. QED BY <2>2, <2>4, <3>1, FrameKinds DEF Down!Next, Down!Queue
  <2>5. QED BY <2>1, <2>3, <2>4
<1>2. CASE HandleError \/ RunDry \/ Flush \/ ReadRequest \/ ReadEnd \/ ReadAnswer \/ Close
  BY <1>2 DEF HandleError, RunDry, Flush, ReadRequest, ReadEnd, ReadAnswer, Close, history
<1>3. CASE Push
  <2>1. queued'["server"] = Append(queued["server"], Frame("push", Nobody)) /\ received' = received
    BY <1>3, BothEnds DEF Push, QueueFrame, ConnInv, StreamTypes
  <2>2. QED BY <2>1, FrameKinds DEF Down!Next, Down!Queue
<1>4. CASE Deliver
  <2>1. TakeFrame("client") /\ UNCHANGED <<setting, queued, torn>>
    BY <1>4 DEF Deliver
  <2>2. /\ received'["server"] = Append(received["server"], FrameOf(rbuf["client"]))
        /\ Len(received["server"]) < Len(queued["server"])
        /\ FrameOf(rbuf["client"]) = queued["server"][Len(received["server"]) + 1]
    BY <2>1, BothEnds, TakeFrameEffect DEF ConnInv, FlowInv
  <2>3. QED BY <2>1, <2>2 DEF Down!Next, Down!Receive
<1>5. ASSUME NEW t \in Tasks, Enqueue(t) \/ StartSend(t)
      PROVE  UNCHANGED <<queued["server"], received["server"]>>
  BY <1>5, BothEnds DEF Enqueue, StartSend, QueueFrame, ConnInv, StreamTypes
<1>6. ASSUME NEW t \in Tasks,
             \/ Drop(t) \/ ChoosePath(t) \/ StartFlush(t) \/ WriteRequest(t)
             \/ ReceiveMail(t) \/ ReadFails(t) \/ Register(t)
      PROVE  UNCHANGED <<queued["server"], received["server"]>>
  BY <1>6 DEF Drop, ChoosePath, StartFlush, WriteRequest, ReceiveMail, ReadFails, Register, history
<1>7. CASE UNCHANGED vars
  BY <1>7 DEF vars, history
<1>8. QED BY <1>1, <1>2, <1>3, <1>4, <1>5, <1>6, <1>7 DEF Next, Session, Client

\* Each direction is a channel of whole frames in order, over a socket and over the soft
\* bus alike, and only the client's may be torn (transport lib.rs:4, softbus.rs:12).
THEOREM ConnectionIsChannels == Spec => ImplementsFrameChannel
<1>1. Init => Up!Init /\ Down!Init
  BY BothEnds DEF Init, Up!Init, Down!Init
<1>2. ConnInv /\ [Next]_vars => [Up!Next]_(Up!vars) /\ [Down!Next]_(Down!vars)
  BY UpSteps, DownSteps
<1>3. QED BY <1>1, <1>2, ConnectionCorrect, PTL DEF Spec, ImplementsFrameChannel, Up!Spec, Down!Spec
=============================================================================

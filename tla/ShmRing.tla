------------------------------ MODULE ShmRing -------------------------------
(***************************************************************************)
(* The downlink shared-memory ring of a session (ohmcp-transport/src/      *)
(* shm.rs) with its two ends: the server's session task, the one producer  *)
(* (wrap_maybe_shm, ohmcpd/src/server.rs), and the client task that holds  *)
(* the reader lock, the one consumer (resolve_shm, ohmcp-client/src/       *)
(* lib.rs).                                                                *)
(*                                                                         *)
(* Both copies are made a byte at a time, so a write and a read of the     *)
(* same memory may interleave.  A step reads or writes the other end's     *)
(* cursor at most once.  The bytes of the n-th frame's payload are all n,  *)
(* so that a byte out of place is seen.  Frames travel on the socket in    *)
(* order: frames is all of them, taken the number the consumer took out.   *)
(*                                                                         *)
(* HasRoomBeforeSkip, HasRoomOneMore, TakeRefReleasesFirst and             *)
(* ReleaseStart are plausible mistakes, used by no action.                 *)
(***************************************************************************)
EXTENDS Integers, Sequences

CONSTANTS Cap,         \* bytes in the ring (DEFAULT_SHM_CAP)
          Threshold,   \* smaller payloads stay in the frame (SHM_THRESHOLD)
          Lens,        \* lengths of the results the server sends
          MaxFrames    \* bound: number of frames of a behaviour

ASSUME CapAssumption == Cap \in Nat \ {0}
ASSUME ThresholdAssumption == Threshold \in Nat
ASSUME LensAssumption == Lens \subseteq Nat
ASSUME MaxFramesAssumption == MaxFrames \in Nat

VARIABLES head,     \* logical end of what is published; producer's cursor
          tail,     \* logical start of what is unread; consumer's cursor
          buf,      \* the ring's bytes
          frames,   \* frames queued to the socket, oldest first
          taken,    \* number of frames resolved by the consumer
          prod,     \* producer: where it is in try_write
          cons,     \* consumer: where it is in read_release
          got       \* payloads handed to the client

vars == <<head, tail, buf, frames, taken, prod, cons, got>>

Payload(n, len) == [j \in 1 .. len |-> n]
Frame(kind, off, len) == [kind |-> kind, off |-> off, len |-> len]
Idle == [pc |-> "idle", pos |-> 0, len |-> 0, i |-> 0]

Init ==
    /\ head = 0 /\ tail = 0
    /\ buf = [a \in 0 .. Cap - 1 |-> 0]
    /\ frames = << >> /\ taken = 0 /\ got = << >>
    /\ prod = Idle
    /\ cons = [pc |-> "idle", out |-> << >>]

-----------------------------------------------------------------------------
\* Producer: wrap_maybe_shm and try_write

Phys(off) == off % Cap

\* A record is physically contiguous: it starts on the next lap when it does
\* not fit before the end of the ring.
WritePos(len) ==
    IF Phys(head) + len > Cap THEN head + (Cap - Phys(head)) ELSE head

HasRoomBeforeSkip(len) == len > 0 /\ len <= Cap /\ head + len - tail <= Cap
HasRoomOneMore(len) == len > 0 /\ len <= Cap /\ WritePos(len) + len - tail <= Cap + 1

HasRoom(len) == len > 0 /\ len <= Cap /\ WritePos(len) + len - tail <= Cap

UsesRing(len) == len >= Threshold /\ HasRoom(len)

\* The payload stays in the frame: too small, or try_write returned None.
SendInline(len) ==
    /\ prod.pc = "idle" /\ Len(frames) < MaxFrames
    /\ ~UsesRing(len)
    /\ frames' = Append(frames, Frame("inline", 0, len))
    /\ UNCHANGED <<head, tail, buf, taken, prod, cons, got>>

\* try_write up to the copy: its one load of tail finds room.
Reserve(len) ==
    /\ prod.pc = "idle" /\ Len(frames) < MaxFrames
    /\ UsesRing(len)
    /\ prod' = [pc |-> "copy", pos |-> WritePos(len), len |-> len, i |-> 0]
    /\ UNCHANGED <<head, tail, buf, frames, taken, cons, got>>

CopyIn ==
    /\ prod.pc = "copy" /\ prod.i < prod.len
    /\ buf' = [buf EXCEPT ![Phys(prod.pos) + prod.i] = Len(frames) + 1]
    /\ prod' = [prod EXCEPT !.i = @ + 1]
    /\ UNCHANGED <<head, tail, frames, taken, cons, got>>

\* The store of head, and the frame with the reference queued behind it.
Publish ==
    /\ prod.pc = "copy" /\ prod.i = prod.len
    /\ head' = prod.pos + prod.len
    /\ frames' = Append(frames, Frame("ref", prod.pos, prod.len))
    /\ prod' = Idle
    /\ UNCHANGED <<tail, buf, taken, cons, got>>

-----------------------------------------------------------------------------
\* Consumer: resolve_shm and read_release

Current == frames[taken + 1]

RefAccepted(f) ==
    /\ f.len > 0 /\ f.len <= Cap /\ Phys(f.off) + f.len <= Cap
    /\ f.off + f.len <= head

HaveFrame == cons.pc = "idle" /\ taken < Len(frames)

TakeInline ==
    /\ HaveFrame /\ Current.kind = "inline"
    /\ got' = Append(got, Payload(taken + 1, Current.len))
    /\ taken' = taken + 1
    /\ UNCHANGED <<head, tail, buf, frames, prod, cons>>

TakeRefReleasesFirst ==
    /\ HaveFrame /\ Current.kind = "ref" /\ RefAccepted(Current)
    /\ tail' = Current.off + Current.len
    /\ cons' = [pc |-> "copy", out |-> << >>]
    /\ UNCHANGED <<head, buf, frames, taken, prod, got>>

\* read_release up to the copy: its one load of head accepts the reference, or
\* the call fails ("invalid shm ref") and the record stays unread.
TakeRef ==
    /\ HaveFrame /\ Current.kind = "ref"
    /\ cons' = [pc |-> IF RefAccepted(Current) THEN "copy" ELSE "failed",
                out |-> << >>]
    /\ UNCHANGED <<head, tail, buf, frames, taken, prod, got>>

CopyOut ==
    /\ cons.pc = "copy" /\ Len(cons.out) < Current.len
    /\ cons' = [cons EXCEPT !.out =
                   Append(@, buf[Phys(Current.off) + Len(@)])]
    /\ UNCHANGED <<head, tail, buf, frames, taken, prod, got>>

ReleaseTo(end) ==
    /\ cons.pc = "copy" /\ Len(cons.out) = Current.len
    /\ tail' = end
    /\ got' = Append(got, cons.out)
    /\ taken' = taken + 1
    /\ cons' = [pc |-> "idle", out |-> << >>]
    /\ UNCHANGED <<head, buf, frames, prod>>

ReleaseStart == ReleaseTo(Current.off)

Release == ReleaseTo(Current.off + Current.len)

-----------------------------------------------------------------------------
Produce == CopyIn \/ Publish \/ \E len \in Lens : SendInline(len) \/ Reserve(len)
Consume == TakeInline \/ TakeRef \/ CopyOut \/ Release
Next == Produce \/ Consume

\* The client keeps reading while a request waits (recv_response), and a
\* write in progress runs to its end: there is no await inside try_write.
Fairness == WF_vars(Consume) /\ WF_vars(CopyIn \/ Publish)
Spec == Init /\ [][Next]_vars /\ Fairness

-----------------------------------------------------------------------------
\* Properties

ProdState == [pc : {"idle", "copy"}, pos : Nat, len : Nat, i : Nat]
FrameType == [kind : {"inline", "ref"}, off : Nat, len : Nat]

\* Every variable has its type: the cursors are logical offsets with the
\* consumer's never past the producer's, frames and payloads are sequences
\* (shm.rs ShmRing, encode_shm_ref).
TypeOK ==
    /\ head \in Nat /\ tail \in Nat /\ tail <= head
    /\ buf \in [0 .. Cap - 1 -> Nat]
    /\ frames \in Seq(FrameType)
    /\ taken \in Nat /\ taken <= Len(frames)
    /\ prod \in ProdState
    /\ cons \in [pc : {"idle", "copy", "failed"}, out : Seq(Nat)]
    /\ got \in Seq(Seq(Nat))

Unread(n) == n \in taken + 1 .. Len(frames) /\ frames[n].kind = "ref"

\* The bytes try_write is filling belong to no published record the client
\* has not released yet: the two copy_nonoverlapping never touch one byte.
NoOverlap ==
    prod.pc = "copy" =>
        \A n \in 1 .. Len(frames) : Unread(n) =>
            \A j \in 0 .. frames[n].len - 1, i \in 0 .. prod.len - 1 :
                Phys(prod.pos) + i # Phys(frames[n].off) + j

\* What the client has copied out so far of the record it is reading is that
\* record's data, although the server may be writing the next one meanwhile.
ReadIntact ==
    cons.pc = "copy" =>
        \A j \in 1 .. Len(cons.out) : cons.out[j] = taken + 1

\* read_release never refuses a reference that the server sent.
NoBadRef == cons.pc # "failed"

\* A drained ring takes every record of up to half its size, wherever the
\* cursors stand; a longer one may be refused forever, for the lap skipped
\* at the end of the ring counts as used.
DrainedRingTakesHalf ==
    prod.pc = "idle" /\ taken = Len(frames) =>
        \A len \in Lens : len > 0 /\ 2 * len <= Cap => HasRoom(len)

\* Space is only ever given back in order: no cursor moves backwards.
CursorsMonotone == [][head' >= head /\ tail' >= tail]_vars

\* The inductive invariant of the ring, in parts.
\* The write in progress starts at head or behind a skipped lap end, lies in
\* one piece within the free space, and has filled its first i bytes.
ProdInv ==
    prod.pc = "copy" =>
        /\ prod.len \in Lens /\ prod.len \in 1 .. Cap /\ prod.i <= prod.len
        /\ Phys(prod.pos) + prod.len <= Cap
        /\ head <= prod.pos /\ prod.pos + prod.len <= tail + Cap
        /\ \A i \in 0 .. prod.i - 1 : buf[Phys(prod.pos) + i] = Len(frames) + 1

\* An unread record lies in one piece between tail and head, with its data.
RecordInv ==
    \A n \in 1 .. Len(frames) : Unread(n) =>
        /\ frames[n].len \in 1 .. Cap
        /\ Phys(frames[n].off) + frames[n].len <= Cap
        /\ tail <= frames[n].off /\ frames[n].off + frames[n].len <= head
        /\ \A j \in 0 .. frames[n].len - 1 : buf[Phys(frames[n].off) + j] = n

\* Unread records follow one another in the ring as their frames do.
OrderInv ==
    \A n, m \in 1 .. Len(frames) : Unread(n) /\ Unread(m) /\ n < m =>
        frames[n].off + frames[n].len <= frames[m].off

\* The reader is inside the oldest unread record, which it copies faithfully.
ConsInv ==
    cons.pc = "copy" =>
        /\ Unread(taken + 1)
        /\ Len(cons.out) <= frames[taken + 1].len
        /\ ReadIntact

\* The youngest unread record ends at head; with none unread the ring is empty.
EndInv ==
    /\ (\A n \in 1 .. Len(frames) : ~Unread(n)) => tail = head
    /\ \A n \in 1 .. Len(frames) :
          Unread(n) /\ (\A m \in n + 1 .. Len(frames) : ~Unread(m)) =>
              frames[n].off + frames[n].len = head

\* What was handed to the client is what was sent.
GotInv ==
    /\ Len(got) = taken
    /\ \A n \in 1 .. taken : got[n] = Payload(n, frames[n].len)

\* Together: every part is needed for the others to be preserved by a step.
RingInv ==
    /\ TypeOK /\ ProdInv /\ RecordInv /\ OrderInv /\ EndInv
    /\ ConsInv /\ GotInv /\ NoBadRef

\* The ring with its fallback is a FIFO channel: payloads arrive complete, in
\* the order in which the server sent them, each exactly once and eventually.
Channel == INSTANCE ShmChannel WITH
    Lengths <- Lens,
    sent <- [n \in 1 .. Len(frames) |-> Payload(n, frames[n].len)],
    received <- got
ImplementsChannel == Channel!Spec
=============================================================================

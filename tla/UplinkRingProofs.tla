--------------------------- MODULE UplinkRingProofs ----------------------------
(***************************************************************************)
(* With one producer, and callers that drop their requests at any await,   *)
(* the uplink ring refuses no reference, gives back no record before its   *)
(* reference came, hands over every request intact the first time, and     *)
(* holds no byte once all are dispatched: for any size of the ring, any    *)
(* number of tasks and any requests.                                       *)
(***************************************************************************)
EXTENDS UplinkRing, FiniteSetTheorems, SequenceTheorems, TLAPS

\* What try_write demands of its callers (shm.rs:110-111): requests that go through
\* the ring are those of a single task.
OneProducer == \A t, u \in LargeTasks : t = u

-----------------------------------------------------------------------------
\* The inductive invariant

TaskStates == [pc : TaskPc, req : 0 .. MaxRequests, len : Nat, pos : Nat]
Dispatches == [req : 0 .. MaxRequests, data : SUBSET (0 .. MaxRequests)]

IsRef(f) == f.kind = "ref"
End(f) == f.off + f.len
Refs(s) == {f \in Frames : IsRef(f) /\ \E i \in DOMAIN s : s[i] = f}
Reqs(s) == {r \in 0 .. MaxRequests : \E i \in DOMAIN s : s[i].kind # "torn" /\ s[i].req = r}
OnItsWay == Refs(wire) \cup Refs(out)
Known == Reqs(wire) \cup Reqs(out) \cup Dispatched

\* A reference on its way: its record is whole and where try_write put it, or it has
\* been dispatched and given back.
Intact(off, len, req) == \A a \in Cells(off, len) : buf[a] = req
Past(f) == End(f) <= freed
RecordOk(f) ==
    /\ f.len > 0 /\ Phys(f.off) + f.len <= Cap /\ End(f) <= head
    /\ \/ Past(f) /\ f.req \in Dispatched
       \/ freed <= f.off /\ Intact(f.off, f.len, f.req)
RecordsOk == \A f \in OnItsWay : RecordOk(f)

\* References come in the order of their records, but for those that come again.
Follows(w, past, f, i) ==
    \/ End(w[i]) <= f.off
    \/ End(f) <= past
    \/ \E k \in DOMAIN w : k <= i /\ w[k] = f
WireInOrder ==
    \A i, j \in DOMAIN wire : i < j /\ IsRef(wire[i]) /\ IsRef(wire[j]) => Follows(wire, freed, wire[j], i)
OutAfterWire ==
    \A i \in DOMAIN wire, j \in DOMAIN out : IsRef(wire[i]) /\ IsRef(out[j]) => Follows(wire, freed, out[j], i)
OutInOrder ==
    \A i, j \in DOMAIN out : i < j /\ IsRef(out[i]) /\ IsRef(out[j]) => End(out[i]) <= out[j].off
InOrder == WireInOrder /\ OutAfterWire /\ OutInOrder

\* A buffer that is kept was not sent to its end: its last frame is new.
LastUnsent ==
    /\ \A i \in DOMAIN out : out[i].kind # "torn"
    /\ out # << >> => /\ out[Len(out)].req \notin Reqs(wire) \cup Dispatched
                      /\ \A i \in DOMAIN out : i < Len(out) => out[i].req # out[Len(out)].req
SessionOk ==
    /\ session # "dead"
    /\ session = "release" => wire # << >> /\ IsRef(wire[1]) /\ wire[1].req \in Dispatched

\* The producer: what it writes lies above head, less than a lap above what was given
\* back; what it has published is the last record.
Writing == {"room", "copy", "publish"}
Holding == {"load", "ref"} \cup Writing
WriterOk(t) ==
    /\ task[t].pc \in Holding => t \in LargeTasks /\ task[t].len > 0
    /\ task[t].pc \in Writing =>
          /\ head <= task[t].pos
          /\ task[t].len <= Cap => Phys(task[t].pos) + task[t].len <= Cap
    /\ task[t].pc \in {"copy", "publish"} =>
          task[t].len <= Cap /\ task[t].pos + task[t].len <= freed + Cap
    /\ task[t].pc \in {"publish", "ref"} => Intact(task[t].pos, task[t].len, task[t].req)
    /\ task[t].pc = "ref" =>
          /\ Phys(task[t].pos) + task[t].len <= Cap
          /\ freed <= task[t].pos /\ task[t].pos + task[t].len = head
          /\ \A f \in OnItsWay : End(f) <= task[t].pos

\* A request is one task's, and nowhere else before it is queued.
Unsent == {"inline"} \cup Holding
RequestOk(t) ==
    /\ task[t].pc = "idle" => task[t] = NoRequest
    /\ task[t].pc # "idle" => task[t].req \in 1 .. count
    /\ task[t].pc \in Unsent => task[t].req \notin Known
Distinct ==
    \A t, u \in Tasks : task[t].pc # "idle" /\ task[u].pc # "idle" /\ t # u => task[t].req # task[u].req
RequestInv ==
    /\ \A t \in Tasks : RequestOk(t)
    /\ Distinct
    /\ Known \subseteq 1 .. count

\* Where the cursors end up: the last record published will never be sent, is about to
\* be queued, or is the last one in the buffer, on the wire or given back.
Lost(r) == r \notin Known /\ \A t \in Tasks : task[t].req # r
LastEnds(s, x) ==
    \E i \in DOMAIN s : IsRef(s[i]) /\ End(s[i]) = x /\ \A j \in DOMAIN s : j > i => ~ IsRef(s[j])
NoRefs(s) == \A i \in DOMAIN s : ~ IsRef(s[i])
Owing ==
    \/ \E r \in 1 .. count : Lost(r)
    \/ \E t \in Tasks : task[t].pc = "ref"
    \/ LastEnds(out, head)
    \/ NoRefs(out) /\ LastEnds(wire, head)
    \/ NoRefs(out) /\ NoRefs(wire) /\ tail = head

IInv ==
    /\ TypeOK /\ RecordsOk /\ InOrder /\ LastUnsent /\ SessionOk
    /\ RequestInv /\ Owing /\ RequestIntact
    /\ \A t \in Tasks : WriterOk(t)

-----------------------------------------------------------------------------
\* Arithmetic of logical offsets

\* A logical offset is a number of full laps and a place in the ring.
LEMMA LapAndPlace ==
    ASSUME NEW a \in Nat
    PROVE  /\ a \div Cap \in Nat
           /\ a % Cap \in 0 .. Cap - 1
           /\ a = Cap * (a \div Cap) + (a % Cap)
BY UplinkAssumption

LEMMA PhysType ==
    ASSUME NEW a \in Nat
    PROVE  Phys(a) \in 0 .. Cap - 1
BY LapAndPlace DEF Phys

\* There is no multiple of c strictly between 0 and c.
LEMMA NoMultipleBetween ==
    ASSUME NEW q \in Int, NEW c \in Nat, 0 < c * q, c * q < c
    PROVE  FALSE
<1>1. CASE q <= 0
  BY <1>1
<1>2. CASE q >= 1
  BY <1>2
<1>3. QED BY <1>1, <1>2

\* Bytes less than a lap apart are at different places: the fact on which the
\* "pos + len - tail > cap" test of try_write rests.
LEMMA LessThanALapApart ==
    ASSUME NEW p \in Nat, NEW o \in Nat, NEW i \in Nat, NEW j \in Nat,
           Phys(p) + i < Cap, Phys(o) + j < Cap,
           o + j < p + i, p + i < o + j + Cap
    PROVE  Phys(p) + i # Phys(o) + j
<1> DEFINE q == (p \div Cap) - (o \div Cap)
<1>1. SUFFICES ASSUME Phys(p) + i = Phys(o) + j PROVE FALSE
  OBVIOUS
<1>2. q \in Int
  BY LapAndPlace
<1>3. p + i - (o + j) = Cap * (p \div Cap) - Cap * (o \div Cap)
  BY <1>1, LapAndPlace, UplinkAssumption DEF Phys
<1>4. Cap * (p \div Cap) - Cap * (o \div Cap) = Cap * q
  BY LapAndPlace, UplinkAssumption
<1>5. 0 < Cap * q /\ Cap * q < Cap
  BY <1>3, <1>4, UplinkAssumption
<1>6. QED BY <1>2, <1>5, NoMultipleBetween, UplinkAssumption

\* Two records within one window of Cap bytes share no cell of the ring.
LEMMA RecordsApart ==
    ASSUME NEW p \in Nat, NEW l \in Nat, NEW o \in Nat, NEW k \in Nat,
           NEW t \in Nat, NEW h \in Nat,
           Phys(p) + l <= Cap, Phys(o) + k <= Cap,
           t <= o, o + k <= h, h <= p, p + l <= t + Cap
    PROVE  Cells(p, l) \cap Cells(o, k) = {}
<1>1. SUFFICES ASSUME NEW a \in Cells(p, l), a \in Cells(o, k) PROVE FALSE
  OBVIOUS
<1>2. Phys(p) \in 0 .. Cap - 1 /\ Phys(o) \in 0 .. Cap - 1 /\ Cap \in Nat \ {0}
  BY PhysType, UplinkAssumption
<1>3. PICK i \in Nat, j \in Nat : a = Phys(p) + i /\ a = Phys(o) + j /\ i < l /\ j < k
  <2>1. a - Phys(p) \in Nat /\ a - Phys(p) < l /\ a = Phys(p) + (a - Phys(p))
    BY <1>2 DEF Cells
  <2>2. a - Phys(o) \in Nat /\ a - Phys(o) < k /\ a = Phys(o) + (a - Phys(o))
    BY <1>1, <1>2 DEF Cells
  <2>3. QED BY <2>1, <2>2
<1>4. Phys(p) + i < Cap /\ Phys(o) + j < Cap
  BY <1>2, <1>3
<1>5. o + j < p + i /\ p + i < o + j + Cap
  BY <1>2, <1>3
<1>6. QED BY <1>3, <1>4, <1>5, LessThanALapApart

\* Skipping to the next lap lands at the start of the ring.
LEMMA NextLapStart ==
    ASSUME NEW a \in Nat
    PROVE  /\ a + (Cap - Phys(a)) \in Nat
           /\ Phys(a + (Cap - Phys(a))) = 0
<1>1. /\ a + (Cap - Phys(a)) = Cap * ((a \div Cap) + 1)
      /\ a + (Cap - Phys(a)) \in Nat
  BY LapAndPlace, UplinkAssumption DEF Phys
<1>2. ASSUME NEW q \in Nat PROVE (Cap * q) % Cap = 0
  <2> DEFINE d == q - ((Cap * q) \div Cap)
  <2>1. Cap * q \in Nat
    BY UplinkAssumption
  <2>2. (Cap * q) % Cap = Cap * d
    BY <2>1, LapAndPlace, UplinkAssumption
  <2>3. ~ ((Cap * q) % Cap > 0)
    BY <2>1, <2>2, LapAndPlace, NoMultipleBetween, UplinkAssumption
  <2>4. QED BY <2>1, <2>3, LapAndPlace
<1>3. QED BY <1>1, <1>2, LapAndPlace, UplinkAssumption DEF Phys

LEMMA CellsInside ==
    ASSUME NEW p \in Nat, NEW l \in Nat, Phys(p) + l <= Cap
    PROVE  Cells(p, l) \subseteq 0 .. Cap - 1 /\ (l > 0 => Phys(p) \in Cells(p, l))
  BY PhysType, UplinkAssumption DEF Cells

-----------------------------------------------------------------------------
\* The stream of frames

LEMMA Appended ==
    ASSUME NEW S, NEW q \in Seq(S), NEW e \in S
    PROVE  /\ Append(q, e) \in Seq(S) /\ Append(q, e) # << >>
           /\ Len(q) \in Nat /\ Len(Append(q, e)) = Len(q) + 1
           /\ DOMAIN q = 1 .. Len(q) /\ DOMAIN Append(q, e) = 1 .. Len(q) + 1
           /\ \A i \in 1 .. Len(q) : i \in 1 .. Len(q) + 1 /\ Append(q, e)[i] = q[i]
           /\ \A i \in 1 .. Len(q) + 1 : i \in 1 .. Len(q) \/ i = Len(q) + 1
           /\ Append(q, e)[Len(q) + 1] = e
<1>1. /\ Append(q, e) \in Seq(S) /\ Append(q, e) # << >>
      /\ Len(Append(q, e)) = Len(q) + 1 /\ Len(q) \in Nat
      /\ \A i \in 1 .. Len(q) : Append(q, e)[i] = q[i]
      /\ Append(q, e)[Len(q) + 1] = e
  BY AppendProperties, LenProperties
<1>2. DOMAIN q = 1 .. Len(q) /\ DOMAIN Append(q, e) = 1 .. Len(q) + 1
  BY <1>1, LenProperties
<1>3. /\ \A i \in 1 .. Len(q) : i \in 1 .. Len(q) + 1
      /\ \A i \in 1 .. Len(q) + 1 : i \in 1 .. Len(q) \/ i = Len(q) + 1
  BY <1>1
<1>4. QED BY <1>1, <1>2, <1>3

LEMMA Shortened ==
    ASSUME NEW S, NEW q \in Seq(S), q # << >>
    PROVE  /\ Tail(q) \in Seq(S) /\ Head(q) = q[1] /\ Head(q) \in S
           /\ Len(q) \in Nat \ {0}
           /\ DOMAIN q = 1 .. Len(q) /\ DOMAIN Tail(q) = 1 .. Len(q) - 1
           /\ \A i \in 1 .. Len(q) - 1 : i + 1 \in 2 .. Len(q) /\ i + 1 \in 1 .. Len(q)
                                          /\ Tail(q)[i] = q[i + 1]
           /\ \A i \in 1 .. Len(q) : i = 1 \/ (i - 1 \in 1 .. Len(q) - 1 /\ Tail(q)[i - 1] = q[i])
           /\ 1 \in 1 .. Len(q)
<1>1. /\ Tail(q) \in Seq(S) /\ Len(Tail(q)) = Len(q) - 1 /\ Len(q) \in Nat \ {0} /\ Head(q) \in S
      /\ \A i \in 1 .. Len(q) - 1 : Tail(q)[i] = q[i + 1]
  BY HeadTailProperties, EmptySeq, LenProperties
<1>2. DOMAIN q = 1 .. Len(q) /\ DOMAIN Tail(q) = 1 .. Len(q) - 1
  BY <1>1, LenProperties
<1>3. Head(q) = q[1]
  OBVIOUS
<1>4. /\ \A i \in 1 .. Len(q) - 1 : i + 1 \in 2 .. Len(q) /\ i + 1 \in 1 .. Len(q)
      /\ 1 \in 1 .. Len(q)
  BY <1>1
<1>5. ASSUME NEW i \in 1 .. Len(q), i # 1 PROVE i - 1 \in 1 .. Len(q) - 1 /\ Tail(q)[i - 1] = q[i]
  <2>1. i - 1 \in 1 .. Len(q) - 1 /\ (i - 1) + 1 = i
    BY <1>1, <1>5
  <2>2. QED BY <1>1, <2>1
<1>6. QED BY <1>1, <1>2, <1>3, <1>4, <1>5

LEMMA StateFacts ==
    ASSUME TypeOK
    PROVE  /\ wire \in Seq(Frames) /\ DOMAIN wire = 1 .. Len(wire) /\ Len(wire) \in Nat
           /\ out \in Seq(Frames) /\ DOMAIN out = 1 .. Len(out) /\ Len(out) \in Nat
           /\ \A i \in DOMAIN wire : wire[i] \in Frames
           /\ \A i \in DOMAIN out : out[i] \in Frames
           /\ \A f \in Frames : /\ f.off \in Nat /\ f.len \in Nat /\ f.req \in 0 .. MaxRequests
                                /\ End(f) \in Nat
           /\ head \in Nat /\ freed \in Nat /\ tail \in Nat /\ tail <= freed /\ freed <= head
           /\ count \in 0 .. MaxRequests /\ MaxRequests \in Nat /\ Cap \in Nat \ {0}
           /\ buf \in [0 .. Cap - 1 -> 0 .. MaxRequests]
           /\ task \in [Tasks -> TaskStates]
<1>1. /\ wire \in Seq(Frames) /\ DOMAIN wire = 1 .. Len(wire) /\ Len(wire) \in Nat
      /\ \A i \in DOMAIN wire : wire[i] \in Frames
  BY LenProperties, ElementOfSeq DEF TypeOK
<1>2. /\ out \in Seq(Frames) /\ DOMAIN out = 1 .. Len(out) /\ Len(out) \in Nat
      /\ \A i \in DOMAIN out : out[i] \in Frames
  BY LenProperties, ElementOfSeq DEF TypeOK
<1>3. \A f \in Frames : f.off \in Nat /\ f.len \in Nat /\ f.req \in 0 .. MaxRequests /\ End(f) \in Nat
  BY DEF Frames, End
<1>4. head \in Nat /\ freed \in Nat /\ tail \in Nat /\ tail <= freed /\ freed <= head
  BY DEF TypeOK
<1>5. QED BY <1>1, <1>2, <1>3, <1>4, UplinkAssumption DEF TypeOK, TaskStates

LEMMA TaskFacts ==
    ASSUME TypeOK, NEW t \in Tasks
    PROVE  /\ task[t] \in TaskStates /\ task[t].pc \in TaskPc
           /\ task[t].req \in 0 .. MaxRequests /\ task[t].len \in Nat /\ task[t].pos \in Nat
<1>1. task[t] \in TaskStates
  BY DEF TypeOK, TaskStates
<1>2. QED BY <1>1 DEF TaskStates

\* A frame of a sequence is among its references, its request among its requests.
LEMMA Membership ==
    ASSUME NEW s \in Seq(Frames)
    PROVE  /\ \A i \in DOMAIN s : IsRef(s[i]) => s[i] \in Refs(s)
           /\ \A i \in DOMAIN s : s[i].kind # "torn" => s[i].req \in Reqs(s)
           /\ \A f \in Refs(s) : f \in Frames /\ IsRef(f) /\ \E i \in DOMAIN s : s[i] = f
           /\ \A r \in Reqs(s) : \E i \in DOMAIN s : s[i].kind # "torn" /\ s[i].req = r
<1>1. \A i \in DOMAIN s : s[i] \in Frames /\ s[i].req \in 0 .. MaxRequests
  <2>1. \A i \in DOMAIN s : s[i] \in Frames
    BY ElementOfSeq, LenProperties
  <2>2. \A f \in Frames : f.req \in 0 .. MaxRequests
    BY DEF Frames
  <2>3. QED BY <2>1, <2>2
<1>2. QED BY <1>1 DEF Refs, Reqs

-----------------------------------------------------------------------------
\* What steps leave as it is

\* With one producer, while a task holds a part of the ring no other does.
LEMMA HoldsAlone ==
    ASSUME OneProducer, NEW t \in Tasks, NEW u \in Tasks, u # t, WriterOk(t), WriterOk(u),
           task[t].pc \in Holding
    PROVE  task[u].pc \notin Holding
  BY DEF OneProducer, WriterOk

\* A task that holds no part of the ring.
LEMMA WriterElsewhere ==
    ASSUME NEW u \in Tasks, task'[u].pc \notin Holding
    PROVE  WriterOk(u)'
<1>1. /\ task'[u].pc \notin Writing /\ task'[u].pc # "ref"
      /\ task'[u].pc \notin {"copy", "publish"} /\ task'[u].pc \notin {"publish", "ref"}
  BY DEF Holding, Writing
<1>2. QED BY <1>1 DEF WriterOk

LEMMA WriterKept ==
    ASSUME NEW u \in Tasks, WriterOk(u), task'[u] = task[u], UNCHANGED <<head, freed, buf>>,
           OnItsWay' \subseteq OnItsWay
    PROVE  WriterOk(u)'
<1>1. \A off, len, req : Intact(off, len, req)' = Intact(off, len, req)
  BY DEF Intact, Cells, Phys
<1>2. \A f : End(f)' = End(f)
  BY DEF End
<1>3. QED BY <1>1, <1>2 DEF WriterOk, Phys, End

LEMMA StreamKept ==
    ASSUME UNCHANGED <<out, wire, served>>
    PROVE  /\ OnItsWay' = OnItsWay /\ Known' = Known /\ Dispatched' = Dispatched
           /\ Reqs(wire)' = Reqs(wire) /\ Reqs(out)' = Reqs(out)
  BY DEF OnItsWay, Known, Dispatched, Refs, Reqs, IsRef

LEMMA OrderKept ==
    ASSUME InOrder, LastUnsent, SessionOk, UNCHANGED <<out, wire, served, session, freed>>
    PROVE  InOrder' /\ LastUnsent' /\ SessionOk'
<1>1. Dispatched' = Dispatched /\ Reqs(wire)' = Reqs(wire)
  BY StreamKept
<1>2. InOrder'
  BY DEF InOrder, WireInOrder, OutAfterWire, OutInOrder
<1>3. LastUnsent' /\ SessionOk'
  BY <1>1 DEF LastUnsent, SessionOk, IsRef
<1>4. QED BY <1>2, <1>3

\* The ring stays as it is, no reference is added, and what is dispatched stays so.
LEMMA RecordsKept ==
    ASSUME RecordsOk, UNCHANGED <<head, freed, buf>>, OnItsWay' \subseteq OnItsWay,
           Dispatched \subseteq Dispatched'
    PROVE  RecordsOk'
  BY DEF RecordsOk, RecordOk, Past, End, Intact, Cells, Phys

LEMMA WentTo ==
    ASSUME TypeOK, NEW t \in Tasks, NEW pc \in TaskPc, Goto(t, pc)
    PROVE  /\ task' \in [Tasks -> TaskStates] /\ \A u \in Tasks \ {t} : task'[u] = task[u]
           /\ task'[t].pc = pc /\ task'[t].req = task[t].req
           /\ task'[t].len = task[t].len /\ task'[t].pos = task[t].pos
<1>1. task[t] \in TaskStates /\ task \in [Tasks -> TaskStates]
  BY TaskFacts DEF TypeOK, TaskStates
<1>2. PICK s \in TaskStates : s = [task[t] EXCEPT !.pc = pc]
  BY <1>1 DEF TaskStates
<1>3. s.pc = pc /\ s.req = task[t].req /\ s.len = task[t].len /\ s.pos = task[t].pos
  BY <1>1, <1>2 DEF TaskStates
<1>4. task' = [task EXCEPT ![t] = s]
  BY <1>2 DEF Goto
<1>5. QED BY <1>1, <1>3, <1>4

LEMMA BecameOf ==
    ASSUME TypeOK, NEW t \in Tasks, NEW pc \in TaskPc, Become(t, pc)
    PROVE  /\ task' \in [Tasks -> TaskStates] /\ \A u \in Tasks \ {t} : task'[u] = task[u]
           /\ task'[t].pc = pc /\ task'[t].req = task[t].req
<1>1. task[t].req \in 0 .. MaxRequests /\ task \in [Tasks -> TaskStates]
  BY TaskFacts DEF TypeOK, TaskStates
<1>2. PICK s \in TaskStates : s = At(pc, task[t].req) /\ s.pc = pc /\ s.req = task[t].req
  <2>1. At(pc, task[t].req) \in TaskStates
    BY <1>1 DEF TaskStates, At
  <2>2. At(pc, task[t].req).pc = pc /\ At(pc, task[t].req).req = task[t].req
    BY DEF At
  <2>3. QED BY <2>1, <2>2
<1>3. task' = [task EXCEPT ![t] = s]
  BY <1>2 DEF Become
<1>4. QED BY <1>1, <1>2, <1>3

LEMMA DoneWith ==
    ASSUME TypeOK, NEW t \in Tasks, Done(t)
    PROVE  /\ task' \in [Tasks -> TaskStates] /\ task'[t] = NoRequest
           /\ \A u \in Tasks \ {t} : task'[u] = task[u]
<1>1. NoRequest \in TaskStates
  BY UplinkAssumption DEF NoRequest, At, TaskStates, TaskPc
<1>2. QED BY <1>1 DEF Done, TypeOK, TaskStates

\* A request that goes on towards its frame.
LEMMA RequestMoved ==
    ASSUME RequestInv, NEW t \in Tasks, UNCHANGED <<out, wire, served, count>>,
           \A u \in Tasks \ {t} : task'[u] = task[u],
           task[t].pc \in Unsent, task'[t].pc \in Unsent, task'[t].req = task[t].req
    PROVE  RequestInv'
<1>1. Known' = Known
  BY StreamKept
<1>2. task[t].pc # "idle" /\ task'[t].pc # "idle"
  BY DEF Unsent, Holding, Writing
<1>3. ASSUME NEW u \in Tasks PROVE RequestOk(u)'
  <2>1. RequestOk(u) /\ RequestOk(t)
    BY DEF RequestInv
  <2>2. CASE u = t
    BY <1>1, <1>2, <2>1, <2>2 DEF RequestOk
  <2>3. CASE u # t
    BY <1>1, <2>1, <2>3 DEF RequestOk
  <2>4. QED BY <2>2, <2>3
<1>4. Distinct'
  BY <1>2 DEF RequestInv, Distinct
<1>5. QED BY <1>1, <1>3, <1>4 DEF RequestInv

\* Tasks that go idle or on to wait, and frames that leave the stream, owe nothing new.
LEMMA Settled ==
    ASSUME TypeOK, RequestInv, UNCHANGED count, Known' \subseteq Known,
           \A u \in Tasks : \/ task'[u] = task[u] \/ task'[u] = NoRequest
                            \/ /\ task'[u].pc \notin Unsent \cup {"idle"}
                               /\ task[u].pc # "idle" /\ task'[u].req = task[u].req
    PROVE  RequestInv' /\ \A r \in 1 .. count : Lost(r) => Lost(r)'
<1>1. NoRequest.pc = "idle" /\ NoRequest.req = 0 /\ "idle" \notin Unsent
  BY DEF NoRequest, At, Unsent, Holding, Writing
<1>2. ASSUME NEW u \in Tasks PROVE RequestOk(u)'
  <2>1. RequestOk(u)
    BY DEF RequestInv
  <2>2. CASE task'[u] = task[u]
    BY <2>1, <2>2 DEF RequestOk
  <2>3. CASE task'[u] = NoRequest
    BY <1>1, <2>3 DEF RequestOk
  <2>4. CASE /\ task'[u].pc \notin Unsent \cup {"idle"}
             /\ task[u].pc # "idle" /\ task'[u].req = task[u].req
    BY <2>1, <2>4 DEF RequestOk
  <2>5. QED BY <2>2, <2>3, <2>4
<1>3. Distinct'
  <2>1. \A u \in Tasks : task'[u].pc # "idle" => task[u].pc # "idle" /\ task'[u].req = task[u].req
    BY <1>1
  <2>2. QED BY <2>1 DEF RequestInv, Distinct
<1>4. Known' \subseteq 1 .. count'
  BY DEF RequestInv
<1>5. ASSUME NEW r \in 1 .. count, Lost(r) PROVE Lost(r)'
  <2>1. r # 0
    BY StateFacts
  <2>2. \A u \in Tasks : task'[u].req # r
    BY <1>1, <1>5, <2>1 DEF Lost
  <2>3. QED BY <1>5, <2>2 DEF Lost
<1>6. QED BY <1>2, <1>3, <1>4, <1>5 DEF RequestInv

LEMMA OwingKept ==
    ASSUME Owing, UNCHANGED <<head, tail, out, wire, count>>,
           \A r \in 1 .. count : Lost(r) => Lost(r)',
           \A u \in Tasks : task[u].pc = "ref" => task'[u].pc = "ref"
    PROVE  Owing'
  BY DEF Owing, LastEnds, NoRefs, IsRef, End

LEMMA StillLost ==
    ASSUME UNCHANGED <<out, wire, served>>, \A u \in Tasks : task'[u].req = task[u].req
    PROVE  \A r : Lost(r) => Lost(r)'
  BY StreamKept DEF Lost

-----------------------------------------------------------------------------
\* A task up to its frame

LEMMA InitIInv == Init => IInv
<1>1. SUFFICES ASSUME Init PROVE IInv
  OBVIOUS
<1>2. \A t \in Tasks : task[t] = NoRequest
  BY <1>1 DEF Init
<1>3. NoRequest \in TaskStates /\ NoRequest.pc = "idle"
  BY UplinkAssumption DEF NoRequest, At, TaskStates, TaskPc
<1>4. /\ \A S : << >> \in Seq(S)
      /\ wire = << >> /\ out = << >> /\ DOMAIN wire = {} /\ DOMAIN out = {}
  BY <1>1 DEF Init
<1>5. TypeOK
  <2>1. task \in [Tasks -> TaskStates]
    BY <1>1, <1>3 DEF Init
  <2>2. buf \in [0 .. Cap - 1 -> 0 .. MaxRequests]
    BY <1>1, UplinkAssumption DEF Init
  <2>3. QED BY <1>1, <1>4, <2>1, <2>2, UplinkAssumption DEF Init, TypeOK, TaskStates
<1>6. OnItsWay = {} /\ Known = {}
  <2>1. Dispatched = {}
    BY <1>1 DEF Init, Dispatched
  <2>2. QED BY <1>4, <2>1 DEF OnItsWay, Known, Refs, Reqs
<1>7. RecordsOk /\ InOrder /\ LastUnsent /\ SessionOk /\ RequestIntact /\ Owing
  <2>1. session = "read" /\ served = {} /\ tail = head
    BY <1>1 DEF Init
  <2>2. QED BY <1>4, <1>6, <2>1
            DEF RecordsOk, InOrder, WireInOrder, OutAfterWire, OutInOrder, LastUnsent, SessionOk,
                RequestIntact, Owing, NoRefs
<1>8. RequestInv
  <2>1. \A t \in Tasks : RequestOk(t)
    BY <1>2, <1>3, <1>6 DEF RequestOk
  <2>2. Distinct
    BY <1>2, <1>3 DEF Distinct
  <2>3. QED BY <1>6, <2>1, <2>2 DEF RequestInv
<1>9. \A t \in Tasks : WriterOk(t)
  BY <1>2, <1>3 DEF WriterOk, Holding, Writing
<1>10. QED BY <1>5, <1>7, <1>8, <1>9 DEF IInv

LEMMA BeginStep ==
    ASSUME IInv, NEW t \in Tasks, NEW len \in Nat, t \in LargeTasks => len > 0, Begin(t, len)
    PROVE  IInv'
<1>1. /\ TypeOK /\ RecordsOk /\ InOrder /\ LastUnsent /\ SessionOk
      /\ RequestInv /\ Owing /\ RequestIntact
      /\ \A u \in Tasks : WriterOk(u) /\ RequestOk(u)
      /\ count \in Nat /\ MaxRequests \in Nat /\ task \in [Tasks -> TaskStates]
  BY StateFacts, UplinkAssumption DEF IInv, RequestInv
<1>2. /\ UNCHANGED <<head, tail, buf, freed, out, wire, served, session>>
      /\ task[t].pc = "idle" /\ count < MaxRequests /\ count' = count + 1
  BY DEF Begin, ring
<1>3. PICK s \in TaskStates :
          /\ (s.pc = "load" /\ t \in LargeTasks /\ s.len > 0) \/ s.pc = "inline"
          /\ s.req = count + 1
          /\ task' = [task EXCEPT ![t] = s]
  <2>1. count + 1 \in 0 .. MaxRequests
    BY <1>1, <1>2
  <2>2. CASE t \in LargeTasks
    <3>1. [At("load", count + 1) EXCEPT !.len = len]
             = [pc |-> "load", req |-> count + 1, len |-> len, pos |-> 0]
      BY DEF At
    <3>2. [pc |-> "load", req |-> count + 1, len |-> len, pos |-> 0] \in TaskStates
      BY <2>1 DEF TaskStates, TaskPc
    <3>3. QED BY <2>2, <3>1, <3>2 DEF Begin
  <2>3. CASE t \notin LargeTasks
    <3>1. At("inline", count + 1) \in TaskStates
      BY <2>1 DEF TaskStates, TaskPc, At
    <3>2. At("inline", count + 1).pc = "inline" /\ At("inline", count + 1).req = count + 1
      BY DEF At
    <3>3. QED BY <2>3, <3>1, <3>2 DEF Begin
  <2>4. QED BY <2>2, <2>3
<1>4. /\ task' \in [Tasks -> TaskStates] /\ task'[t] = s
      /\ \A u \in Tasks \ {t} : task'[u] = task[u]
  BY <1>1, <1>3
<1>5. TypeOK'
  <2>1. count' \in 0 .. MaxRequests
    BY <1>1, <1>2
  <2>2. QED BY <1>1, <1>2, <1>4, <2>1 DEF TypeOK, TaskStates
<1>6. count + 1 \notin 1 .. count /\ count + 1 \in 1 .. count' /\ \A r \in 1 .. count : r \in 1 .. count'
  BY <1>1, <1>2
<1>7. Known' = Known /\ OnItsWay' = OnItsWay /\ Dispatched' = Dispatched
  BY <1>2, StreamKept
<1>8. RequestInv'
  <2>1. count + 1 \notin Known /\ Known \subseteq 1 .. count'
    BY <1>1, <1>6 DEF RequestInv
  <2>2. ASSUME NEW u \in Tasks PROVE RequestOk(u)'
    <3>1. CASE u = t
      <4>1. task'[t].pc # "idle" /\ task'[t].req = count + 1
        BY <1>3, <1>4
      <4>2. QED BY <1>6, <1>7, <2>1, <3>1, <4>1 DEF RequestOk
    <3>2. CASE u # t
      BY <1>1, <1>4, <1>6, <1>7, <3>2 DEF RequestOk
    <3>3. QED BY <3>1, <3>2
  <2>3. \A u \in Tasks : task[u].pc # "idle" => task[u].req # count + 1
    BY <1>1, <1>6 DEF RequestOk
  <2>4. Distinct'
    BY <1>1, <1>3, <1>4, <2>3 DEF RequestInv, Distinct
  <2>5. QED BY <1>7, <2>1, <2>2, <2>4 DEF RequestInv
<1>9. Owing'
  <2>1. \A r \in 1 .. count : Lost(r) => Lost(r)' /\ r \in 1 .. count'
    BY <1>3, <1>4, <1>6, <1>7 DEF Lost
  <2>2. \A u \in Tasks : task[u].pc = "ref" => task'[u].pc = "ref"
    BY <1>2, <1>4
  <2>3. QED BY <1>1, <1>2, <2>1, <2>2 DEF Owing, LastEnds, NoRefs, IsRef, End
<1>10. ASSUME NEW u \in Tasks PROVE WriterOk(u)'
  <2>1. CASE u = t
    <3>1. /\ task'[t].pc \notin Writing /\ task'[t].pc \notin {"copy", "publish"}
          /\ task'[t].pc \notin {"publish", "ref"} /\ task'[t].pc # "ref"
      BY <1>3, <1>4 DEF Writing
    <3>2. task'[t].pc \in Holding => t \in LargeTasks /\ task'[t].len > 0
      BY <1>3, <1>4 DEF Holding, Writing
    <3>3. QED BY <2>1, <3>1, <3>2 DEF WriterOk
  <2>2. CASE u # t
    BY <1>1, <1>2, <1>4, <1>7, <2>2, WriterKept
  <2>3. QED BY <2>1, <2>2
<1>11. RecordsOk' /\ InOrder' /\ LastUnsent' /\ SessionOk' /\ RequestIntact'
  BY <1>1, <1>2, <1>7, RecordsKept, OrderKept DEF RequestIntact
<1>12. QED BY <1>5, <1>8, <1>9, <1>10, <1>11 DEF IInv

LEMMA LoadHeadStep ==
    ASSUME IInv, NEW t \in Tasks, LoadHead(t)
    PROVE  IInv'
<1>1. /\ TypeOK /\ RecordsOk /\ InOrder /\ LastUnsent /\ SessionOk
      /\ RequestInv /\ Owing /\ RequestIntact
      /\ \A u \in Tasks : WriterOk(u)
      /\ head \in Nat /\ Cap \in Nat \ {0} /\ task[t].len \in Nat /\ task[t] \in TaskStates
      /\ task \in [Tasks -> TaskStates]
  BY StateFacts, TaskFacts DEF IInv
<1>2. /\ UNCHANGED <<head, tail, buf, freed, count, out, wire, served, session>>
      /\ task[t].pc = "load"
  BY DEF LoadHead, ring
<1>3. t \in LargeTasks /\ task[t].len > 0
  BY <1>1, <1>2 DEF WriterOk, Holding
<1>4. PICK pos \in Nat :
          /\ head <= pos
          /\ task[t].len <= Cap => Phys(pos) + task[t].len <= Cap
          /\ task' = [task EXCEPT ![t].pc = "room", ![t].pos = pos]
  <2>1. CASE Phys(head) + task[t].len > Cap
    <3>1. head <= head + (Cap - Phys(head))
      BY <1>1, PhysType
    <3>2. /\ head + (Cap - Phys(head)) \in Nat
          /\ task[t].len <= Cap => Phys(head + (Cap - Phys(head))) + task[t].len <= Cap
      BY <1>1, NextLapStart
    <3>3. task' = [task EXCEPT ![t].pc = "room", ![t].pos = head + (Cap - Phys(head))]
      BY <2>1 DEF LoadHead
    <3>4. QED BY <3>1, <3>2, <3>3
  <2>2. CASE ~ (Phys(head) + task[t].len > Cap)
    <3>1. Phys(head) + task[t].len <= Cap /\ head <= head
      BY <1>1, <2>2, PhysType
    <3>2. task' = [task EXCEPT ![t].pc = "room", ![t].pos = head]
      BY <2>2 DEF LoadHead
    <3>3. QED BY <1>1, <3>1, <3>2
  <2>3. QED BY <2>1, <2>2
<1>5. PICK s \in TaskStates : s = [task[t] EXCEPT !.pc = "room", !.pos = pos]
  BY <1>1 DEF TaskStates, TaskPc
<1>6. s.pc = "room" /\ s.req = task[t].req /\ s.len = task[t].len /\ s.pos = pos
  BY <1>1, <1>5 DEF TaskStates
<1>7. /\ task' \in [Tasks -> TaskStates] /\ task'[t] = s
      /\ \A u \in Tasks \ {t} : task'[u] = task[u]
  BY <1>1, <1>4, <1>5
<1>8. TypeOK'
  BY <1>1, <1>2, <1>7 DEF TypeOK, TaskStates
<1>9. Known' = Known /\ OnItsWay' = OnItsWay /\ Dispatched' = Dispatched
  BY <1>2, StreamKept
<1>10. RequestInv'
  <2>1. task[t].pc \in Unsent /\ task'[t].pc \in Unsent
    BY <1>2, <1>6, <1>7 DEF Unsent, Holding, Writing
  <2>2. QED BY <1>1, <1>2, <1>6, <1>7, <2>1, RequestMoved
<1>11. Owing'
  <2>1. /\ \A u \in Tasks : task'[u].req = task[u].req
        /\ \A u \in Tasks : task[u].pc = "ref" => task'[u].pc = "ref"
    BY <1>2, <1>6, <1>7
  <2>2. QED BY <1>1, <1>2, <2>1, StillLost, OwingKept
<1>12. ASSUME NEW u \in Tasks PROVE WriterOk(u)'
  <2>1. CASE u = t
    <3>1. /\ task'[t].pc = "room" /\ task'[t].pos = pos /\ task'[t].len = task[t].len
      BY <1>6, <1>7
    <3>2. "room" \notin {"copy", "publish"} /\ "room" \notin {"publish", "ref"}
      OBVIOUS
    <3>3. QED BY <1>2, <1>3, <1>4, <2>1, <3>1, <3>2 DEF WriterOk, Phys
  <2>2. CASE u # t
    BY <1>1, <1>2, <1>7, <1>9, <2>2, WriterKept
  <2>3. QED BY <2>1, <2>2
<1>13. RecordsOk' /\ InOrder' /\ LastUnsent' /\ SessionOk' /\ RequestIntact'
  BY <1>1, <1>2, <1>9, RecordsKept, OrderKept DEF RequestIntact
<1>14. QED BY <1>8, <1>10, <1>11, <1>12, <1>13 DEF IInv

\* Below what was ever given back plus a lap there is room: tail may have moved back,
\* which only makes the test stricter.
LEMMA LoadTailStep ==
    ASSUME IInv, NEW t \in Tasks, LoadTail(t)
    PROVE  IInv'
<1>1. /\ TypeOK /\ RecordsOk /\ InOrder /\ LastUnsent /\ SessionOk
      /\ RequestInv /\ Owing /\ RequestIntact
      /\ \A u \in Tasks : WriterOk(u)
      /\ task[t].len \in Nat /\ task[t].pos \in Nat
      /\ tail \in Nat /\ freed \in Nat /\ tail <= freed /\ Cap \in Nat
  BY StateFacts, TaskFacts DEF IInv
<1>2. /\ UNCHANGED <<head, tail, buf, freed, count, out, wire, served, session>>
      /\ task[t].pc = "room"
      /\ IF HasRoom(t) THEN Goto(t, "copy") ELSE Become(t, "inline")
  BY DEF LoadTail, LoadTailIf, ring
<1>3. "copy" \in TaskPc /\ "inline" \in TaskPc
  BY DEF TaskPc
<1>4. /\ task' \in [Tasks -> TaskStates] /\ \A u \in Tasks \ {t} : task'[u] = task[u]
      /\ task'[t].req = task[t].req
      /\ \/ task'[t].pc = "inline"
         \/ /\ HasRoom(t) /\ task'[t].pc = "copy"
            /\ task'[t].len = task[t].len /\ task'[t].pos = task[t].pos
  <2>1. CASE HasRoom(t)
    BY <1>1, <1>2, <1>3, <2>1, WentTo
  <2>2. CASE ~ HasRoom(t)
    BY <1>1, <1>2, <1>3, <2>2, BecameOf
  <2>3. QED BY <2>1, <2>2
<1>5. TypeOK'
  BY <1>1, <1>2, <1>4 DEF TypeOK, TaskStates
<1>6. Known' = Known /\ OnItsWay' = OnItsWay /\ Dispatched' = Dispatched
  BY <1>2, StreamKept
<1>7. RequestInv'
  <2>1. task[t].pc \in Unsent /\ task'[t].pc \in Unsent
    BY <1>2, <1>4 DEF Unsent, Holding, Writing
  <2>2. QED BY <1>1, <1>2, <1>4, <2>1, RequestMoved
<1>8. Owing'
  <2>1. /\ \A u \in Tasks : task'[u].req = task[u].req
        /\ \A u \in Tasks : task[u].pc = "ref" => task'[u].pc = "ref"
    BY <1>2, <1>4
  <2>2. QED BY <1>1, <1>2, <2>1, StillLost, OwingKept
<1>9. ASSUME NEW u \in Tasks PROVE WriterOk(u)'
  <2>1. CASE u = t /\ task'[t].pc = "copy"
    <3>1. /\ HasRoom(t) /\ task'[t].len = task[t].len /\ task'[t].pos = task[t].pos
      BY <1>4, <2>1
    <3>2. /\ t \in LargeTasks /\ task[t].len > 0 /\ head <= task[t].pos
          /\ task[t].len <= Cap => Phys(task[t].pos) + task[t].len <= Cap
      BY <1>1, <1>2 DEF WriterOk, Holding, Writing
    <3>3. task[t].len <= Cap /\ task[t].pos + task[t].len <= freed + Cap
      BY <1>1, <3>1 DEF HasRoom
    <3>4. task'[t].pc \notin {"publish", "ref"} /\ task'[t].pc # "ref"
      BY <2>1
    <3>5. QED BY <1>2, <2>1, <3>1, <3>2, <3>3, <3>4 DEF WriterOk, Phys
  <2>2. CASE u = t /\ task'[t].pc = "inline"
    BY <2>2, WriterElsewhere DEF Holding, Writing
  <2>3. CASE u # t
    BY <1>1, <1>2, <1>4, <1>6, <2>3, WriterKept
  <2>4. QED BY <1>4, <2>1, <2>2, <2>3
<1>10. RecordsOk' /\ InOrder' /\ LastUnsent' /\ SessionOk' /\ RequestIntact'
  BY <1>1, <1>2, <1>6, RecordsKept, OrderKept DEF RequestIntact
<1>11. QED BY <1>5, <1>7, <1>8, <1>9, <1>10 DEF IInv

\* The copy goes where no record that is still to be read lies.
LEMMA CopyInStep ==
    ASSUME IInv, OneProducer, NEW t \in Tasks, CopyIn(t)
    PROVE  IInv'
<1>1. /\ TypeOK /\ RecordsOk /\ InOrder /\ LastUnsent /\ SessionOk
      /\ RequestInv /\ Owing /\ RequestIntact
      /\ \A u \in Tasks : WriterOk(u)
      /\ task[t].len \in Nat /\ task[t].pos \in Nat /\ task[t].req \in 0 .. MaxRequests
      /\ head \in Nat /\ freed \in Nat /\ Cap \in Nat
      /\ buf \in [0 .. Cap - 1 -> 0 .. MaxRequests]
  BY StateFacts, TaskFacts DEF IInv
<1>2. /\ UNCHANGED <<head, tail, freed, count, out, wire, served, session>>
      /\ task[t].pc = "copy" /\ Goto(t, "publish")
      /\ buf' = [a \in DOMAIN buf |->
                    IF a \in Cells(task[t].pos, task[t].len) THEN task[t].req ELSE buf[a]]
  BY DEF CopyIn
<1>3. /\ task' \in [Tasks -> TaskStates] /\ \A u \in Tasks \ {t} : task'[u] = task[u]
      /\ task'[t].pc = "publish" /\ task'[t].req = task[t].req
      /\ task'[t].len = task[t].len /\ task'[t].pos = task[t].pos
  <2>1. "publish" \in TaskPc
    BY DEF TaskPc
  <2>2. QED BY <1>1, <1>2, <2>1, WentTo
<1>4. /\ t \in LargeTasks /\ task[t].len > 0 /\ head <= task[t].pos
      /\ task[t].len <= Cap /\ Phys(task[t].pos) + task[t].len <= Cap
      /\ task[t].pos + task[t].len <= freed + Cap
  BY <1>1, <1>2 DEF WriterOk, Holding, Writing
<1>5. buf' \in [0 .. Cap - 1 -> 0 .. MaxRequests]
  BY <1>1, <1>2
<1>6. TypeOK'
  BY <1>1, <1>2, <1>3, <1>5 DEF TypeOK, TaskStates
<1>7. Known' = Known /\ OnItsWay' = OnItsWay /\ Dispatched' = Dispatched
  BY <1>2, StreamKept
<1>8. RequestInv'
  <2>1. task[t].pc \in Unsent /\ task'[t].pc \in Unsent
    BY <1>2, <1>3 DEF Unsent, Holding, Writing
  <2>2. QED BY <1>1, <1>2, <1>3, <2>1, RequestMoved
<1>9. Owing'
  <2>1. /\ \A u \in Tasks : task'[u].req = task[u].req
        /\ \A u \in Tasks : task[u].pc = "ref" => task'[u].pc = "ref"
    BY <1>2, <1>3
  <2>2. QED BY <1>1, <1>2, <2>1, StillLost, OwingKept
<1>10. Intact(task[t].pos, task[t].len, task[t].req)'
  <2>1. Cells(task[t].pos, task[t].len) \subseteq DOMAIN buf
    BY <1>1, <1>4, CellsInside
  <2>2. \A a \in Cells(task[t].pos, task[t].len) : buf'[a] = task[t].req
    BY <1>2, <2>1
  <2>3. QED BY <1>3, <2>2 DEF Intact, Cells, Phys
<1>11. RecordsOk'
  <2>1. SUFFICES ASSUME NEW f \in OnItsWay PROVE RecordOk(f)'
    BY <1>7 DEF RecordsOk
  <2>2. RecordOk(f) /\ f.off \in Nat /\ f.len \in Nat
    BY <1>1, <2>1, StateFacts DEF RecordsOk, OnItsWay, Refs
  <2>3. CASE Past(f) /\ f.req \in Dispatched
    BY <1>2, <1>7, <2>2, <2>3 DEF RecordOk, Past, End, Phys
  <2>4. CASE freed <= f.off /\ Intact(f.off, f.len, f.req)
    <3>1. Phys(f.off) + f.len <= Cap /\ f.off + f.len <= head
      BY <2>2 DEF RecordOk, End
    <3>2. Cells(task[t].pos, task[t].len) \cap Cells(f.off, f.len) = {}
      BY <1>1, <1>4, <2>2, <2>4, <3>1, RecordsApart
    <3>3. Cells(f.off, f.len) \subseteq DOMAIN buf
      BY <1>1, <2>2, <3>1, CellsInside
    <3>4. \A a \in Cells(f.off, f.len) : buf'[a] = f.req
      BY <1>2, <2>4, <3>2, <3>3 DEF Intact
    <3>5. QED BY <1>2, <2>2, <2>4, <3>4 DEF RecordOk, Intact, Cells, Phys, End
  <2>5. QED BY <2>2, <2>3, <2>4 DEF RecordOk
<1>12. ASSUME NEW u \in Tasks PROVE WriterOk(u)'
  <2>1. CASE u = t
    <3>1. task'[t].pc # "ref"
      BY <1>3
    <3>2. QED BY <1>2, <1>3, <1>4, <1>10, <2>1, <3>1 DEF WriterOk, Phys
  <2>2. CASE u # t
    <3>1. task[t].pc \in Holding
      BY <1>2 DEF Holding, Writing
    <3>2. task[u].pc \notin Holding
      BY <1>1, <2>2, <3>1, HoldsAlone
    <3>3. QED BY <1>3, <2>2, <3>2, WriterElsewhere
  <2>3. QED BY <2>1, <2>2
<1>13. InOrder' /\ LastUnsent' /\ SessionOk' /\ RequestIntact'
  BY <1>1, <1>2, OrderKept DEF RequestIntact
<1>14. QED BY <1>6, <1>8, <1>9, <1>11, <1>12, <1>13 DEF IInv

LEMMA PublishStep ==
    ASSUME IInv, OneProducer, NEW t \in Tasks, Publish(t)
    PROVE  IInv'
<1>1. /\ TypeOK /\ RecordsOk /\ InOrder /\ LastUnsent /\ SessionOk
      /\ RequestInv /\ RequestIntact
      /\ \A u \in Tasks : WriterOk(u)
      /\ task[t].len \in Nat /\ task[t].pos \in Nat
      /\ head \in Nat /\ freed \in Nat /\ freed <= head
  BY StateFacts, TaskFacts DEF IInv
<1>2. /\ UNCHANGED <<tail, buf, freed, count, out, wire, served, session>>
      /\ task[t].pc = "publish" /\ Goto(t, "ref")
      /\ head' = task[t].pos + task[t].len
  BY DEF Publish, PublishAt
<1>3. /\ task' \in [Tasks -> TaskStates] /\ \A u \in Tasks \ {t} : task'[u] = task[u]
      /\ task'[t].pc = "ref" /\ task'[t].req = task[t].req
      /\ task'[t].len = task[t].len /\ task'[t].pos = task[t].pos
  <2>1. "ref" \in TaskPc
    BY DEF TaskPc
  <2>2. QED BY <1>1, <1>2, <2>1, WentTo
<1>4. /\ t \in LargeTasks /\ task[t].len > 0 /\ head <= task[t].pos
      /\ task[t].len <= Cap /\ Phys(task[t].pos) + task[t].len <= Cap
      /\ Intact(task[t].pos, task[t].len, task[t].req)
  BY <1>1, <1>2 DEF WriterOk, Holding, Writing
<1>5. head' \in Nat /\ head <= head' /\ freed <= head' /\ freed <= task[t].pos
  BY <1>1, <1>2, <1>4
<1>6. TypeOK'
  <2>1. freed' \in 0 .. head' /\ tail' \in 0 .. freed'
    BY <1>1, <1>2, <1>5 DEF TypeOK
  <2>2. QED BY <1>1, <1>2, <1>3, <1>5, <2>1 DEF TypeOK, TaskStates
<1>7. Known' = Known /\ OnItsWay' = OnItsWay /\ Dispatched' = Dispatched
  BY <1>2, StreamKept
<1>8. RequestInv'
  <2>1. task[t].pc \in Unsent /\ task'[t].pc \in Unsent
    BY <1>2, <1>3 DEF Unsent, Holding, Writing
  <2>2. QED BY <1>1, <1>2, <1>3, <2>1, RequestMoved
<1>9. Owing'
  BY <1>3 DEF Owing
<1>10. ASSUME NEW f \in OnItsWay PROVE RecordOk(f)' /\ End(f) <= task[t].pos
  <2>1. RecordOk(f) /\ End(f) \in Nat
    BY <1>1, <1>10, StateFacts DEF RecordsOk, OnItsWay, Refs
  <2>2. End(f) <= head /\ End(f) <= head' /\ End(f) <= task[t].pos
    BY <1>1, <1>4, <1>5, <2>1 DEF RecordOk
  <2>3. QED BY <1>2, <1>7, <2>1, <2>2 DEF RecordOk, Intact, Cells, Phys, Past, End
<1>11. RecordsOk'
  BY <1>7, <1>10 DEF RecordsOk
<1>12. ASSUME NEW u \in Tasks PROVE WriterOk(u)'
  <2>1. CASE u = t
    <3>1. task'[t].pc \notin Writing /\ task'[t].pc \notin {"copy", "publish"}
      BY <1>3 DEF Writing
    <3>2. Intact(task[t].pos, task[t].len, task[t].req)'
      BY <1>2, <1>3, <1>4 DEF Intact, Cells, Phys
    <3>3. \A f \in OnItsWay' : End(f)' <= task[t].pos
      BY <1>7, <1>10 DEF End
    <3>4. QED BY <1>2, <1>3, <1>4, <1>5, <2>1, <3>1, <3>2, <3>3 DEF WriterOk, Phys
  <2>2. CASE u # t
    <3>1. task[t].pc \in Holding
      BY <1>2 DEF Holding, Writing
    <3>2. task[u].pc \notin Holding
      BY <1>1, <2>2, <3>1, HoldsAlone
    <3>3. QED BY <1>3, <2>2, <3>2, WriterElsewhere
  <2>3. QED BY <2>1, <2>2
<1>13. InOrder' /\ LastUnsent' /\ SessionOk' /\ RequestIntact'
  BY <1>1, <1>2, OrderKept DEF RequestIntact
<1>14. QED BY <1>6, <1>8, <1>9, <1>11, <1>12, <1>13 DEF IInv

\* Under the writer lock the frame becomes the last of the buffer, behind every other
\* reference and new to all.
LEMMA QueueStep ==
    ASSUME IInv, OneProducer, NEW t \in Tasks, Queue(t)
    PROVE  IInv'
<1>1. /\ TypeOK /\ RecordsOk /\ InOrder /\ LastUnsent /\ SessionOk
      /\ RequestInv /\ Owing /\ RequestIntact
      /\ \A u \in Tasks : WriterOk(u) /\ RequestOk(u)
      /\ task[t].len \in Nat /\ task[t].pos \in Nat /\ task[t].req \in 0 .. MaxRequests
      /\ out \in Seq(Frames) /\ wire \in Seq(Frames)
  BY StateFacts, TaskFacts DEF IInv, RequestInv
<1>2. UNCHANGED <<head, tail, buf, freed, count, wire, served, session>> /\ Become(t, "queued")
  BY DEF Queue, ring
<1>3. PICK kind \in {"inline", "ref"} :
          /\ task[t].pc = kind
          /\ out' = Append(out, [req |-> task[t].req, kind |-> kind,
                                 off |-> task[t].pos, len |-> task[t].len])
  BY DEF Queue
<1>4. PICK f \in Frames :
          /\ out' = Append(out, f)
          /\ f.req = task[t].req /\ f.kind = kind
          /\ f.off = task[t].pos /\ f.len = task[t].len
  <2>1. [req |-> task[t].req, kind |-> kind, off |-> task[t].pos, len |-> task[t].len] \in Frames
    BY <1>1, <1>3 DEF Frames
  <2>2. QED BY <1>3, <2>1
<1>5. /\ out' \in Seq(Frames) /\ out' # << >>
      /\ Len(out) \in Nat /\ Len(out') = Len(out) + 1
      /\ DOMAIN out = 1 .. Len(out) /\ DOMAIN out' = 1 .. Len(out) + 1
      /\ \A i \in 1 .. Len(out) : i \in 1 .. Len(out) + 1 /\ out'[i] = out[i]
      /\ \A i \in 1 .. Len(out) + 1 : i \in 1 .. Len(out) \/ i = Len(out) + 1
      /\ out'[Len(out) + 1] = f /\ Len(out) + 1 \in 1 .. Len(out) + 1
      /\ \A i \in 1 .. Len(out) : i < Len(out) + 1 /\ Len(out) + 1 > i
  BY <1>1, <1>4, Appended
<1>6. /\ task' \in [Tasks -> TaskStates] /\ \A u \in Tasks \ {t} : task'[u] = task[u]
      /\ task'[t].pc = "queued" /\ task'[t].req = task[t].req
  <2>1. "queued" \in TaskPc
    BY DEF TaskPc
  <2>2. QED BY <1>1, <1>2, <2>1, BecameOf
<1>7. TypeOK'
  BY <1>1, <1>2, <1>5, <1>6 DEF TypeOK, TaskStates
<1>8. /\ Reqs(wire)' = Reqs(wire) /\ Dispatched' = Dispatched /\ Refs(wire)' = Refs(wire)
      /\ Reqs(out)' \subseteq Reqs(out) \cup {task[t].req}
      /\ Refs(out)' \subseteq Refs(out) \cup {f}
      /\ Refs(out) \subseteq Refs(out)' /\ Reqs(out) \subseteq Reqs(out)'
      /\ kind = "inline" => Refs(out)' = Refs(out)
  <2>1. Reqs(wire)' = Reqs(wire) /\ Dispatched' = Dispatched /\ Refs(wire)' = Refs(wire)
    BY <1>2 DEF Reqs, Dispatched, Refs, IsRef
  <2>2. Reqs(out)' \subseteq Reqs(out) \cup {task[t].req} /\ Reqs(out) \subseteq Reqs(out)'
    BY <1>4, <1>5 DEF Reqs
  <2>3. Refs(out)' \subseteq Refs(out) \cup {f} /\ Refs(out) \subseteq Refs(out)'
    BY <1>5 DEF Refs, IsRef
  <2>4. kind = "inline" => f \notin Refs(out)'
    BY <1>4 DEF Refs, IsRef
  <2>5. QED BY <2>1, <2>2, <2>3, <2>4
<1>9. /\ task[t].pc # "idle" /\ task[t].pc \in Unsent /\ "queued" \notin Unsent
      /\ "queued" \notin Holding /\ "queued" # "idle" /\ task[t].req \notin Known
      /\ task[t].req \in 1 .. count
  BY <1>1, <1>3 DEF Unsent, Holding, Writing, RequestOk
<1>10. Known' \subseteq Known \cup {task[t].req} /\ Known \subseteq Known' /\ task[t].req \in Known'
  <2>1. Known' \subseteq Known \cup {task[t].req} /\ Known \subseteq Known'
    BY <1>8 DEF Known
  <2>2. out'[Len(out) + 1].kind # "torn" /\ out'[Len(out) + 1].req = task[t].req
    BY <1>4, <1>5
  <2>3. task[t].req \in Reqs(out)'
    BY <1>1, <1>5, <2>2 DEF Reqs
  <2>4. QED BY <2>1, <2>3 DEF Known
<1>11. RequestInv'
  <2>1. ASSUME NEW u \in Tasks PROVE RequestOk(u)'
    <3>1. CASE u = t
      BY <1>2, <1>6, <1>9, <3>1 DEF RequestOk
    <3>2. CASE u # t
      <4>1. task[u].pc \in Unsent => task[u].pc # "idle"
        BY DEF Unsent, Holding, Writing
      <4>2. task[u].pc \in Unsent => task[u].req # task[t].req
        BY <1>1, <1>9, <3>2, <4>1 DEF RequestInv, Distinct
      <4>3. QED BY <1>1, <1>2, <1>6, <1>10, <3>2, <4>2 DEF RequestOk
    <3>3. QED BY <3>1, <3>2
  <2>2. Distinct'
    BY <1>1, <1>6, <1>9 DEF RequestInv, Distinct
  <2>3. Known' \subseteq 1 .. count'
    BY <1>1, <1>2, <1>9, <1>10 DEF RequestInv
  <2>4. QED BY <2>1, <2>2, <2>3 DEF RequestInv
<1>12. kind = "ref" => /\ RecordOk(f) /\ End(f) = head
                       /\ \A g \in OnItsWay : End(g) <= f.off
  <2>1. SUFFICES ASSUME kind = "ref"
                 PROVE  /\ RecordOk(f) /\ End(f) = head
                        /\ \A g \in OnItsWay : End(g) <= f.off
    OBVIOUS
  <2>2. /\ Intact(task[t].pos, task[t].len, task[t].req)
        /\ Phys(task[t].pos) + task[t].len <= Cap
        /\ freed <= task[t].pos /\ task[t].pos + task[t].len = head
        /\ \A g \in OnItsWay : End(g) <= task[t].pos
        /\ task[t].len > 0
    BY <1>1, <1>3, <2>1 DEF WriterOk, Holding
  <2>3. head <= head
    BY <1>1, StateFacts
  <2>4. QED BY <1>4, <2>2, <2>3 DEF RecordOk, End
<1>13. RecordsOk'
  <2>1. SUFFICES ASSUME NEW g \in OnItsWay' PROVE RecordOk(g)'
    BY DEF RecordsOk
  <2>2. g \in OnItsWay \/ (g = f /\ kind = "ref")
    <3>1. CASE kind = "inline"
      BY <1>8, <2>1, <3>1 DEF OnItsWay
    <3>2. CASE kind = "ref"
      BY <1>8, <2>1, <3>2 DEF OnItsWay
    <3>3. QED BY <3>1, <3>2
  <2>3. RecordOk(g)
    BY <1>1, <1>12, <2>2 DEF RecordsOk
  <2>4. QED BY <1>2, <1>8, <2>3 DEF RecordOk, Past, End, Intact, Cells, Phys
<1>14. InOrder'
  <2>1. WireInOrder'
    BY <1>1, <1>2 DEF InOrder, WireInOrder
  <2>2. ASSUME NEW i \in DOMAIN wire, NEW j \in DOMAIN out', IsRef(wire[i]), IsRef(out'[j])
        PROVE  Follows(wire, freed, out'[j], i)
    <3>1. CASE j \in 1 .. Len(out)
      BY <1>1, <1>5, <2>2, <3>1 DEF InOrder, OutAfterWire
    <3>2. CASE j = Len(out) + 1
      <4>1. out'[j] = f /\ kind = "ref"
        BY <1>4, <1>5, <2>2, <3>2 DEF IsRef
      <4>2. wire[i] \in OnItsWay
        BY <1>1, <2>2, Membership DEF OnItsWay
      <4>3. QED BY <1>12, <4>1, <4>2 DEF Follows
    <3>3. QED BY <1>5, <2>2, <3>1, <3>2
  <2>3. OutAfterWire'
    BY <1>2, <2>2 DEF OutAfterWire
  <2>4. ASSUME NEW i \in DOMAIN out', NEW j \in DOMAIN out', i < j, IsRef(out'[i]), IsRef(out'[j])
        PROVE  End(out'[i]) <= out'[j].off
    <3>1. i \in 1 .. Len(out)
      BY <1>5, <2>4
    <3>2. CASE j \in 1 .. Len(out)
      BY <1>1, <1>5, <2>4, <3>1, <3>2 DEF InOrder, OutInOrder
    <3>3. CASE j = Len(out) + 1
      <4>1. out'[j] = f /\ kind = "ref" /\ out'[i] = out[i]
        BY <1>4, <1>5, <2>4, <3>1, <3>3 DEF IsRef
      <4>2. out[i] \in OnItsWay
        BY <1>1, <1>5, <2>4, <3>1, <4>1, Membership DEF OnItsWay
      <4>3. QED BY <1>12, <4>1, <4>2
    <3>4. QED BY <1>5, <2>4, <3>2, <3>3
  <2>5. OutInOrder'
    BY <2>4 DEF OutInOrder
  <2>6. QED BY <2>1, <2>3, <2>5 DEF InOrder
<1>15. LastUnsent' /\ SessionOk'
  <2>1. \A i \in DOMAIN out' : out'[i].kind # "torn"
    BY <1>1, <1>4, <1>5 DEF LastUnsent
  <2>2. out'[Len(out')].req \notin (Reqs(wire) \cup Dispatched)'
    BY <1>4, <1>5, <1>8, <1>9 DEF Known
  <2>3. \A i \in DOMAIN out : out[i].req # f.req
    BY <1>1, <1>4, <1>9, Membership DEF LastUnsent, Known
  <2>4. \A i \in DOMAIN out' : i < Len(out') => out'[i].req # out'[Len(out')].req
    BY <1>5, <2>3
  <2>5. SessionOk'
    BY <1>1, <1>2, <1>8 DEF SessionOk, IsRef
  <2>6. QED BY <2>1, <2>2, <2>4, <2>5 DEF LastUnsent
<1>16. Owing'
  <2>1. \A r \in 1 .. count : Lost(r) => Lost(r)'
    BY <1>6, <1>9, <1>10 DEF Lost
  <2>2. CASE kind = "ref"
    <3>1. PICK n \in DOMAIN out' : n = Len(out) + 1 /\ out'[n] = f
      BY <1>5
    <3>2. IsRef(f) /\ End(f) = head' /\ \A j \in DOMAIN out' : ~ (j > n)
      BY <1>2, <1>4, <1>5, <1>12, <2>2, <3>1 DEF IsRef
    <3>3. LastEnds(out, head)'
      BY <3>1, <3>2 DEF LastEnds, IsRef, End
    <3>4. QED BY <3>3 DEF Owing
  <2>3. CASE kind = "inline"
    <3>1. \A i \in DOMAIN out' : IsRef(out'[i]) => i \in DOMAIN out /\ IsRef(out[i]) /\ out'[i] = out[i]
      BY <1>4, <1>5, <2>3 DEF IsRef
    <3>2. NoRefs(out) => NoRefs(out)'
      BY <3>1 DEF NoRefs, IsRef
    <3>3. LastEnds(out, head) => LastEnds(out, head)'
      BY <1>2, <1>5, <3>1 DEF LastEnds, IsRef, End
    <3>4. \A u \in Tasks : task[u].pc = "ref" => task'[u].pc = "ref"
      BY <1>3, <1>6, <2>3
    <3>5. (LastEnds(wire, head) => LastEnds(wire, head)') /\ (NoRefs(wire) => NoRefs(wire)')
      BY <1>2 DEF LastEnds, NoRefs, IsRef, End
    <3>6. QED BY <1>1, <1>2, <2>1, <3>2, <3>3, <3>4, <3>5 DEF Owing
  <2>4. QED BY <2>2, <2>3
<1>17. ASSUME NEW u \in Tasks PROVE WriterOk(u)'
  <2>1. CASE u = t
    BY <1>6, <1>9, <2>1, WriterElsewhere
  <2>2. CASE u # t /\ kind = "ref"
    <3>1. task[t].pc \in Holding
      BY <1>3, <2>2 DEF Holding
    <3>2. task[u].pc \notin Holding
      BY <1>1, <2>2, <3>1, HoldsAlone
    <3>3. QED BY <1>6, <2>2, <3>2, WriterElsewhere
  <2>3. CASE u # t /\ kind = "inline"
    <3>1. OnItsWay' \subseteq OnItsWay
      BY <1>8, <2>3 DEF OnItsWay
    <3>2. QED BY <1>1, <1>2, <1>6, <2>3, <3>1, WriterKept
  <2>4. QED BY <1>3, <2>1, <2>2, <2>3
<1>18. RequestIntact'
  BY <1>1, <1>2 DEF RequestIntact
<1>19. QED BY <1>7, <1>11, <1>13, <1>14, <1>15, <1>16, <1>17, <1>18 DEF IInv

-----------------------------------------------------------------------------
\* Frames into the socket

\* The first frames of the buffer, and perhaps a piece of the next, join the stream.
LEMMA Written ==
    ASSUME TypeOK, NEW k \in 0 .. Len(out), NEW rest \in {<< >>, <<Torn>>},
           wire' = wire \o SubSeq(out, 1, k) \o rest
    PROVE  /\ wire' \in Seq(Frames)
           /\ \A i \in DOMAIN wire : i \in DOMAIN wire' /\ wire'[i] = wire[i]
           /\ \A j \in 1 .. k : /\ j \in DOMAIN out /\ Len(wire) + j \in DOMAIN wire'
                                /\ wire'[Len(wire) + j] = out[j]
           /\ \A i \in DOMAIN wire' :
                 \/ i \in DOMAIN wire
                 \/ \E j \in 1 .. k : i = Len(wire) + j
                 \/ wire'[i].kind = "torn"
<1> DEFINE sent == SubSeq(out, 1, k)
<1>1. /\ wire \in Seq(Frames) /\ DOMAIN wire = 1 .. Len(wire) /\ Len(wire) \in Nat
      /\ out \in Seq(Frames) /\ DOMAIN out = 1 .. Len(out) /\ Len(out) \in Nat
  BY StateFacts
<1>2. /\ sent \in Seq(Frames) /\ Len(sent) = k /\ k \in Nat
      /\ \A j \in 1 .. k : j \in DOMAIN out /\ sent[j] = out[j]
  <2>1. k \in Nat /\ k <= Len(out) /\ \A j \in 1 .. k : j \in DOMAIN out
    BY <1>1
  <2>2. sent = [j \in 1 .. k |-> out[j]]
    BY <1>1, <2>1
  <2>3. \A j \in 1 .. k : out[j] \in Frames
    BY <1>1, <2>1, ElementOfSeq
  <2>4. sent \in Seq(Frames)
    BY <2>1, <2>2, <2>3, SeqDef
  <2>5. DOMAIN sent = 1 .. k
    BY <2>2
  <2>6. Len(sent) = k
    BY <2>1, <2>4, <2>5, LenProperties
  <2>7. QED BY <2>1, <2>2, <2>4, <2>6
<1>3. /\ rest \in Seq(Frames) /\ Len(rest) \in Nat
      /\ \A j \in 1 .. Len(rest) : rest[j].kind = "torn"
  <2>1. Torn \in Frames /\ Torn.kind = "torn"
    BY UplinkAssumption DEF Torn, Frames
  <2>2. CASE rest = << >>
    BY <2>2
  <2>3. CASE rest = <<Torn>>
    BY <2>1, <2>3
  <2>4. QED BY <2>2, <2>3
<1>4. /\ wire \o sent \in Seq(Frames) /\ Len(wire \o sent) = Len(wire) + k
      /\ \A i \in 1 .. Len(wire) : (wire \o sent)[i] = wire[i]
      /\ \A j \in 1 .. k : (wire \o sent)[Len(wire) + j] = out[j]
  <2>1. /\ wire \o sent \in Seq(Frames) /\ Len(wire \o sent) = Len(wire) + k
        /\ \A i \in 1 .. Len(wire) + k : (wire \o sent)[i] = IF i <= Len(wire) THEN wire[i]
                                                             ELSE sent[i - Len(wire)]
    BY <1>1, <1>2, ConcatProperties
  <2>2. \A i \in 1 .. Len(wire) : i \in 1 .. Len(wire) + k /\ i <= Len(wire)
    BY <1>1, <1>2
  <2>3. \A j \in 1 .. k : /\ Len(wire) + j \in 1 .. Len(wire) + k /\ ~ (Len(wire) + j <= Len(wire))
                          /\ (Len(wire) + j) - Len(wire) = j
    BY <1>1, <1>2
  <2>4. QED BY <1>2, <2>1, <2>2, <2>3
<1>5. /\ wire' \in Seq(Frames) /\ Len(wire') = Len(wire) + k + Len(rest)
      /\ \A i \in 1 .. Len(wire) + k : wire'[i] = (wire \o sent)[i]
      /\ \A i \in 1 .. Len(wire) + k + Len(rest) : ~ (i <= Len(wire) + k) =>
            wire'[i] = rest[i - (Len(wire) + k)]
  <2> DEFINE first == wire \o sent
  <2>0. first \in Seq(Frames) /\ Len(first) = Len(wire) + k /\ wire' = first \o rest
    BY <1>4
  <2>1. /\ wire' \in Seq(Frames) /\ Len(wire') = Len(wire) + k + Len(rest)
        /\ \A i \in 1 .. Len(wire) + k + Len(rest) :
              wire'[i] = IF i <= Len(wire) + k THEN first[i] ELSE rest[i - (Len(wire) + k)]
    <3> HIDE DEF first
    <3>1. /\ first \o rest \in Seq(Frames) /\ Len(first \o rest) = Len(first) + Len(rest)
          /\ \A i \in 1 .. Len(first) + Len(rest) :
                (first \o rest)[i] = IF i <= Len(first) THEN first[i] ELSE rest[i - Len(first)]
      BY <1>3, <2>0, ConcatProperties, Zenon
    <3>2. QED BY <2>0, <3>1
  <2>2. \A i \in 1 .. Len(wire) + k : i \in 1 .. Len(wire) + k + Len(rest) /\ i <= Len(wire) + k
    BY <1>1, <1>2, <1>3
  <2>3. QED BY <2>1, <2>2
<1>6. DOMAIN wire' = 1 .. Len(wire) + k + Len(rest)
  BY <1>5, LenProperties
<1>7. \A i \in 1 .. Len(wire) : i \in 1 .. Len(wire) + k /\ i \in DOMAIN wire'
  BY <1>1, <1>2, <1>3, <1>6
<1>8. \A j \in 1 .. k : Len(wire) + j \in 1 .. Len(wire) + k /\ Len(wire) + j \in DOMAIN wire'
  BY <1>1, <1>2, <1>3, <1>6
<1>9. ASSUME NEW i \in DOMAIN wire', i \notin DOMAIN wire, ~ \E j \in 1 .. k : i = Len(wire) + j
      PROVE  wire'[i].kind = "torn"
  <2>1. /\ ~ (i <= Len(wire) + k) /\ i - (Len(wire) + k) \in 1 .. Len(rest)
        /\ i \in 1 .. Len(wire) + k + Len(rest)
    <3>1. i \in 1 .. Len(wire) + k + Len(rest) /\ i > Len(wire)
      BY <1>1, <1>2, <1>3, <1>6, <1>9
    <3>2. i - Len(wire) \in Nat \ {0} /\ i = Len(wire) + (i - Len(wire))
      BY <1>1, <3>1
    <3>3. ~ (i - Len(wire) <= k)
      BY <1>2, <1>9, <3>2
    <3>4. QED BY <1>1, <1>2, <1>3, <3>1, <3>3
  <2>2. QED BY <1>3, <1>5, <2>1
<1>10. QED BY <1>1, <1>2, <1>4, <1>5, <1>7, <1>8, <1>9

\* Whether the buffer is then cleared or kept: order, records and requests stay sound.
LEMMA WrittenKeeps ==
    ASSUME IInv, NEW k \in 0 .. Len(out), NEW rest \in {<< >>, <<Torn>>},
           wire' = wire \o SubSeq(out, 1, k) \o rest,
           (out' = out /\ k < Len(out)) \/ out' = << >>,
           UNCHANGED <<head, freed, buf, served, session>>
    PROVE  /\ OnItsWay' \subseteq OnItsWay /\ Known' \subseteq Known
           /\ InOrder' /\ RecordsOk' /\ LastUnsent' /\ SessionOk'
<1>1. /\ TypeOK /\ RecordsOk /\ InOrder /\ LastUnsent /\ SessionOk
      /\ wire \in Seq(Frames) /\ DOMAIN wire = 1 .. Len(wire) /\ Len(wire) \in Nat
      /\ out \in Seq(Frames) /\ DOMAIN out = 1 .. Len(out) /\ Len(out) \in Nat
      /\ k \in Nat
  BY StateFacts DEF IInv
<1>2. /\ wire' \in Seq(Frames)
      /\ \A i \in DOMAIN wire : i \in DOMAIN wire' /\ wire'[i] = wire[i]
      /\ \A j \in 1 .. k : /\ j \in DOMAIN out /\ Len(wire) + j \in DOMAIN wire'
                           /\ wire'[Len(wire) + j] = out[j]
      /\ \A i \in DOMAIN wire' : \/ i \in DOMAIN wire
                                 \/ \E j \in 1 .. k : i = Len(wire) + j
                                 \/ wire'[i].kind = "torn"
  BY <1>1, Written
<1>3. Dispatched' = Dispatched
  BY DEF Dispatched
<1>4. Refs(wire)' \subseteq OnItsWay /\ Reqs(wire)' \subseteq Reqs(wire) \cup Reqs(out)
  <2>1. ASSUME NEW f \in Refs(wire)' PROVE f \in OnItsWay
    <3>1. PICK i \in DOMAIN wire' : wire'[i] = f /\ IsRef(f) /\ f \in Frames
      BY <2>1 DEF Refs, IsRef
    <3>2. i \in DOMAIN wire \/ \E j \in 1 .. k : i = Len(wire) + j
      BY <1>2, <3>1 DEF IsRef
    <3>3. QED BY <1>1, <1>2, <3>1, <3>2, Membership DEF OnItsWay
  <2>2. ASSUME NEW r \in Reqs(wire)' PROVE r \in Reqs(wire) \cup Reqs(out)
    <3>1. PICK i \in DOMAIN wire' : wire'[i].kind # "torn" /\ wire'[i].req = r
      BY <2>2 DEF Reqs
    <3>2. i \in DOMAIN wire \/ \E j \in 1 .. k : i = Len(wire) + j
      BY <1>2, <3>1
    <3>3. QED BY <1>1, <1>2, <3>1, <3>2, Membership
  <2>3. QED BY <2>1, <2>2
<1>5. Refs(out)' \subseteq Refs(out) /\ Reqs(out)' \subseteq Reqs(out)
  BY DEF Refs, Reqs, IsRef
<1>6. OnItsWay' \subseteq OnItsWay /\ Known' \subseteq Known
  BY <1>3, <1>4, <1>5 DEF OnItsWay, Known
<1>7. RecordsOk'
  BY <1>1, <1>3, <1>6, RecordsKept
<1>8. ASSUME NEW f, NEW i \in DOMAIN wire, Follows(wire, freed, f, i) PROVE Follows(wire', freed, f, i)
  BY <1>2, <1>8 DEF Follows
<1>9. ASSUME NEW i \in DOMAIN wire', NEW f, IsRef(wire'[i]), IsRef(f),
             NEW m \in DOMAIN out, f = out[m],
             i \in DOMAIN wire \/ i < Len(wire) + m \/ m <= k
      PROVE  Follows(wire', freed, f, i)
  <2>1. CASE i \in DOMAIN wire
    BY <1>1, <1>2, <1>8, <1>9, <2>1 DEF InOrder, OutAfterWire
  <2>2. CASE i \notin DOMAIN wire
    <3>1. PICK j \in 1 .. k : i = Len(wire) + j /\ wire'[i] = out[j] /\ j \in DOMAIN out
      BY <1>2, <1>9, <2>2 DEF IsRef
    <3>2. CASE j < m
      <4>1. End(wire'[i]) <= f.off
        BY <1>1, <1>9, <3>1, <3>2 DEF InOrder, OutInOrder
      <4>2. QED BY <4>1 DEF Follows
    <3>3. CASE ~ (j < m)
      <4>1. m \in 1 .. k /\ Len(wire) + m <= i
        BY <1>1, <1>9, <3>1, <3>3
      <4>2. Len(wire) + m \in DOMAIN wire' /\ wire'[Len(wire) + m] = f
        BY <1>2, <1>9, <4>1
      <4>3. QED BY <4>1, <4>2 DEF Follows
    <3>4. QED BY <3>2, <3>3
  <2>3. QED BY <2>1, <2>2
<1>10. WireInOrder'
  <2>1. SUFFICES ASSUME NEW i \in DOMAIN wire', NEW j \in DOMAIN wire', i < j,
                        IsRef(wire'[i]), NEW f, f = wire'[j], IsRef(f)
                 PROVE  Follows(wire', freed, f, i)
    BY DEF WireInOrder
  <2>2. CASE j \in DOMAIN wire
    <3>1. i \in DOMAIN wire /\ wire'[j] = wire[j] /\ wire'[i] = wire[i]
      <4>1. DOMAIN wire' = 1 .. Len(wire')
        BY <1>2, LenProperties
      <4>2. i \in DOMAIN wire
        BY <1>1, <2>1, <2>2, <4>1
      <4>3. QED BY <1>2, <2>2, <4>2
    <3>2. Follows(wire, freed, wire[j], i)
      BY <1>1, <2>1, <2>2, <3>1 DEF InOrder, WireInOrder
    <3>3. QED BY <1>8, <2>1, <3>1, <3>2
  <2>3. CASE j \notin DOMAIN wire
    <3>1. PICK m \in 1 .. k : j = Len(wire) + m /\ wire'[j] = out[m] /\ m \in DOMAIN out
      BY <1>2, <2>1, <2>3 DEF IsRef
    <3>2. i < Len(wire) + m
      BY <2>1, <3>1
    <3>3. QED BY <1>9, <2>1, <3>1, <3>2
  <2>4. QED BY <2>2, <2>3
<1>11. OutAfterWire' /\ OutInOrder'
  <2>1. CASE out' = << >>
    BY <2>1 DEF OutAfterWire, OutInOrder
  <2>2. CASE out' = out
    <3>1. ASSUME NEW i \in DOMAIN wire', NEW m \in DOMAIN out, IsRef(wire'[i]),
                 NEW f, f = out[m], IsRef(f)
          PROVE  Follows(wire', freed, f, i)
      <4>1. i \in DOMAIN wire \/ i < Len(wire) + m \/ m <= k
        <5>1. CASE i \in DOMAIN wire
          BY <5>1
        <5>2. CASE i \notin DOMAIN wire
          <6>1. PICK j \in 1 .. k : i = Len(wire) + j
            BY <1>2, <3>1, <5>2 DEF IsRef
          <6>2. QED BY <1>1, <3>1, <6>1
        <5>3. QED BY <5>1, <5>2
      <4>2. QED BY <1>9, <3>1, <4>1
    <3>2. QED BY <1>1, <2>2, <3>1 DEF OutAfterWire, OutInOrder, InOrder
  <2>3. QED BY <2>1, <2>2
<1>12. LastUnsent'
  <2>1. CASE out' = << >>
    BY <2>1 DEF LastUnsent
  <2>2. CASE out' = out /\ k < Len(out)
    <3>1. out # << >>
      BY <1>1, <2>2
    <3>2. /\ out[Len(out)].req \notin Reqs(wire) \cup Dispatched
          /\ \A i \in DOMAIN out : i < Len(out) => out[i].req # out[Len(out)].req
          /\ \A i \in DOMAIN out : out[i].kind # "torn"
      BY <1>1, <3>1 DEF LastUnsent
    <3>3. out[Len(out)].req \notin Reqs(wire)'
      <4>1. SUFFICES ASSUME NEW i \in DOMAIN wire', wire'[i].kind # "torn",
                            wire'[i].req = out[Len(out)].req
                     PROVE  FALSE
        BY DEF Reqs
      <4>2. CASE i \in DOMAIN wire
        BY <1>1, <1>2, <3>2, <4>1, <4>2, Membership
      <4>3. CASE i \notin DOMAIN wire
        <5>1. PICK j \in 1 .. k : wire'[i] = out[j] /\ j \in DOMAIN out
          BY <1>2, <4>1, <4>3
        <5>2. j < Len(out)
          BY <1>1, <2>2, <5>1
        <5>3. QED BY <3>2, <4>1, <5>1, <5>2
      <4>4. QED BY <4>2, <4>3
    <3>4. QED BY <1>3, <2>2, <3>2, <3>3 DEF LastUnsent
  <2>3. QED BY <2>1, <2>2
<1>13. SessionOk'
  <2>1. SUFFICES ASSUME session = "release"
                 PROVE  wire' # << >> /\ IsRef(wire'[1]) /\ wire'[1].req \in Dispatched'
    BY <1>1 DEF SessionOk, IsRef
  <2>2. wire # << >> /\ IsRef(wire[1]) /\ wire[1].req \in Dispatched
    BY <1>1, <2>1 DEF SessionOk
  <2>3. 1 \in DOMAIN wire
    BY <1>1, <2>2, Shortened
  <2>4. 1 \in DOMAIN wire' /\ wire'[1] = wire[1]
    BY <1>2, <2>3
  <2>5. QED BY <1>3, <2>2, <2>4 DEF IsRef
<1>14. QED BY <1>6, <1>7, <1>10, <1>11, <1>12, <1>13 DEF InOrder

\* write_all wrote everything: the last reference of the buffer is the last on the wire.
LEMMA FlushStep ==
    ASSUME IInv, NEW t \in Tasks, Flush(t)
    PROVE  IInv'
<1>1. /\ TypeOK /\ RequestInv /\ Owing /\ RequestIntact
      /\ \A u \in Tasks : WriterOk(u) /\ RequestOk(u)
      /\ wire \in Seq(Frames) /\ DOMAIN wire = 1 .. Len(wire) /\ Len(wire) \in Nat
      /\ out \in Seq(Frames) /\ DOMAIN out = 1 .. Len(out) /\ Len(out) \in Nat
  BY StateFacts DEF IInv, RequestInv
<1>2. /\ UNCHANGED <<head, tail, buf, freed, count, served, session>>
      /\ task[t].pc = "queued" /\ Become(t, "wait")
      /\ wire' = wire \o out /\ out' = << >>
  BY DEF Flush, ring
<1>3. Len(out) \in 0 .. Len(out) /\ << >> \in {<< >>, <<Torn>>}
  BY <1>1
<1>4. wire' = wire \o SubSeq(out, 1, Len(out)) \o << >>
  <2>1. SubSeq(out, 1, Len(out)) = out
    BY <1>1
  <2>2. wire \o out \in Seq(Frames)
    BY <1>1, ConcatProperties
  <2>3. (wire \o out) \o << >> = wire \o out
    BY <2>2, ConcatEmptySeq
  <2>4. QED BY <1>2, <2>1, <2>3
<1>5. /\ OnItsWay' \subseteq OnItsWay /\ Known' \subseteq Known
      /\ InOrder' /\ RecordsOk' /\ LastUnsent' /\ SessionOk'
  BY <1>2, <1>3, <1>4, WrittenKeeps
<1>6. /\ wire' \in Seq(Frames)
      /\ \A i \in DOMAIN wire : i \in DOMAIN wire' /\ wire'[i] = wire[i]
      /\ \A j \in 1 .. Len(out) : /\ j \in DOMAIN out /\ Len(wire) + j \in DOMAIN wire'
                                  /\ wire'[Len(wire) + j] = out[j]
      /\ \A i \in DOMAIN wire' : \/ i \in DOMAIN wire
                                 \/ \E j \in 1 .. Len(out) : i = Len(wire) + j
                                 \/ wire'[i].kind = "torn"
  BY <1>1, <1>3, <1>4, Written
<1>7. /\ task' \in [Tasks -> TaskStates] /\ \A u \in Tasks \ {t} : task'[u] = task[u]
      /\ task'[t].pc = "wait" /\ task'[t].req = task[t].req
  <2>1. "wait" \in TaskPc
    BY DEF TaskPc
  <2>2. QED BY <1>1, <1>2, <2>1, BecameOf
<1>8. TypeOK'
  <2>1. << >> \in Seq(Frames)
    OBVIOUS
  <2>2. QED BY <1>1, <1>2, <1>6, <1>7, <2>1 DEF TypeOK, TaskStates
<1>9. RequestInv' /\ \A r \in 1 .. count : Lost(r) => Lost(r)'
  <2>1. "wait" \notin Unsent \cup {"idle"} /\ task[t].pc # "idle"
    BY <1>2 DEF Unsent, Holding, Writing
  <2>2. QED BY <1>1, <1>2, <1>5, <1>7, <2>1, Settled
<1>10. Owing'
  <2>1. ASSUME NEW u \in Tasks, task[u].pc = "ref" PROVE Owing'
    BY <1>2, <1>7, <2>1 DEF Owing
  <2>2. NoRefs(out)'
    BY <1>2 DEF NoRefs
  <2>3. ASSUME LastEnds(out, head) PROVE Owing'
    <3>1. PICK m \in DOMAIN out : /\ IsRef(out[m]) /\ End(out[m]) = head
                                  /\ \A j \in DOMAIN out : j > m => ~ IsRef(out[j])
      BY <2>3 DEF LastEnds
    <3>2. Len(wire) + m \in DOMAIN wire' /\ wire'[Len(wire) + m] = out[m]
      BY <1>1, <1>6
    <3>3. ASSUME NEW i \in DOMAIN wire', i > Len(wire) + m PROVE ~ IsRef(wire'[i])
      <4>1. i \notin DOMAIN wire
        BY <1>1, <3>3
      <4>2. CASE wire'[i].kind = "torn"
        BY <4>2 DEF IsRef
      <4>3. CASE \E j \in 1 .. Len(out) : i = Len(wire) + j
        <5>1. PICK j \in DOMAIN out : i = Len(wire) + j /\ wire'[i] = out[j]
          BY <1>6, <4>3
        <5>2. j > m
          BY <1>1, <3>3, <5>1
        <5>3. QED BY <3>1, <5>1, <5>2
      <4>4. QED BY <1>6, <4>1, <4>2, <4>3
    <3>4. LastEnds(wire', head)
      BY <3>1, <3>2, <3>3 DEF LastEnds
    <3>5. QED BY <1>2, <2>2, <3>4 DEF Owing
  <2>4. ASSUME NoRefs(out), NEW i \in DOMAIN wire', IsRef(wire'[i])
        PROVE  i \in DOMAIN wire /\ wire'[i] = wire[i]
    BY <1>6, <2>4 DEF NoRefs, IsRef
  <2>5. NoRefs(out) /\ LastEnds(wire, head) => LastEnds(wire', head)
    BY <1>6, <2>4 DEF LastEnds
  <2>6. NoRefs(out) /\ NoRefs(wire) => NoRefs(wire')
    BY <2>4 DEF NoRefs
  <2>7. QED BY <1>1, <1>2, <1>9, <2>1, <2>2, <2>3, <2>5, <2>6 DEF Owing
<1>11. ASSUME NEW u \in Tasks PROVE WriterOk(u)'
  <2>1. CASE u = t
    BY <1>7, <2>1, WriterElsewhere DEF Holding, Writing
  <2>2. CASE u # t
    BY <1>1, <1>2, <1>5, <1>7, <2>2, WriterKept
  <2>3. QED BY <2>1, <2>2
<1>12. RequestIntact'
  BY <1>1, <1>2 DEF RequestIntact
<1>13. QED BY <1>5, <1>8, <1>9, <1>10, <1>11, <1>12 DEF IInv

\* A task that is given up holds no part of the ring, or loses a request for good.
LEMMA GivenUp ==
    ASSUME IInv, NEW t \in Tasks, Done(t), UNCHANGED <<head, tail, buf, freed, count>>,
           OnItsWay' \subseteq OnItsWay, Known' \subseteq Known
    PROVE  /\ RequestInv' /\ task' \in [Tasks -> TaskStates]
           /\ \A u \in Tasks : WriterOk(u)'
           /\ \A r \in 1 .. count : Lost(r) => Lost(r)'
           /\ (\E u \in Tasks : task[u].pc = "ref") => Owing'
<1>1. /\ TypeOK /\ RequestInv
      /\ \A u \in Tasks : WriterOk(u) /\ RequestOk(u)
  BY DEF IInv, RequestInv
<1>2. /\ task' \in [Tasks -> TaskStates] /\ task'[t] = NoRequest
      /\ \A u \in Tasks \ {t} : task'[u] = task[u]
  BY <1>1, DoneWith
<1>3. RequestInv' /\ \A r \in 1 .. count : Lost(r) => Lost(r)'
  BY <1>1, <1>2, Settled
<1>4. NoRequest.pc \notin Holding /\ NoRequest.req = 0
  BY DEF NoRequest, At, Holding, Writing
<1>5. ASSUME NEW u \in Tasks PROVE WriterOk(u)'
  <2>1. CASE u = t
    BY <1>2, <1>4, <2>1, WriterElsewhere
  <2>2. CASE u # t
    BY <1>1, <1>2, <2>2, WriterKept
  <2>3. QED BY <2>1, <2>2
<1>6. ASSUME NEW u \in Tasks, task[u].pc = "ref" PROVE Owing'
  <2>1. CASE u # t
    BY <1>2, <1>6, <2>1 DEF Owing
  <2>2. CASE u = t
    <3>1. PICK r \in 1 .. count : r = task[t].req
      BY <1>1, <1>6, <2>2 DEF RequestOk
    <3>2. "ref" \in Unsent /\ r # 0
      BY <1>1, StateFacts DEF Unsent, Holding
    <3>3. r \notin Known
      BY <1>1, <1>6, <2>2, <3>1, <3>2 DEF RequestOk
    <3>4. ASSUME NEW v \in Tasks PROVE task'[v].req # r
      <4>1. CASE v = t
        BY <1>2, <1>4, <3>2, <4>1
      <4>2. CASE v # t /\ task[v].pc = "idle"
        BY <1>1, <1>2, <1>4, <3>2, <4>2 DEF RequestOk
      <4>3. CASE v # t /\ task[v].pc # "idle"
        BY <1>1, <1>2, <1>6, <2>2, <3>1, <4>3 DEF RequestInv, Distinct
      <4>4. QED BY <4>1, <4>2, <4>3
    <3>5. Lost(r)' /\ r \in 1 .. count'
      BY <3>3, <3>4 DEF Lost
    <3>6. QED BY <3>5 DEF Owing
  <2>3. QED BY <2>1, <2>2
<1>7. QED BY <1>2, <1>3, <1>5, <1>6

\* The future is dropped inside write_all: the buffer stays, and what it holds last is
\* still to come.
LEMMA FlushDroppedStep ==
    ASSUME IInv, NEW t \in Tasks, NEW k \in 0 .. Len(out), NEW rest \in {<< >>, <<Torn>>},
           FlushDropped(t, k, rest)
    PROVE  IInv'
<1>1. /\ TypeOK /\ Owing /\ RequestIntact /\ Len(out) \in Nat
  BY StateFacts DEF IInv
<1>2. /\ UNCHANGED <<head, tail, buf, freed, count, out, served, session>>
      /\ Done(t) /\ k < Len(out)
      /\ wire' = wire \o SubSeq(out, 1, k) \o rest
  BY DEF FlushDropped, ring
<1>3. /\ OnItsWay' \subseteq OnItsWay /\ Known' \subseteq Known
      /\ InOrder' /\ RecordsOk' /\ LastUnsent' /\ SessionOk'
  BY <1>2, WrittenKeeps
<1>4. /\ wire' \in Seq(Frames)
      /\ \A i \in DOMAIN wire : i \in DOMAIN wire' /\ wire'[i] = wire[i]
      /\ \A j \in 1 .. k : /\ j \in DOMAIN out /\ Len(wire) + j \in DOMAIN wire'
                           /\ wire'[Len(wire) + j] = out[j]
      /\ \A i \in DOMAIN wire' : \/ i \in DOMAIN wire
                                 \/ \E j \in 1 .. k : i = Len(wire) + j
                                 \/ wire'[i].kind = "torn"
  BY <1>1, <1>2, Written
<1>5. /\ RequestInv' /\ task' \in [Tasks -> TaskStates]
      /\ \A u \in Tasks : WriterOk(u)'
      /\ \A r \in 1 .. count : Lost(r) => Lost(r)'
      /\ (\E u \in Tasks : task[u].pc = "ref") => Owing'
  BY <1>2, <1>3, GivenUp
<1>6. TypeOK'
  BY <1>1, <1>2, <1>4, <1>5 DEF TypeOK, TaskStates
<1>7. Owing'
  <2>1. LastEnds(out, head) => LastEnds(out, head)'
    BY <1>2 DEF LastEnds
  <2>2. NoRefs(out) => NoRefs(out)'
    BY <1>2 DEF NoRefs
  <2>3. ASSUME NoRefs(out), NEW i \in DOMAIN wire', IsRef(wire'[i])
        PROVE  i \in DOMAIN wire /\ wire'[i] = wire[i]
    BY <1>4, <2>3 DEF NoRefs, IsRef
  <2>4. NoRefs(out) /\ LastEnds(wire, head) => LastEnds(wire', head)
    BY <1>4, <2>3 DEF LastEnds
  <2>5. NoRefs(out) /\ NoRefs(wire) => NoRefs(wire')
    BY <2>3 DEF NoRefs
  <2>6. QED BY <1>1, <1>2, <1>5, <2>1, <2>2, <2>4, <2>5 DEF Owing
<1>8. RequestIntact'
  BY <1>1, <1>2 DEF RequestIntact
<1>9. QED BY <1>3, <1>5, <1>6, <1>7, <1>8 DEF IInv

\* Dropped at another await, or answered.
LEMMA LeaveStep ==
    ASSUME IInv, NEW t \in Tasks, Drop(t) \/ Receive(t)
    PROVE  IInv'
<1>1. /\ TypeOK /\ RecordsOk /\ InOrder /\ LastUnsent /\ SessionOk /\ Owing /\ RequestIntact
  BY DEF IInv
<1>2. UNCHANGED <<head, tail, buf, freed, count, out, wire, served, session>> /\ Done(t)
  BY DEF Drop, Receive, ring
<1>3. Known' = Known /\ OnItsWay' = OnItsWay /\ Dispatched' = Dispatched
  BY <1>2, StreamKept
<1>4. /\ RequestInv' /\ task' \in [Tasks -> TaskStates]
      /\ \A u \in Tasks : WriterOk(u)'
      /\ \A r \in 1 .. count : Lost(r) => Lost(r)'
      /\ (\E u \in Tasks : task[u].pc = "ref") => Owing'
  BY <1>2, <1>3, GivenUp
<1>5. TypeOK'
  BY <1>1, <1>2, <1>4 DEF TypeOK, TaskStates
<1>6. Owing'
  BY <1>1, <1>2, <1>4 DEF Owing, LastEnds, NoRefs
<1>7. RecordsOk' /\ InOrder' /\ LastUnsent' /\ SessionOk' /\ RequestIntact'
  BY <1>1, <1>2, <1>3, RecordsKept, OrderKept DEF RequestIntact
<1>8. QED BY <1>4, <1>5, <1>6, <1>7 DEF IInv

-----------------------------------------------------------------------------
\* The session task

\* The frame at the head of the stream leaves it.
LEMMA WireShortened ==
    ASSUME TypeOK, wire # << >>, wire' = Tail(wire)
    PROVE  /\ wire' \in Seq(Frames) /\ 1 \in DOMAIN wire
           /\ \A i \in DOMAIN wire' : i \in Nat /\ i > 0 /\ i + 1 \in DOMAIN wire /\ wire'[i] = wire[i + 1]
           /\ \A i \in DOMAIN wire : i = 1 \/ (i - 1 \in DOMAIN wire' /\ wire'[i - 1] = wire[i])
           /\ Refs(wire)' \subseteq Refs(wire) /\ Reqs(wire)' \subseteq Reqs(wire)
<1>1. wire \in Seq(Frames)
  BY DEF TypeOK
<1>2. /\ wire' \in Seq(Frames) /\ 1 \in DOMAIN wire
      /\ \A i \in DOMAIN wire' : i \in Nat /\ i > 0 /\ i + 1 \in DOMAIN wire /\ wire'[i] = wire[i + 1]
      /\ \A i \in DOMAIN wire : i = 1 \/ (i - 1 \in DOMAIN wire' /\ wire'[i - 1] = wire[i])
  BY <1>1, Shortened
<1>3. Refs(wire)' \subseteq Refs(wire) /\ Reqs(wire)' \subseteq Reqs(wire)
  BY <1>2 DEF Refs, Reqs, IsRef
<1>4. QED BY <1>2, <1>3

\* Its references follow each other as before: the one that left is no witness to them,
\* or what they waited for has been given back.
LEMMA OrderShortened ==
    ASSUME IInv, wire # << >>, wire' = Tail(wire), UNCHANGED out,
           freed' \in Nat, freed <= freed',
           IsRef(wire[1]) => End(wire[1]) <= freed'
    PROVE  InOrder'
<1>1. /\ TypeOK /\ InOrder /\ freed \in Nat
      /\ \A i \in DOMAIN wire : wire[i] \in Frames
      /\ \A f \in Frames : f.off \in Nat /\ f.len \in Nat /\ End(f) \in Nat
  BY StateFacts DEF IInv
<1>2. /\ 1 \in DOMAIN wire
      /\ \A i \in DOMAIN wire' : i \in Nat /\ i > 0 /\ i + 1 \in DOMAIN wire /\ wire'[i] = wire[i + 1]
      /\ \A i \in DOMAIN wire : i = 1 \/ (i - 1 \in DOMAIN wire' /\ wire'[i - 1] = wire[i])
      /\ \A i \in DOMAIN wire : i \in Nat
  <2>1. \A i \in DOMAIN wire : i \in Nat
    BY <1>1 DEF TypeOK
  <2>2. QED BY <1>1, <2>1, WireShortened
<1>3. ASSUME NEW f \in Frames, IsRef(f), NEW i \in DOMAIN wire', Follows(wire, freed, f, i + 1)
      PROVE  Follows(wire', freed', f, i)
  <2>1. CASE End(wire[i + 1]) <= f.off
    BY <1>2, <2>1 DEF Follows
  <2>2. CASE End(f) <= freed
    <3>1. End(f) <= freed'
      BY <1>1, <2>2
    <3>2. QED BY <3>1 DEF Follows
  <2>3. CASE \E k \in DOMAIN wire : k <= i + 1 /\ wire[k] = f
    <3>1. PICK k \in DOMAIN wire : k <= i + 1 /\ wire[k] = f
      BY <2>3
    <3>2. CASE k = 1
      BY <1>3, <3>1, <3>2 DEF Follows
    <3>3. CASE k # 1
      <4>1. k - 1 \in DOMAIN wire' /\ wire'[k - 1] = f /\ k - 1 <= i
        BY <1>2, <3>1, <3>3
      <4>2. QED BY <4>1 DEF Follows
    <3>4. QED BY <3>2, <3>3
  <2>4. QED BY <1>3, <2>1, <2>2, <2>3 DEF Follows
<1>4. WireInOrder'
  <2>1. SUFFICES ASSUME NEW i \in DOMAIN wire', NEW j \in DOMAIN wire', i < j,
                        IsRef(wire'[i]), NEW f, f = wire'[j], IsRef(f)
                 PROVE  Follows(wire', freed', f, i)
    BY DEF WireInOrder
  <2>2. /\ i + 1 \in DOMAIN wire /\ j + 1 \in DOMAIN wire /\ i + 1 < j + 1
        /\ wire[i + 1] = wire'[i] /\ wire[j + 1] = f /\ f \in Frames
    BY <1>1, <1>2, <2>1
  <2>3. Follows(wire, freed, f, i + 1)
    BY <1>1, <2>1, <2>2 DEF InOrder, WireInOrder
  <2>4. QED BY <1>3, <2>1, <2>2, <2>3
<1>5. OutAfterWire'
  <2>1. SUFFICES ASSUME NEW i \in DOMAIN wire', NEW j \in DOMAIN out,
                        IsRef(wire'[i]), NEW f, f = out[j], IsRef(f)
                 PROVE  Follows(wire', freed', f, i)
    BY DEF OutAfterWire
  <2>2. i + 1 \in DOMAIN wire /\ wire[i + 1] = wire'[i] /\ f \in Frames
    BY <1>1, <1>2, <2>1, StateFacts
  <2>3. Follows(wire, freed, f, i + 1)
    BY <1>1, <2>1, <2>2 DEF InOrder, OutAfterWire
  <2>4. QED BY <1>3, <2>1, <2>2, <2>3
<1>6. OutInOrder'
  BY <1>1 DEF InOrder, OutInOrder
<1>7. QED BY <1>4, <1>5, <1>6 DEF InOrder

\* A request's first dispatch is recorded, whatever frame brings it.
LEMMA DispatchedMore ==
    ASSUME TypeOK, RequestIntact, NEW f \in Frames, NEW data, Dispatch(f, data),
           f.req \notin Dispatched => data = {f.req}
    PROVE  /\ served' \subseteq Dispatches /\ RequestIntact'
           /\ Dispatched' = Dispatched \cup {f.req}
<1>1. f.req \in 0 .. MaxRequests /\ served \subseteq Dispatches
  BY StateFacts DEF TypeOK, Dispatches
<1>2. CASE f.req \in Dispatched
  BY <1>1, <1>2 DEF Dispatch, Dispatched, RequestIntact
<1>3. CASE f.req \notin Dispatched
  <2>1. PICK d \in Dispatches : d = [req |-> f.req, data |-> {f.req}] /\ d.req = f.req /\ d.data = {d.req}
    <3>1. [req |-> f.req, data |-> {f.req}] \in Dispatches
      BY <1>1 DEF Dispatches
    <3>2. QED BY <3>1
  <2>2. served' = served \cup {d}
    BY <1>3, <2>1 DEF Dispatch
  <2>3. QED BY <1>1, <2>1, <2>2 DEF Dispatched, RequestIntact
<1>4. QED BY <1>2, <1>3

LEMMA TakeInlineStep ==
    ASSUME IInv, TakeInline
    PROVE  IInv'
<1>1. /\ TypeOK /\ RecordsOk /\ InOrder /\ LastUnsent /\ SessionOk
      /\ RequestInv /\ Owing /\ RequestIntact
      /\ \A u \in Tasks : WriterOk(u)
      /\ head \in Nat /\ freed \in Nat /\ wire \in Seq(Frames)
  BY StateFacts DEF IInv
<1>2. /\ UNCHANGED <<head, tail, buf, freed, task, count, out, session>>
      /\ session = "read" /\ wire # << >> /\ Head(wire).kind = "inline"
      /\ Dispatch(Head(wire), {Head(wire).req}) /\ wire' = Tail(wire)
  BY DEF TakeInline, ring
<1>3. /\ wire' \in Seq(Frames) /\ 1 \in DOMAIN wire
      /\ \A i \in DOMAIN wire' : i \in Nat /\ i > 0 /\ i + 1 \in DOMAIN wire /\ wire'[i] = wire[i + 1]
      /\ \A i \in DOMAIN wire : i = 1 \/ (i - 1 \in DOMAIN wire' /\ wire'[i - 1] = wire[i])
      /\ Refs(wire)' \subseteq Refs(wire) /\ Reqs(wire)' \subseteq Reqs(wire)
      /\ \A i \in DOMAIN wire : i \in Nat
  BY <1>1, <1>2, WireShortened, StateFacts
<1>4. Head(wire) = wire[1] /\ wire[1] \in Frames /\ ~ IsRef(wire[1]) /\ wire[1].req \in Reqs(wire)
  <2>1. Head(wire) = wire[1] /\ wire[1] \in Frames
    BY <1>1, <1>2, Shortened
  <2>2. QED BY <1>1, <1>2, <1>3, <2>1, Membership DEF IsRef
<1>5. /\ served' \subseteq Dispatches /\ RequestIntact'
      /\ Dispatched' = Dispatched \cup {wire[1].req}
  BY <1>1, <1>2, <1>4, DispatchedMore
<1>6. TypeOK'
  BY <1>1, <1>2, <1>3, <1>5 DEF TypeOK, Dispatches
<1>7. /\ Known' \subseteq Known /\ OnItsWay' \subseteq OnItsWay
      /\ (Reqs(wire) \cup Dispatched)' \subseteq Reqs(wire) \cup Dispatched
  <2>1. Reqs(out)' = Reqs(out) /\ Refs(out)' = Refs(out)
    BY <1>2 DEF Reqs, Refs, IsRef
  <2>2. QED BY <1>3, <1>4, <1>5, <2>1 DEF Known, OnItsWay
<1>8. RequestInv' /\ \A r \in 1 .. count : Lost(r) => Lost(r)'
  BY <1>1, <1>2, <1>7, Settled
<1>9. InOrder' /\ RecordsOk'
  <2>1. freed <= freed'
    BY <1>1, <1>2
  <2>2. QED BY <1>1, <1>2, <1>4, <1>5, <1>7, <2>1, OrderShortened, RecordsKept
<1>10. LastUnsent' /\ SessionOk'
  BY <1>1, <1>2, <1>7 DEF LastUnsent, SessionOk
<1>11. Owing'
  <2>1. LastEnds(out, head) => LastEnds(out, head)'
    BY <1>2 DEF LastEnds
  <2>2. NoRefs(out) => NoRefs(out)'
    BY <1>2 DEF NoRefs
  <2>3. ASSUME LastEnds(wire, head) PROVE LastEnds(wire', head)
    <3>1. PICK i \in DOMAIN wire : /\ IsRef(wire[i]) /\ End(wire[i]) = head
                                   /\ \A j \in DOMAIN wire : j > i => ~ IsRef(wire[j])
      BY <2>3 DEF LastEnds
    <3>2. i - 1 \in DOMAIN wire' /\ wire'[i - 1] = wire[i]
      BY <1>3, <1>4, <3>1
    <3>3. \A j \in DOMAIN wire' : j > i - 1 => j + 1 > i /\ j + 1 \in DOMAIN wire /\ wire'[j] = wire[j + 1]
      BY <1>3
    <3>4. QED BY <3>1, <3>2, <3>3 DEF LastEnds
  <2>4. NoRefs(wire) => NoRefs(wire')
    BY <1>3 DEF NoRefs
  <2>5. QED BY <1>1, <1>2, <1>8, <2>1, <2>2, <2>3, <2>4 DEF Owing
<1>12. \A u \in Tasks : WriterOk(u)'
  BY <1>1, <1>2, <1>7, WriterKept
<1>13. QED BY <1>5, <1>6, <1>8, <1>9, <1>10, <1>11, <1>12 DEF IInv

\* read_release accepts every reference, and finds the bytes of a new one as they were
\* written.
LEMMA TakeRefStep ==
    ASSUME IInv, TakeRef
    PROVE  IInv'
<1>1. /\ TypeOK /\ RecordsOk /\ InOrder /\ LastUnsent /\ SessionOk
      /\ RequestInv /\ Owing /\ RequestIntact
      /\ \A u \in Tasks : WriterOk(u)
      /\ wire \in Seq(Frames) /\ Cap \in Nat /\ freed \in Nat
  BY StateFacts DEF IInv
<1>2. /\ UNCHANGED <<head, tail, buf, freed, task, count, out, wire>>
      /\ session = "read" /\ wire # << >> /\ Head(wire).kind = "ref"
  BY DEF TakeRef, ring
<1>3. PICK f \in Frames : f = Head(wire) /\ f = wire[1] /\ 1 \in DOMAIN wire /\ IsRef(f)
  BY <1>1, <1>2, Shortened DEF IsRef
<1>4. /\ RecordOk(f) /\ f.off \in Nat /\ f.len \in Nat /\ f.req \in Reqs(wire)
  <2>1. f \in OnItsWay /\ f.req \in Reqs(wire)
    BY <1>1, <1>3, Membership DEF OnItsWay, IsRef
  <2>2. QED BY <1>1, <2>1, StateFacts DEF RecordsOk
<1>5. /\ f.len > 0 /\ Phys(f.off) + f.len <= Cap /\ f.off + f.len <= head /\ Phys(f.off) \in Nat
      /\ f.req \notin Dispatched => Intact(f.off, f.len, f.req)
  BY <1>4, PhysType DEF RecordOk, End
<1>6. Readable(f)
  <2>1. f.len \in 1 .. Cap
    BY <1>1, <1>4, <1>5
  <2>2. QED BY <1>5, <2>1 DEF Readable
<1>7. session' = "release" /\ Dispatch(f, {buf[a] : a \in Cells(f.off, f.len)})
  BY <1>3, <1>6 DEF TakeRef
<1>8. f.req \notin Dispatched => {buf[a] : a \in Cells(f.off, f.len)} = {f.req}
  <2>1. SUFFICES ASSUME f.req \notin Dispatched
                 PROVE  {buf[a] : a \in Cells(f.off, f.len)} = {f.req}
    OBVIOUS
  <2>2. \A a \in Cells(f.off, f.len) : buf[a] = f.req
    BY <1>5, <2>1 DEF Intact
  <2>3. Phys(f.off) \in Cells(f.off, f.len)
    BY <1>4, <1>5, CellsInside
  <2>4. QED BY <2>2, <2>3
<1>9. /\ served' \subseteq Dispatches /\ RequestIntact' /\ Dispatched' = Dispatched \cup {f.req}
  BY <1>1, <1>7, <1>8, DispatchedMore
<1>10. TypeOK'
  BY <1>1, <1>2, <1>7, <1>9 DEF TypeOK, Dispatches
<1>11. /\ Known' \subseteq Known /\ OnItsWay' = OnItsWay
       /\ (Reqs(wire) \cup Dispatched)' \subseteq Reqs(wire) \cup Dispatched
  <2>1. /\ Reqs(out)' = Reqs(out) /\ Refs(out)' = Refs(out)
        /\ Reqs(wire)' = Reqs(wire) /\ Refs(wire)' = Refs(wire)
    BY <1>2 DEF Reqs, Refs, IsRef
  <2>2. QED BY <1>4, <1>9, <2>1 DEF Known, OnItsWay
<1>12. RequestInv' /\ \A r \in 1 .. count : Lost(r) => Lost(r)'
  BY <1>1, <1>2, <1>11, Settled
<1>13. InOrder' /\ RecordsOk' /\ LastUnsent'
  BY <1>1, <1>2, <1>9, <1>11, RecordsKept
     DEF InOrder, WireInOrder, OutAfterWire, OutInOrder, LastUnsent
<1>14. SessionOk'
  BY <1>2, <1>3, <1>7, <1>9 DEF SessionOk
<1>15. Owing'
  BY <1>1, <1>2, <1>12, OwingKept
<1>16. \A u \in Tasks : WriterOk(u)'
  BY <1>1, <1>2, <1>11, WriterKept
<1>17. QED BY <1>9, <1>10, <1>12, <1>13, <1>14, <1>15, <1>16 DEF IInv

\* The store of tail gives back the record of the head frame, its copies', and no
\* record that is still to be read.
LEMMA ReleaseStep ==
    ASSUME IInv, Release
    PROVE  IInv'
<1>1. /\ TypeOK /\ RecordsOk /\ InOrder /\ LastUnsent /\ SessionOk
      /\ RequestInv /\ Owing /\ RequestIntact
      /\ \A u \in Tasks : WriterOk(u)
      /\ head \in Nat /\ tail \in Nat /\ freed \in Nat /\ freed <= head /\ Cap \in Nat
      /\ wire \in Seq(Frames)
  BY StateFacts DEF IInv
<1>2. /\ UNCHANGED <<head, buf, task, count, out, served>>
      /\ session = "release" /\ session' = "read"
      /\ tail' = Head(wire).off + Head(wire).len /\ wire' = Tail(wire)
      /\ freed' = IF tail' > freed THEN tail' ELSE freed
  BY DEF Release, ReleaseTo
<1>3. wire # << >> /\ IsRef(wire[1]) /\ wire[1].req \in Dispatched
  BY <1>1, <1>2 DEF SessionOk
<1>4. /\ wire' \in Seq(Frames) /\ 1 \in DOMAIN wire
      /\ \A i \in DOMAIN wire' : i \in Nat /\ i > 0 /\ i + 1 \in DOMAIN wire /\ wire'[i] = wire[i + 1]
      /\ \A i \in DOMAIN wire : i = 1 \/ (i - 1 \in DOMAIN wire' /\ wire'[i - 1] = wire[i])
      /\ Refs(wire)' \subseteq Refs(wire) /\ Reqs(wire)' \subseteq Reqs(wire)
      /\ \A i \in DOMAIN wire : i \in Nat
  <2>1. \A i \in DOMAIN wire : i \in Nat
    BY <1>1
  <2>2. QED BY <1>1, <1>2, <1>3, <2>1, WireShortened
<1>5. PICK f \in Frames : /\ f = wire[1] /\ f = Head(wire) /\ IsRef(f)
                          /\ RecordOk(f) /\ f \in OnItsWay
                          /\ f.off \in Nat /\ f.len \in Nat /\ End(f) \in Nat
  <2>1. wire[1] = Head(wire) /\ wire[1] \in Frames /\ wire[1] \in OnItsWay
    BY <1>1, <1>3, <1>4, Shortened, Membership DEF OnItsWay
  <2>2. QED BY <1>1, <1>3, <2>1, StateFacts DEF RecordsOk
<1>6. /\ tail' = End(f) /\ End(f) <= head /\ End(f) <= freed' /\ freed' \in Nat
      /\ freed <= freed' /\ freed' <= head
      /\ freed' = freed \/ freed' = End(f)
  BY <1>1, <1>2, <1>5 DEF RecordOk, End
<1>7. TypeOK'
  <2>1. freed' \in 0 .. head' /\ tail' \in 0 .. freed'
    BY <1>1, <1>2, <1>5, <1>6
  <2>2. QED BY <1>1, <1>2, <1>4, <2>1 DEF TypeOK
<1>8. /\ Known' \subseteq Known /\ OnItsWay' \subseteq OnItsWay /\ Dispatched' = Dispatched
  <2>1. Reqs(out)' = Reqs(out) /\ Refs(out)' = Refs(out) /\ Dispatched' = Dispatched
    BY <1>2 DEF Reqs, Refs, IsRef, Dispatched
  <2>2. QED BY <1>4, <2>1 DEF Known, OnItsWay
<1>9. RequestInv' /\ \A r \in 1 .. count : Lost(r) => Lost(r)'
  BY <1>1, <1>2, <1>8, Settled
<1>10. InOrder'
  BY <1>2, <1>3, <1>5, <1>6, OrderShortened
<1>11. RecordsOk'
  <2>1. SUFFICES ASSUME NEW g \in OnItsWay' PROVE RecordOk(g)'
    BY DEF RecordsOk
  <2>2. /\ RecordOk(g) /\ g \in OnItsWay /\ g \in Frames
        /\ g.off \in Nat /\ g.len \in Nat /\ End(g) \in Nat
    BY <1>1, <1>8, <2>1, StateFacts DEF RecordsOk, OnItsWay, Refs
  <2>3. Follows(wire, freed, g, 1)
    <3>1. CASE g \in Refs(wire)'
      <4>1. PICK i \in DOMAIN wire' : wire'[i] = g /\ IsRef(g)
        BY <3>1 DEF Refs, IsRef
      <4>2. i + 1 \in DOMAIN wire /\ wire[i + 1] = g /\ 1 < i + 1
        BY <1>4, <4>1
      <4>3. QED BY <1>1, <1>3, <1>4, <4>1, <4>2 DEF InOrder, WireInOrder
    <3>2. CASE g \in Refs(out)'
      <4>1. PICK j \in DOMAIN out : out[j] = g /\ IsRef(g)
        BY <1>2, <3>2 DEF Refs, IsRef
      <4>2. QED BY <1>1, <1>3, <1>4, <4>1 DEF InOrder, OutAfterWire
    <3>3. QED BY <2>1, <3>1, <3>2 DEF OnItsWay
  <2>4. (Past(g) /\ g.req \in Dispatched => End(g) <= freed' /\ g.req \in Dispatched')
    BY <1>1, <1>6, <1>8, <2>2 DEF Past
  <2>5. ASSUME freed <= g.off, Intact(g.off, g.len, g.req)
        PROVE  freed' <= g.off \/ (End(g) <= freed' /\ g.req \in Dispatched')
    <3>1. CASE End(wire[1]) <= g.off
      BY <1>5, <1>6, <2>5, <3>1
    <3>2. CASE End(g) <= freed
      <4>1. End(g) > g.off
        BY <2>2 DEF RecordOk, End
      <4>2. QED BY <1>1, <2>2, <2>5, <3>2, <4>1
    <3>3. CASE \E k \in DOMAIN wire : k <= 1 /\ wire[k] = g
      <4>1. g = f
        BY <1>4, <1>5, <3>3, StateFacts, <1>1
      <4>2. QED BY <1>3, <1>5, <1>6, <1>8, <4>1
    <3>4. QED BY <2>3, <3>1, <3>2, <3>3 DEF Follows
  <2>6. g.len > 0 /\ Phys(g.off) + g.len <= Cap /\ End(g) <= head'
    BY <1>2, <2>2 DEF RecordOk
  <2>7. Intact(g.off, g.len, g.req)' = Intact(g.off, g.len, g.req)
    BY <1>2 DEF Intact, Cells, Phys
  <2>8. \/ End(g) <= freed' /\ g.req \in Dispatched'
        \/ freed' <= g.off /\ Intact(g.off, g.len, g.req)
    BY <2>2, <2>4, <2>5 DEF RecordOk
  <2>9. QED BY <2>6, <2>7, <2>8 DEF RecordOk, Past, End, Phys
<1>12. LastUnsent' /\ SessionOk'
  <2>1. (Reqs(wire) \cup Dispatched)' \subseteq Reqs(wire) \cup Dispatched
    BY <1>4, <1>8
  <2>2. QED BY <1>1, <1>2, <2>1 DEF LastUnsent, SessionOk
<1>13. Owing'
  <2>1. LastEnds(out, head) => LastEnds(out, head)'
    BY <1>2 DEF LastEnds
  <2>2. NoRefs(out) => NoRefs(out)'
    BY <1>2 DEF NoRefs
  <2>3. ASSUME LastEnds(wire, head) PROVE LastEnds(wire', head) \/ (NoRefs(wire') /\ tail' = head)
    <3>1. PICK i \in DOMAIN wire : /\ IsRef(wire[i]) /\ End(wire[i]) = head
                                   /\ \A j \in DOMAIN wire : j > i => ~ IsRef(wire[j])
      BY <2>3 DEF LastEnds
    <3>2. CASE i = 1
      <4>1. \A j \in DOMAIN wire' : j + 1 > i /\ j + 1 \in DOMAIN wire /\ wire'[j] = wire[j + 1]
        BY <1>4, <3>2
      <4>2. QED BY <1>5, <1>6, <3>1, <3>2, <4>1 DEF NoRefs
    <3>3. CASE i # 1
      <4>1. i - 1 \in DOMAIN wire' /\ wire'[i - 1] = wire[i]
        BY <1>4, <3>1, <3>3
      <4>2. \A j \in DOMAIN wire' : j > i - 1 => j + 1 > i /\ j + 1 \in DOMAIN wire /\ wire'[j] = wire[j + 1]
        BY <1>4
      <4>3. QED BY <3>1, <4>1, <4>2 DEF LastEnds
    <3>4. QED BY <3>2, <3>3
  <2>4. ~ NoRefs(wire)
    BY <1>3, <1>4 DEF NoRefs
  <2>5. QED BY <1>1, <1>2, <1>9, <2>1, <2>2, <2>3, <2>4 DEF Owing
<1>14. ASSUME NEW u \in Tasks PROVE WriterOk(u)'
  <2>1. /\ WriterOk(u) /\ task[u].pos \in Nat /\ task[u].len \in Nat /\ task'[u] = task[u]
    BY <1>1, <1>2, TaskFacts
  <2>2. \A off, len, req : Intact(off, len, req)' = Intact(off, len, req)
    BY <1>2 DEF Intact, Cells, Phys
  <2>3. task[u].pc \in {"copy", "publish"} =>
           task[u].len <= Cap /\ task[u].pos + task[u].len <= freed' + Cap
    <3>1. SUFFICES ASSUME task[u].pc \in {"copy", "publish"}
                   PROVE  task[u].len <= Cap /\ task[u].pos + task[u].len <= freed' + Cap
      OBVIOUS
    <3>2. task[u].len <= Cap /\ task[u].pos + task[u].len <= freed + Cap
      BY <2>1, <3>1 DEF WriterOk
    <3>3. QED BY <1>1, <1>6, <2>1, <3>2
  <2>4. task[u].pc = "ref" =>
           /\ Phys(task[u].pos) + task[u].len <= Cap
           /\ freed' <= task[u].pos /\ task[u].pos + task[u].len = head
           /\ \A g \in OnItsWay' : End(g) <= task[u].pos
    BY <1>5, <1>6, <1>8, <2>1 DEF WriterOk
  <2>5. QED BY <1>2, <2>1, <2>2, <2>3, <2>4 DEF WriterOk, Phys, End
<1>15. RequestIntact'
  BY <1>1, <1>2 DEF RequestIntact
<1>16. QED BY <1>7, <1>9, <1>10, <1>11, <1>12, <1>13, <1>14, <1>15 DEF IInv

\* A piece of a frame ends the session; so does nothing else.
LEMMA RestStep ==
    ASSUME IInv, TakeTorn \/ UNCHANGED vars
    PROVE  IInv'
<1>1. /\ TypeOK /\ RecordsOk /\ InOrder /\ LastUnsent /\ SessionOk
      /\ RequestInv /\ Owing /\ RequestIntact
      /\ \A u \in Tasks : WriterOk(u)
  BY DEF IInv
<1>2. /\ UNCHANGED <<head, tail, buf, freed, task, count, out, wire, served>>
      /\ session' = "failed" \/ session' = session
  BY DEF TakeTorn, vars, ring
<1>3. Known' = Known /\ OnItsWay' = OnItsWay /\ Dispatched' = Dispatched
  BY <1>2, StreamKept
<1>4. TypeOK' /\ RequestIntact'
  BY <1>1, <1>2 DEF TypeOK, RequestIntact
<1>5. RequestInv' /\ Owing'
  BY <1>1, <1>2, <1>3, Settled, OwingKept
<1>6. RecordsOk' /\ \A u \in Tasks : WriterOk(u)'
  BY <1>1, <1>2, <1>3, RecordsKept, WriterKept
<1>7. InOrder' /\ LastUnsent'
  <2>1. Reqs(wire)' = Reqs(wire)
    BY <1>2, StreamKept
  <2>2. QED BY <1>1, <1>2, <1>3, <2>1 DEF InOrder, WireInOrder, OutAfterWire, OutInOrder, LastUnsent
<1>8. SessionOk'
  BY <1>1, <1>2, <1>3 DEF SessionOk
<1>9. QED BY <1>4, <1>5, <1>6, <1>7, <1>8 DEF IInv

-----------------------------------------------------------------------------
\* Theorems

\* The invariant is inductive when one task only is inside try_write.
THEOREM NextIInv == OneProducer /\ IInv /\ [Next]_vars => IInv'
<1>1. SUFFICES ASSUME OneProducer, IInv, [Next]_vars PROVE IInv'
  OBVIOUS
<1>2. CASE SessionNext \/ UNCHANGED vars
  BY <1>1, <1>2, TakeInlineStep, TakeRefStep, ReleaseStep, RestStep DEF SessionNext
<1>3. ASSUME NEW t \in Tasks, TaskNext(t) PROVE IInv'
  <2>1. ASSUME NEW len \in IF t \in LargeTasks THEN Lens ELSE {0}, Begin(t, len) PROVE IInv'
    <3>1. len \in Nat /\ (t \in LargeTasks => len > 0)
      BY <2>1, UplinkAssumption
    <3>2. QED BY <1>1, <2>1, <3>1, BeginStep
  <2>2. ASSUME NEW k \in 0 .. Len(out), NEW rest \in {<< >>, <<Torn>>}, FlushDropped(t, k, rest)
        PROVE  IInv'
    BY <1>1, <2>2, FlushDroppedStep
  <2>3. CASE LoadHead(t) \/ LoadTail(t) \/ CopyIn(t) \/ Publish(t)
    BY <1>1, <2>3, LoadHeadStep, LoadTailStep, CopyInStep, PublishStep
  <2>4. CASE Queue(t) \/ Flush(t) \/ Drop(t) \/ Receive(t)
    BY <1>1, <2>4, QueueStep, FlushStep, LeaveStep
  <2>5. QED BY <1>3, <2>1, <2>2, <2>3, <2>4 DEF TaskNext
<1>4. QED BY <1>1, <1>2, <1>3 DEF Next

\* With one producer (shm.rs:110-111), what try_write and read_release keep true of
\* the ring, of the frames in the buffer and on the wire and of the requests, at every
\* step, whatever futures are dropped.
THEOREM UplinkInductive == ASSUME OneProducer PROVE Spec => []IInv
<1>1. [Next]_vars /\ IInv => IInv'
  BY NextIInv
<1>2. QED BY <1>1, InitIInv, PTL DEF Spec

\* Whatever requests are dropped, at any await, flush's included: read_release never
\* refuses a whole reference ("invalid uplink shm ref" would end the session), and
\* never gave back a byte of a record whose reference is still to come.
THEOREM UplinkSoundAlways == ASSUME OneProducer PROVE Spec => []UplinkSound
<1>1. IInv => UplinkSound
  <2>1. SUFFICES ASSUME IInv PROVE UplinkSound
    OBVIOUS
  <2>2. /\ TypeOK /\ session # "dead" /\ RecordsOk
        /\ wire \in Seq(Frames) /\ out \in Seq(Frames) /\ freed \in Nat
    BY <2>1, StateFacts DEF IInv, SessionOk
  <2>3. ASSUME NEW f \in OnItsWay, IsNew(f) PROVE f.off >= freed
    <3>1. RecordOk(f) /\ f.off \in Nat
      BY <2>2, <2>3, StateFacts DEF RecordsOk, OnItsWay, Refs
    <3>2. QED BY <2>2, <2>3, <3>1 DEF RecordOk, IsNew
  <2>4. /\ \A i \in DOMAIN wire : IsNew(wire[i]) => wire[i] \in OnItsWay
        /\ \A i \in DOMAIN out : IsNew(out[i]) => out[i] \in OnItsWay
    BY <2>2, Membership DEF IsNew, IsRef, OnItsWay
  <2>5. QED BY <2>2, <2>3, <2>4 DEF UplinkSound
<1>2. QED BY <1>1, UplinkInductive, PTL

\* handle_conn dispatches every request, the first time it comes, with the bytes
\* request_with_id gave to try_write, whether they came through the ring or in the
\* frame.
THEOREM RequestIntactAlways == ASSUME OneProducer PROVE Spec => []RequestIntact
<1>1. IInv => RequestIntact
  BY DEF IInv
<1>2. QED BY <1>1, UplinkInductive, PTL

\* Once the session has dispatched every request begun, no byte of the ring is in use,
\* though repeated references move the cursor back: only a record whose request was
\* dropped before its frame was queued keeps one.
THEOREM DrainedWhenIdleAlways == ASSUME OneProducer PROVE Spec => []DrainedWhenIdle
<1>1. IInv => DrainedWhenIdle
  <2>1. SUFFICES ASSUME IInv, wire = << >>, 1 .. count \subseteq Dispatched PROVE tail = head
    BY DEF DrainedWhenIdle
  <2>2. /\ TypeOK /\ RequestInv /\ Owing /\ LastUnsent /\ DOMAIN wire = {}
        /\ out \in Seq(Frames) /\ DOMAIN out = 1 .. Len(out) /\ Len(out) \in Nat
    BY <2>1, StateFacts DEF IInv
  <2>3. out = << >>
    <3>1. SUFFICES ASSUME out # << >> PROVE FALSE
      OBVIOUS
    <3>2. Len(out) \in DOMAIN out
      BY <2>2, <3>1, Shortened
    <3>3. out[Len(out)].req \in Reqs(out) /\ out[Len(out)].req \notin Dispatched
      BY <2>2, <3>1, <3>2, Membership DEF LastUnsent
    <3>4. QED BY <2>1, <2>2, <3>3 DEF RequestInv, Known
  <2>4. \A r \in 1 .. count : ~ Lost(r)
    BY <2>1 DEF Lost, Known
  <2>5. ASSUME NEW t \in Tasks, task[t].pc = "ref" PROVE FALSE
    <3>1. RequestOk(t) /\ "ref" \in Unsent
      BY <2>2 DEF RequestInv, Unsent, Holding
    <3>2. QED BY <2>1, <2>5, <3>1 DEF RequestOk, Known
  <2>6. ~ LastEnds(out, head) /\ ~ LastEnds(wire, head)
    BY <2>2, <2>3 DEF LastEnds
  <2>7. QED BY <2>2, <2>4, <2>5, <2>6 DEF Owing
<1>2. QED BY <1>1, UplinkInductive, PTL
=============================================================================

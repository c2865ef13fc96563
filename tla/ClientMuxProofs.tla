--------------------------- MODULE ClientMuxProofs ----------------------------
(***************************************************************************)
(* Every call ends with its own response after its own progress, no        *)
(* response is lost, and the reader lock is handed on, for any number of   *)
(* tasks and calls, whoever reads the socket and whoever leaves.           *)
(***************************************************************************)
EXTENDS ClientMux, FiniteSetTheorems, SequenceTheorems, TLAPS

-----------------------------------------------------------------------------
\* The inductive invariant

Kinds == {"plain", "progress"}
Unsent == {"registered", "contended", "direct"}
Waits == {"select", "polled", "parked", "recheck", "reading"}
TaskStates == [pc : {"idle", "yielded"} \cup Unsent \cup Waits,
               id : Nat, kind : Kinds, mail : Nat, seen : Nat]
Requests == [id : Nat, kind : Kinds]
Frames == [type : {"result", "progress", "push"}, id : Nat]
Outcomes == [asked : Nat, got : Nat, kind : Kinds, seen : Nat]

Typed ==
    /\ setting \in Settings /\ next_id \in Nat \ {0} /\ next_id <= setting.ids + 1
    /\ task \in [Tasks -> TaskStates] /\ result \in [Tasks -> Outcomes]
    /\ pending \in SUBSET Nat /\ progress \in SUBSET Nat
    /\ wbuf \in Seq(Requests) /\ wire \in Seq(Requests) /\ inbound \in Seq(Frames)
    /\ reader \in Tasks \cup {Nobody} /\ queue \in Seq(Tasks)
    /\ closed \in {"yes", "no"}

\* Requests on their way, and what is on its way back: at most one response to
\* an id, and at most one progress frame, before the response.
Elements(q) == {q[i] : i \in DOMAIN q}
Ids(q) == {r.id : r \in Elements(q)}
Uniq(q) == \A i, j \in DOMAIN q : q[i].id = q[j].id => i = j
Responses(q) == {f.id : f \in {f \in Elements(q) : f.type = "result"}}
Notes(q) == {f.id : f \in {f \in Elements(q) : f.type = "progress"}}
Sound(q) ==
    /\ \A i, j \in DOMAIN q : q[i] = q[j] /\ q[i].type # "push" => i = j
    /\ \A i \in DOMAIN q : q[i].type = "progress" =>
          \E j \in DOMAIN q : i < j /\ q[j].type = "result" /\ q[j].id = q[i].id

Sent == Ids(wbuf) \cup Ids(wire) \cup Responses(inbound)
WayInv ==
    /\ Uniq(wbuf) /\ Uniq(wire) /\ Sound(inbound)
    /\ Ids(wbuf) \cap Ids(wire) = {}
    /\ Responses(inbound) \cap (Ids(wbuf) \cup Ids(wire)) = {}
    /\ Sent \cup pending \cup progress \subseteq 1 .. next_id - 1

\* What a task knows of its call.
Told(id) == id \in Responses(inbound) /\ id \notin Notes(inbound)
Placed(t) ==
    \/ task[t].id \in Ids(wire) \cup Responses(inbound)
    \/ task[t].mail = task[t].id
    \/ task[t].pc = "yielded" /\ task[t].id \in Ids(wbuf)
CallOk(t) ==
    /\ task[t].id \in 1 .. next_id - 1
    /\ task[t].mail \in {0, task[t].id}
    /\ task[t].mail = 0 => task[t].id \in pending
    /\ task[t].mail # 0 \/ task[t].pc \in Unsent => task[t].id \notin Sent
    /\ task[t].pc \in Unsent => task[t].mail = 0
    /\ task[t].kind = "progress" =>
          /\ task[t].id \in progress
          /\ task[t].seen = IF Told(task[t].id) \/ task[t].mail # 0 THEN 1 ELSE 0
    /\ task[t].kind = "plain" => task[t].seen = 0 /\ task[t].id \notin Notes(inbound)
    /\ \A r \in Elements(wbuf) \cup Elements(wire) : r.id = task[t].id => r.kind = task[t].kind
    /\ closed = "no" /\ task[t].pc \in {"yielded"} \cup Waits => Placed(t)
TaskOk(t) ==
    /\ task[t].pc = "idle" => task[t] = Idle
    /\ task[t].pc # "idle" => CallOk(t)
ResultOk(t) ==
    /\ result[t].got \in {0, result[t].asked}
    /\ result[t].got # 0 => result[t].seen = IF result[t].kind = "progress" THEN 1 ELSE 0
Distinct == \A t, u \in InFlight : t # u => task[t].id # task[u].id
CallInv ==
    /\ \A t \in Tasks : TaskOk(t)
    /\ \A t \in Tasks : ResultOk(t)
    /\ Distinct

\* The reader lock.
IsIn(q, t) == \E i \in DOMAIN q : q[i] = t
Once(q) == \A i, j \in DOMAIN q : q[i] = q[j] => i = j
LockInv ==
    /\ reader = Nobody => queue = <<>>
    /\ Once(queue)
    /\ \A t \in Tasks : IsIn(queue, t) => task[t].pc = "parked" /\ reader # t
    /\ \A t \in Tasks : task[t].pc = "parked" => reader = t \/ IsIn(queue, t)
    /\ \A t \in Tasks : task[t].pc \in {"recheck", "reading"} => reader = t
    /\ \A t \in Tasks : reader = t => task[t].pc \in {"parked", "polled", "recheck", "reading"}

IInv == Typed /\ WayInv /\ CallInv /\ LockInv

-----------------------------------------------------------------------------
\* Sequences, and what is on its way

LEMMA Appended ==
    ASSUME NEW S, NEW q \in Seq(S), NEW e \in S
    PROVE  /\ Append(q, e) \in Seq(S) /\ q \o <<e>> = Append(q, e)
           /\ Len(q) \in Nat /\ DOMAIN q = 1 .. Len(q) /\ DOMAIN Append(q, e) = 1 .. Len(q) + 1
           /\ \A i \in 1 .. Len(q) : Append(q, e)[i] = q[i]
           /\ Append(q, e)[Len(q) + 1] = e
           /\ Elements(Append(q, e)) = Elements(q) \cup {e}
<1>1. /\ Append(q, e) \in Seq(S) /\ Len(Append(q, e)) = Len(q) + 1 /\ Len(q) \in Nat
      /\ \A i \in 1 .. Len(q) : Append(q, e)[i] = q[i]
      /\ Append(q, e)[Len(q) + 1] = e
  BY AppendProperties, LenProperties
<1>2. q \o <<e>> = Append(q, e)
  BY AppendIsConcat
<1>3. DOMAIN q = 1 .. Len(q) /\ DOMAIN Append(q, e) = 1 .. Len(q) + 1
  BY <1>1, LenProperties
<1>4. Elements(Append(q, e)) = Elements(q) \cup {e}
  <2>1. 1 .. Len(q) + 1 = (1 .. Len(q)) \cup {Len(q) + 1}
    BY <1>1
  <2>2. QED BY <1>1, <1>3, <2>1 DEF Elements
<1>5. QED BY <1>1, <1>2, <1>3, <1>4

LEMMA Joined ==
    ASSUME NEW S, NEW p \in Seq(S), NEW q \in Seq(S)
    PROVE  /\ p \o q \in Seq(S) /\ Len(p) \in Nat /\ Len(q) \in Nat
           /\ DOMAIN p = 1 .. Len(p) /\ DOMAIN q = 1 .. Len(q)
           /\ DOMAIN (p \o q) = 1 .. Len(p) + Len(q)
           /\ \A i \in 1 .. Len(p) + Len(q) :
                 \/ i \in 1 .. Len(p) /\ (p \o q)[i] = p[i]
                 \/ i - Len(p) \in 1 .. Len(q) /\ i > Len(p) /\ (p \o q)[i] = q[i - Len(p)]
           /\ Elements(p \o q) = Elements(p) \cup Elements(q)
<1>1. /\ p \o q \in Seq(S) /\ Len(p \o q) = Len(p) + Len(q) /\ Len(p) \in Nat /\ Len(q) \in Nat
      /\ \A i \in 1 .. Len(p) + Len(q) : (p \o q)[i] = IF i <= Len(p) THEN p[i] ELSE q[i - Len(p)]
  BY ConcatProperties, LenProperties
<1>2. DOMAIN p = 1 .. Len(p) /\ DOMAIN q = 1 .. Len(q) /\ DOMAIN (p \o q) = 1 .. Len(p) + Len(q)
  BY <1>1, LenProperties
<1>3. ASSUME NEW i \in 1 .. Len(p) + Len(q)
      PROVE  \/ i \in 1 .. Len(p) /\ (p \o q)[i] = p[i]
             \/ i - Len(p) \in 1 .. Len(q) /\ i > Len(p) /\ (p \o q)[i] = q[i - Len(p)]
  BY <1>1
<1>4. Elements(p \o q) \subseteq Elements(p) \cup Elements(q)
  BY <1>2, <1>3 DEF Elements
<1>5. Elements(p) \cup Elements(q) \subseteq Elements(p \o q)
  <2>1. ASSUME NEW i \in 1 .. Len(p) PROVE i \in 1 .. Len(p) + Len(q) /\ (p \o q)[i] = p[i]
    BY <1>1
  <2>2. ASSUME NEW i \in 1 .. Len(q)
        PROVE  i + Len(p) \in 1 .. Len(p) + Len(q) /\ (p \o q)[i + Len(p)] = q[i]
    <3>1. i + Len(p) \in 1 .. Len(p) + Len(q) /\ ~(i + Len(p) <= Len(p)) /\ (i + Len(p)) - Len(p) = i
      BY <1>1
    <3>2. QED BY <1>1, <3>1
  <2>3. QED BY <1>2, <2>1, <2>2 DEF Elements
<1>6. QED BY <1>1, <1>2, <1>3, <1>4, <1>5

LEMMA Shortened ==
    ASSUME NEW S, NEW q \in Seq(S), q # <<>>
    PROVE  /\ Tail(q) \in Seq(S) /\ Head(q) = q[1] /\ Head(q) \in S
           /\ DOMAIN q = 1 .. Len(q) /\ Len(q) \in Nat \ {0} /\ DOMAIN Tail(q) = 1 .. Len(q) - 1
           /\ \A i \in 1 .. Len(q) - 1 : Tail(q)[i] = q[i + 1]
           /\ \A i \in 1 .. Len(q) - 1 : i + 1 \in 2 .. Len(q)
           /\ Elements(q) = {Head(q)} \cup Elements(Tail(q))
<1>1. /\ Tail(q) \in Seq(S) /\ Len(Tail(q)) = Len(q) - 1 /\ Len(q) \in Nat \ {0} /\ Head(q) \in S
      /\ \A i \in 1 .. Len(q) - 1 : Tail(q)[i] = q[i + 1]
  BY HeadTailProperties, EmptySeq, LenProperties
<1>2. DOMAIN q = 1 .. Len(q) /\ DOMAIN Tail(q) = 1 .. Len(q) - 1
  BY <1>1, LenProperties
<1>3. Head(q) = q[1]
  OBVIOUS
<1>4. Elements(q) = {Head(q)} \cup Elements(Tail(q))
  <2>1. ASSUME NEW i \in 1 .. Len(q)
        PROVE  q[i] = Head(q) \/ \E j \in 1 .. Len(q) - 1 : q[i] = Tail(q)[j]
    <3>1. CASE i = 1
      BY <1>3, <3>1
    <3>2. CASE i # 1
      <4>1. i - 1 \in 1 .. Len(q) - 1 /\ (i - 1) + 1 = i
        BY <1>1, <3>2
      <4>2. QED BY <1>1, <4>1
    <3>3. QED BY <3>1, <3>2
  <2>2. 1 \in 1 .. Len(q) /\ \A j \in 1 .. Len(q) - 1 : j + 1 \in 1 .. Len(q)
    BY <1>1
  <2>3. Elements(q) \subseteq {Head(q)} \cup Elements(Tail(q))
    BY <1>2, <2>1 DEF Elements
  <2>4. {Head(q)} \cup Elements(Tail(q)) \subseteq Elements(q)
    BY <1>1, <1>2, <1>3, <2>2 DEF Elements
  <2>5. QED BY <2>3, <2>4
<1>5. \A i \in 1 .. Len(q) - 1 : i + 1 \in 2 .. Len(q)
  BY <1>1
<1>6. QED BY <1>1, <1>2, <1>3, <1>4, <1>5

LEMMA Nothing ==
    /\ Elements(<<>>) = {} /\ Ids(<<>>) = {} /\ Uniq(<<>>)
    /\ Responses(<<>>) = {} /\ Notes(<<>>) = {} /\ Sound(<<>>)
<1>1. DOMAIN <<>> = {}
  OBVIOUS
<1>2. Elements(<<>>) = {}
  BY <1>1 DEF Elements
<1>3. QED BY <1>1, <1>2 DEF Ids, Uniq, Responses, Notes, Sound

\* A request whose id is not yet in the buffer keeps the ids in it distinct.
LEMMA RequestQueued ==
    ASSUME NEW q \in Seq(Requests), NEW r \in Requests, Uniq(q), r.id \notin Ids(q)
    PROVE  Uniq(Append(q, r)) /\ Ids(Append(q, r)) = Ids(q) \cup {r.id}
<1>1. PICK p \in Seq(Requests) : p = Append(q, r)
  BY Appended
<1>2. /\ Len(q) \in Nat /\ DOMAIN q = 1 .. Len(q) /\ DOMAIN p = 1 .. Len(q) + 1
      /\ \A i \in 1 .. Len(q) : p[i] = q[i]
      /\ p[Len(q) + 1] = r
      /\ Elements(p) = Elements(q) \cup {r}
  BY <1>1, Appended
<1>3. Ids(p) = Ids(q) \cup {r.id}
  BY <1>2 DEF Ids
<1>4. \A i \in 1 .. Len(q) : q[i].id # r.id
  BY <1>2 DEF Ids, Elements
<1>5. Uniq(p)
  <2>1. ASSUME NEW i \in 1 .. Len(q) + 1, NEW j \in 1 .. Len(q) + 1, p[i].id = p[j].id PROVE i = j
    <3>1. \A k \in 1 .. Len(q) + 1 : k \in 1 .. Len(q) \/ k = Len(q) + 1
      BY <1>2
    <3>2. CASE i \in 1 .. Len(q) /\ j \in 1 .. Len(q)
      BY <1>2, <2>1, <3>2 DEF Uniq
    <3>3. QED BY <1>2, <1>4, <2>1, <3>1, <3>2
  <2>2. QED BY <1>2, <2>1 DEF Uniq
<1>6. QED BY <1>1, <1>3, <1>5

LEMMA RequestsJoined ==
    ASSUME NEW p \in Seq(Requests), NEW q \in Seq(Requests), Uniq(p), Uniq(q),
           Ids(p) \cap Ids(q) = {}
    PROVE  Uniq(p \o q) /\ Ids(p \o q) = Ids(p) \cup Ids(q)
<1>1. PICK s \in Seq(Requests) : s = p \o q
  BY Joined
<1>2. /\ Len(p) \in Nat /\ Len(q) \in Nat
      /\ DOMAIN p = 1 .. Len(p) /\ DOMAIN q = 1 .. Len(q) /\ DOMAIN s = 1 .. Len(p) + Len(q)
      /\ \A i \in 1 .. Len(p) + Len(q) :
            \/ i \in 1 .. Len(p) /\ s[i] = p[i]
            \/ i - Len(p) \in 1 .. Len(q) /\ i > Len(p) /\ s[i] = q[i - Len(p)]
      /\ Elements(s) = Elements(p) \cup Elements(q)
  BY <1>1, Joined
<1>3. Ids(s) = Ids(p) \cup Ids(q)
  BY <1>2 DEF Ids
<1>4. \A i \in 1 .. Len(p), j \in 1 .. Len(q) : p[i].id # q[j].id
  <2>1. ASSUME NEW i \in 1 .. Len(p) PROVE p[i].id \in Ids(p)
    BY <1>2 DEF Ids, Elements
  <2>2. ASSUME NEW j \in 1 .. Len(q) PROVE q[j].id \in Ids(q)
    BY <1>2 DEF Ids, Elements
  <2>3. QED BY <2>1, <2>2
<1>5. Uniq(s)
  <2>1. ASSUME NEW i \in 1 .. Len(p) + Len(q), NEW j \in 1 .. Len(p) + Len(q), s[i].id = s[j].id
        PROVE  i = j
    <3>1. CASE i \in 1 .. Len(p) /\ s[i] = p[i]
      <4>1. j \in 1 .. Len(p) /\ s[j] = p[j]
        BY <1>2, <1>4, <2>1, <3>1
      <4>2. QED BY <1>2, <2>1, <3>1, <4>1 DEF Uniq
    <3>2. CASE i - Len(p) \in 1 .. Len(q) /\ s[i] = q[i - Len(p)]
      <4>1. j - Len(p) \in 1 .. Len(q) /\ s[j] = q[j - Len(p)]
        BY <1>2, <1>4, <2>1, <3>2
      <4>2. i - Len(p) = j - Len(p)
        BY <1>2, <2>1, <3>2, <4>1 DEF Uniq
      <4>3. QED BY <1>2, <4>2
    <3>3. QED BY <1>2, <3>1, <3>2
  <2>2. QED BY <1>2, <2>1 DEF Uniq
<1>6. QED BY <1>1, <1>3, <1>5

LEMMA RequestTaken ==
    ASSUME NEW q \in Seq(Requests), Uniq(q), q # <<>>
    PROVE  /\ Uniq(Tail(q)) /\ Ids(q) = {Head(q).id} \cup Ids(Tail(q))
           /\ Head(q).id \notin Ids(Tail(q))
<1>1. PICK s \in Seq(Requests) : s = Tail(q)
  BY Shortened
<1>2. /\ DOMAIN q = 1 .. Len(q) /\ Len(q) \in Nat \ {0} /\ DOMAIN s = 1 .. Len(q) - 1
      /\ \A i \in 1 .. Len(q) - 1 : s[i] = q[i + 1] /\ i + 1 \in 2 .. Len(q)
      /\ Elements(q) = {Head(q)} \cup Elements(s) /\ Head(q) = q[1]
  BY <1>1, Shortened
<1>3. Ids(q) = {Head(q).id} \cup Ids(s)
  BY <1>2 DEF Ids
<1>4. Uniq(s)
  <2>1. ASSUME NEW i \in 1 .. Len(q) - 1, NEW j \in 1 .. Len(q) - 1, s[i].id = s[j].id PROVE i = j
    <3>1. i + 1 = j + 1
      BY <1>2, <2>1 DEF Uniq
    <3>2. QED BY <1>2, <3>1
  <2>2. QED BY <1>2, <2>1 DEF Uniq
<1>5. Head(q).id \notin Ids(s)
  <2>1. ASSUME NEW i \in 1 .. Len(q) - 1 PROVE s[i].id # q[1].id
    <3>1. 1 \in 1 .. Len(q) /\ i + 1 \in 1 .. Len(q) /\ i + 1 # 1
      BY <1>2
    <3>2. QED BY <1>2, <3>1 DEF Uniq
  <2>2. QED BY <1>2, <2>1 DEF Ids, Elements
<1>6. QED BY <1>1, <1>3, <1>4, <1>5

LEMMA FrameFacts ==
    ASSUME NEW q \in Seq(Frames)
    PROVE  /\ DOMAIN q = 1 .. Len(q) /\ Len(q) \in Nat
           /\ \A i \in DOMAIN q : q[i] \in Frames
           /\ \A id : id \in Responses(q) <=> \E i \in DOMAIN q : q[i].type = "result" /\ q[i].id = id
           /\ \A id : id \in Notes(q) <=> \E i \in DOMAIN q : q[i].type = "progress" /\ q[i].id = id
           /\ Sound(q) => Notes(q) \subseteq Responses(q)
<1>1. DOMAIN q = 1 .. Len(q) /\ Len(q) \in Nat /\ \A i \in DOMAIN q : q[i] \in Frames
  BY LenProperties, ElementOfSeq
<1>2. \A id : id \in Responses(q) <=> \E i \in DOMAIN q : q[i].type = "result" /\ q[i].id = id
  BY DEF Responses, Elements
<1>3. \A id : id \in Notes(q) <=> \E i \in DOMAIN q : q[i].type = "progress" /\ q[i].id = id
  BY DEF Notes, Elements
<1>4. Sound(q) => Notes(q) \subseteq Responses(q)
  BY <1>2, <1>3 DEF Sound
<1>5. QED BY <1>1, <1>2, <1>3, <1>4

\* A frame put behind the others: a notification, or a frame of a call that has
\* no response there yet and, if it is progress, gets its response next.
LEMMA FramePut ==
    ASSUME NEW q \in Seq(Frames), NEW f \in Frames
    PROVE  /\ Append(q, f) \in Seq(Frames)
           /\ Responses(Append(q, f)) =
                 IF f.type = "result" THEN Responses(q) \cup {f.id} ELSE Responses(q)
           /\ Notes(Append(q, f)) = IF f.type = "progress" THEN Notes(q) \cup {f.id} ELSE Notes(q)
<1>1. Append(q, f) \in Seq(Frames) /\ Elements(Append(q, f)) = Elements(q) \cup {f}
  BY Appended
<1>2. QED BY <1>1 DEF Responses, Notes

LEMMA AnswerPut ==
    ASSUME NEW q \in Seq(Frames), NEW f \in Frames, Sound(q),
           f.type = "push" \/ (f.type = "result" /\ f.id \notin Responses(q))
    PROVE  Sound(Append(q, f))
<1>1. PICK p \in Seq(Frames) : p = Append(q, f)
  BY Appended
<1>2. /\ Len(q) \in Nat /\ DOMAIN q = 1 .. Len(q) /\ DOMAIN p = 1 .. Len(q) + 1
      /\ \A i \in 1 .. Len(q) : p[i] = q[i] /\ q[i] \in Frames
      /\ p[Len(q) + 1] = f
  BY <1>1, Appended, FrameFacts
<1>3. \A i \in 1 .. Len(q) + 1 : i \in 1 .. Len(q) \/ i = Len(q) + 1
  BY <1>2
<1>4. \A i \in 1 .. Len(q) : q[i] = f => f.type = "push"
  BY <1>2, FrameFacts
<1>5. ASSUME NEW i \in 1 .. Len(q) + 1, NEW j \in 1 .. Len(q) + 1, p[i] = p[j], p[i].type # "push"
      PROVE  i = j
  <2>1. CASE i \in 1 .. Len(q) /\ j \in 1 .. Len(q)
    BY <1>2, <1>5, <2>1 DEF Sound
  <2>2. QED BY <1>2, <1>3, <1>4, <1>5, <2>1
<1>6. ASSUME NEW i \in 1 .. Len(q) + 1, p[i].type = "progress"
      PROVE  \E j \in 1 .. Len(q) + 1 : i < j /\ p[j].type = "result" /\ p[j].id = p[i].id
  <2>1. i \in 1 .. Len(q)
    BY <1>2, <1>3, <1>6
  <2>2. PICK j \in 1 .. Len(q) : i < j /\ q[j].type = "result" /\ q[j].id = q[i].id
    BY <1>2, <1>6, <2>1 DEF Sound
  <2>3. j \in 1 .. Len(q) + 1
    BY <1>2
  <2>4. QED BY <1>2, <2>1, <2>2, <2>3
<1>7. QED BY <1>1, <1>2, <1>5, <1>6 DEF Sound

LEMMA ProgressAndAnswerPut ==
    ASSUME NEW q \in Seq(Frames), NEW id \in Nat, Sound(q), id \notin Responses(q)
    PROVE  Sound(Append(Append(q, Frame("progress", id)), Frame("result", id)))
<1>1. PICK f \in Frames, g \in Frames :
          /\ f = Frame("progress", id) /\ g = Frame("result", id)
          /\ f.type = "progress" /\ f.id = id /\ g.type = "result" /\ g.id = id
  <2>1. Frame("progress", id) \in Frames /\ Frame("result", id) \in Frames
    BY DEF Frame, Frames
  <2>2. /\ Frame("progress", id).type = "progress" /\ Frame("progress", id).id = id
        /\ Frame("result", id).type = "result" /\ Frame("result", id).id = id
    BY DEF Frame
  <2>3. QED BY <2>1, <2>2
<1>2. PICK r \in Seq(Frames) : r = Append(q, f)
  BY Appended
<1>3. PICK p \in Seq(Frames) : p = Append(r, g)
  BY Appended
<1>4. /\ Len(q) \in Nat /\ DOMAIN q = 1 .. Len(q) /\ DOMAIN r = 1 .. Len(q) + 1
      /\ \A i \in 1 .. Len(q) : r[i] = q[i] /\ q[i] \in Frames
      /\ r[Len(q) + 1] = f
  BY <1>2, Appended, FrameFacts
<1>5. /\ DOMAIN r = 1 .. Len(r) /\ Len(r) \in Nat /\ DOMAIN p = 1 .. Len(r) + 1
      /\ \A i \in 1 .. Len(r) : p[i] = r[i]
      /\ p[Len(r) + 1] = g
  BY <1>3, Appended
<1>6. Len(r) = Len(q) + 1
  BY <1>2, <1>4, AppendProperties
<1>7. /\ DOMAIN p = 1 .. Len(q) + 2 /\ p[Len(q) + 1] = f /\ p[Len(q) + 2] = g
      /\ \A i \in 1 .. Len(q) : p[i] = q[i]
  <2>1. Len(r) + 1 = Len(q) + 2 /\ Len(q) + 1 \in 1 .. Len(r) /\ \A i \in 1 .. Len(q) : i \in 1 .. Len(r)
    BY <1>4, <1>6
  <2>2. QED BY <1>4, <1>5, <1>6, <2>1
<1>8. \A i \in 1 .. Len(q) + 2 : i \in 1 .. Len(q) \/ i = Len(q) + 1 \/ i = Len(q) + 2
  BY <1>4
<1>9. \A i \in 1 .. Len(q) : q[i] # f /\ q[i] # g
  <2>1. ASSUME NEW i \in 1 .. Len(q) PROVE q[i] # g
    BY <1>1, <1>4, FrameFacts
  <2>2. ASSUME NEW i \in 1 .. Len(q), q[i] = f PROVE FALSE
    <3>1. \E j \in DOMAIN q : q[j].type = "result" /\ q[j].id = id
      BY <1>1, <1>4, <2>2 DEF Sound
    <3>2. QED BY <3>1, FrameFacts
  <2>3. QED BY <2>1, <2>2
<1>10. ASSUME NEW i \in 1 .. Len(q) + 2, NEW j \in 1 .. Len(q) + 2, p[i] = p[j], p[i].type # "push"
       PROVE  i = j
  <2>1. CASE i \in 1 .. Len(q) /\ j \in 1 .. Len(q)
    <3>1. \A k, l \in 1 .. Len(q) : q[k] = q[l] /\ q[k].type # "push" => k = l
      BY <1>4 DEF Sound
    <3>2. p[i] = q[i] /\ p[j] = q[j]
      BY <1>7, <2>1
    <3>3. QED BY <1>10, <2>1, <3>1, <3>2
  <2>2. f # g
    BY <1>1
  <2>3. CASE i \in 1 .. Len(q) /\ j \notin 1 .. Len(q)
    BY <1>7, <1>8, <1>9, <1>10, <2>3
  <2>4. CASE i \notin 1 .. Len(q) /\ j \in 1 .. Len(q)
    BY <1>7, <1>8, <1>9, <1>10, <2>4
  <2>5. CASE i \notin 1 .. Len(q) /\ j \notin 1 .. Len(q)
    BY <1>7, <1>8, <1>10, <2>2, <2>5
  <2>6. QED BY <2>1, <2>3, <2>4, <2>5
<1>11. ASSUME NEW i \in 1 .. Len(q) + 2, p[i].type = "progress"
       PROVE  \E j \in 1 .. Len(q) + 2 : i < j /\ p[j].type = "result" /\ p[j].id = p[i].id
  <2>1. CASE i \in 1 .. Len(q)
    <3>1. PICK j \in 1 .. Len(q) : i < j /\ q[j].type = "result" /\ q[j].id = q[i].id
      BY <1>4, <1>7, <1>11, <2>1 DEF Sound
    <3>2. j \in 1 .. Len(q) + 2
      BY <1>4
    <3>3. QED BY <1>7, <2>1, <3>1, <3>2
  <2>2. CASE i = Len(q) + 1
    <3>1. Len(q) + 2 \in 1 .. Len(q) + 2 /\ i < Len(q) + 2
      BY <1>4, <2>2
    <3>2. QED BY <1>1, <1>7, <2>2, <3>1
  <2>3. QED BY <1>1, <1>7, <1>8, <1>11, <2>1, <2>2
<1>12. Sound(p)
  BY <1>7, <1>10, <1>11 DEF Sound
<1>13. QED BY <1>1, <1>2, <1>3, <1>12

\* The frame at the head: a response is the only one and nothing of its call
\* follows, progress is the only one and the response follows.
LEMMA FrameTaken ==
    ASSUME NEW q \in Seq(Frames), Sound(q), q # <<>>
    PROVE  /\ Tail(q) \in Seq(Frames) /\ Sound(Tail(q)) /\ Head(q) \in Frames
           /\ Head(q).type = "push" => Responses(Tail(q)) = Responses(q) /\ Notes(Tail(q)) = Notes(q)
           /\ Head(q).type = "result" =>
                 /\ Responses(q) = Responses(Tail(q)) \cup {Head(q).id}
                 /\ Head(q).id \notin Responses(Tail(q))
                 /\ Notes(Tail(q)) = Notes(q) /\ Head(q).id \notin Notes(q)
           /\ Head(q).type = "progress" =>
                 /\ Responses(Tail(q)) = Responses(q) /\ Head(q).id \in Responses(q)
                 /\ Notes(q) = Notes(Tail(q)) \cup {Head(q).id}
                 /\ Head(q).id \notin Notes(Tail(q))
<1>1. PICK s \in Seq(Frames) : s = Tail(q)
  BY Shortened
<1>2. PICK h \in Frames : h = Head(q)
  BY Shortened
<1>3. /\ DOMAIN q = 1 .. Len(q) /\ Len(q) \in Nat \ {0} /\ DOMAIN s = 1 .. Len(q) - 1
      /\ \A i \in 1 .. Len(q) - 1 : s[i] = q[i + 1] /\ i + 1 \in 2 .. Len(q)
      /\ Elements(q) = {h} \cup Elements(s) /\ h = q[1]
  BY <1>1, <1>2, Shortened
<1>4. \A i \in 1 .. Len(q) : q[i] \in Frames
  BY <1>3, FrameFacts
<1>5. Sound(s)
  <2>1. ASSUME NEW i \in 1 .. Len(q) - 1, NEW j \in 1 .. Len(q) - 1, s[i] = s[j], s[i].type # "push"
        PROVE  i = j
    <3>1. i + 1 = j + 1
      BY <1>3, <2>1 DEF Sound
    <3>2. QED BY <1>3, <3>1
  <2>2. ASSUME NEW i \in 1 .. Len(q) - 1, s[i].type = "progress"
        PROVE  \E j \in 1 .. Len(q) - 1 : i < j /\ s[j].type = "result" /\ s[j].id = s[i].id
    <3>1. i + 1 \in 1 .. Len(q) /\ q[i + 1].type = "progress"
      BY <1>3, <2>2
    <3>2. PICK j \in 1 .. Len(q) : i + 1 < j /\ q[j].type = "result" /\ q[j].id = q[i + 1].id
      BY <1>3, <3>1 DEF Sound
    <3>3. j - 1 \in 1 .. Len(q) - 1 /\ i < j - 1 /\ (j - 1) + 1 = j
      BY <1>3, <3>2
    <3>4. s[j - 1] = q[j]
      BY <1>3, <3>3
    <3>5. QED BY <1>3, <3>2, <3>3, <3>4
  <2>3. QED BY <1>3, <2>1, <2>2 DEF Sound
<1>6. /\ Responses(q) = IF h.type = "result" THEN Responses(s) \cup {h.id} ELSE Responses(s)
      /\ Notes(q) = IF h.type = "progress" THEN Notes(s) \cup {h.id} ELSE Notes(s)
  BY <1>3 DEF Responses, Notes
<1>7. h.type # "push" => h \notin Elements(s)
  <2>1. ASSUME NEW i \in 1 .. Len(q) - 1, s[i] = h, h.type # "push" PROVE FALSE
    <3>1. 1 \in 1 .. Len(q) /\ i + 1 \in 1 .. Len(q) /\ i + 1 # 1
      BY <1>3
    <3>2. QED BY <1>3, <2>1, <3>1 DEF Sound
  <2>2. QED BY <1>3, <2>1 DEF Elements
<1>8. \A f \in Elements(s) : f \in Frames
  BY <1>1, FrameFacts DEF Elements
<1>9. \A f \in Elements(s) : f.type = h.type /\ f.id = h.id => f = h
  BY <1>8 DEF Frames
<1>10. h.type = "result" => h.id \notin Responses(s)
  BY <1>7, <1>9 DEF Responses
<1>11. h.type = "progress" => h.id \notin Notes(s)
  BY <1>7, <1>9 DEF Notes
<1>12. h.type = "progress" => h.id \in Responses(q)
  <2>1. Notes(q) \subseteq Responses(q)
    BY FrameFacts
  <2>2. QED BY <1>6, <2>1
<1>13. h.type = "result" => h.id \notin Notes(q)
  <2>1. Notes(s) \subseteq Responses(s)
    BY <1>5, FrameFacts
  <2>2. QED BY <1>6, <1>10, <2>1
<1>14. QED BY <1>1, <1>2, <1>5, <1>6, <1>10, <1>11, <1>12, <1>13

-----------------------------------------------------------------------------
\* The queue for the reader lock

LEMMA LeftQueue ==
    ASSUME NEW q \in Seq(Tasks), NEW t \in Tasks, Once(q)
    PROVE  /\ Without(q, t) \in Seq(Tasks) /\ Once(Without(q, t))
           /\ \A u \in Tasks : IsIn(Without(q, t), u) <=> u # t /\ IsIn(q, u)
<1>1. Len(q) \in Nat /\ DOMAIN q = 1 .. Len(q) /\ \A i \in 1 .. Len(q) : q[i] \in Tasks
  BY LenProperties, ElementOfSeq
<1>2. CASE ~IsIn(q, t)
  BY <1>2 DEF Without, IsIn
<1>3. CASE IsIn(q, t)
  <2>1. PICK place \in 1 .. Len(q) : place = CHOOSE i \in DOMAIN q : q[i] = t
    BY <1>1, <1>3 DEF IsIn
  <2>2. q[place] = t
    BY <1>3, <2>1 DEF IsIn
  <2>3. Without(q, t) = [i \in 1 .. Len(q) - 1 |-> IF i < place THEN q[i] ELSE q[i + 1]]
    BY <1>3, <2>1 DEF Without, IsIn
  <2>4. \A i \in 1 .. Len(q) - 1 :
            IF i < place THEN i \in 1 .. Len(q) ELSE i + 1 \in 1 .. Len(q) /\ i + 1 > place
    BY <1>1, <2>1
  <2>5. PICK n \in Nat : n = Len(q) - 1
    <3>1. Len(q) - 1 \in Nat
      BY <1>1, <2>1
    <3>2. QED BY <3>1
  <2>6. PICK w \in [1 .. n -> Tasks] :
            /\ w = Without(q, t)
            /\ \A i \in 1 .. n : w[i] = IF i < place THEN q[i] ELSE q[i + 1]
    <3>1. Without(q, t) \in [1 .. n -> Tasks]
      BY <1>1, <2>3, <2>4, <2>5
    <3>2. \A i \in 1 .. n : Without(q, t)[i] = IF i < place THEN q[i] ELSE q[i + 1]
      BY <2>3, <2>5
    <3>3. QED BY <3>1, <3>2
  <2>7. w \in Seq(Tasks) /\ DOMAIN w = 1 .. n
    OBVIOUS
  <2>8. Once(w)
    <3>1. ASSUME NEW i \in 1 .. n, NEW j \in 1 .. n, w[i] = w[j] PROVE i = j
      <4>1. PICK k \in 1 .. Len(q) : k = (IF i < place THEN i ELSE i + 1) /\ w[i] = q[k]
        BY <1>1, <2>4, <2>5, <2>6
      <4>2. PICK l \in 1 .. Len(q) : l = (IF j < place THEN j ELSE j + 1) /\ w[j] = q[l]
        BY <1>1, <2>4, <2>5, <2>6
      <4>3. k = l
        BY <1>1, <3>1, <4>1, <4>2 DEF Once
      <4>4. QED BY <4>1, <4>2, <4>3, <1>1, <2>1, <2>5
    <3>2. QED BY <2>7, <3>1 DEF Once
  <2>9. ASSUME NEW u \in Tasks, IsIn(w, u) PROVE u # t /\ IsIn(q, u)
    <3>1. PICK i \in 1 .. n : w[i] = u
      BY <2>7, <2>9 DEF IsIn
    <3>2. PICK k \in 1 .. Len(q) : k # place /\ q[k] = u
      <4>1. CASE i < place
        <5>1. i \in 1 .. Len(q) /\ i # place
          BY <1>1, <2>5, <4>1
        <5>2. q[i] = u
          BY <2>6, <3>1, <4>1
        <5>3. QED BY <5>1, <5>2
      <4>2. CASE ~(i < place)
        <5>1. i + 1 \in 1 .. Len(q) /\ i + 1 # place
          BY <2>4, <2>5, <4>2
        <5>2. q[i + 1] = u
          BY <2>6, <3>1, <4>2
        <5>3. QED BY <5>1, <5>2
      <4>3. QED BY <4>1, <4>2
    <3>3. QED BY <1>1, <2>1, <2>2, <3>2 DEF Once, IsIn
  <2>10. ASSUME NEW u \in Tasks, u # t, IsIn(q, u) PROVE IsIn(w, u)
    <3>1. PICK k \in 1 .. Len(q) : q[k] = u /\ k # place
      BY <1>1, <2>2, <2>10 DEF IsIn
    <3>2. CASE k < place
      <4>1. k \in 1 .. n
        BY <1>1, <2>1, <2>5, <3>2
      <4>2. QED BY <2>6, <2>7, <3>1, <3>2, <4>1 DEF IsIn
    <3>3. CASE k > place
      <4>1. k - 1 \in 1 .. n /\ ~(k - 1 < place) /\ (k - 1) + 1 = k
        BY <1>1, <2>1, <2>5, <3>3
      <4>2. w[k - 1] = u
        BY <2>6, <3>1, <4>1
      <4>3. QED BY <2>7, <4>1, <4>2 DEF IsIn
    <3>4. QED BY <1>1, <2>1, <3>1, <3>2, <3>3
  <2>11. QED BY <2>6, <2>7, <2>8, <2>9, <2>10
<1>4. QED BY <1>2, <1>3

LEMMA QueueJoined ==
    ASSUME NEW q \in Seq(Tasks), NEW t \in Tasks, Once(q), ~IsIn(q, t)
    PROVE  /\ Append(q, t) \in Seq(Tasks) /\ Once(Append(q, t))
           /\ \A u \in Tasks : IsIn(Append(q, t), u) <=> u = t \/ IsIn(q, u)
<1>1. PICK w \in Seq(Tasks) : w = Append(q, t)
  BY Appended
<1>2. /\ Len(q) \in Nat /\ DOMAIN q = 1 .. Len(q) /\ DOMAIN w = 1 .. Len(q) + 1
      /\ \A i \in 1 .. Len(q) : w[i] = q[i]
      /\ w[Len(q) + 1] = t
  BY <1>1, Appended
<1>3. \A i \in 1 .. Len(q) + 1 : i \in 1 .. Len(q) \/ i = Len(q) + 1
  BY <1>2
<1>4. \A i \in 1 .. Len(q) : i \in 1 .. Len(q) + 1
  BY <1>2
<1>5. Len(q) + 1 \in 1 .. Len(q) + 1
  BY <1>2
<1>6. \A i \in 1 .. Len(q) : q[i] # t
  BY <1>2 DEF IsIn
<1>7. Once(w)
  <2>1. \A i, j \in 1 .. Len(q) : q[i] = q[j] => i = j
    BY <1>2 DEF Once
  <2>2. QED BY <1>2, <1>3, <1>6, <2>1 DEF Once
<1>8. \A u \in Tasks : IsIn(w, u) <=> u = t \/ IsIn(q, u)
  BY <1>2, <1>3, <1>4, <1>5 DEF IsIn
<1>9. QED BY <1>1, <1>7, <1>8

LEMMA QueueServed ==
    ASSUME NEW q \in Seq(Tasks), Once(q), q # <<>>
    PROVE  /\ Tail(q) \in Seq(Tasks) /\ Once(Tail(q)) /\ Head(q) \in Tasks /\ IsIn(q, Head(q))
           /\ \A u \in Tasks : IsIn(Tail(q), u) <=> u # Head(q) /\ IsIn(q, u)
<1>1. PICK w \in Seq(Tasks) : w = Tail(q)
  BY Shortened
<1>2. /\ DOMAIN q = 1 .. Len(q) /\ Len(q) \in Nat \ {0} /\ DOMAIN w = 1 .. Len(q) - 1
      /\ \A i \in 1 .. Len(q) - 1 : w[i] = q[i + 1] /\ i + 1 \in 2 .. Len(q)
      /\ Head(q) = q[1] /\ Head(q) \in Tasks
  BY <1>1, Shortened
<1>3. \A i \in 1 .. Len(q) - 1 : i + 1 \in 1 .. Len(q) /\ i + 1 # 1
  BY <1>2
<1>4. 1 \in 1 .. Len(q)
  BY <1>2
<1>5. Once(w)
  <2>1. ASSUME NEW i \in 1 .. Len(q) - 1, NEW j \in 1 .. Len(q) - 1, w[i] = w[j] PROVE i = j
    <3>1. i + 1 = j + 1
      BY <1>2, <1>3, <2>1 DEF Once
    <3>2. QED BY <1>2, <3>1
  <2>2. QED BY <1>2, <2>1 DEF Once
<1>6. ASSUME NEW u \in Tasks, IsIn(w, u) PROVE u # Head(q) /\ IsIn(q, u)
  <2>1. PICK i \in 1 .. Len(q) - 1 : w[i] = u
    BY <1>2, <1>6 DEF IsIn
  <2>2. q[i + 1] = u /\ i + 1 \in 1 .. Len(q) /\ i + 1 # 1
    BY <1>2, <1>3, <2>1
  <2>3. QED BY <1>2, <1>4, <2>2 DEF Once, IsIn
<1>7. ASSUME NEW u \in Tasks, u # Head(q), IsIn(q, u) PROVE IsIn(w, u)
  <2>1. PICK k \in 1 .. Len(q) : q[k] = u /\ k # 1
    BY <1>2, <1>7 DEF IsIn
  <2>2. k - 1 \in 1 .. Len(q) - 1 /\ (k - 1) + 1 = k
    BY <1>2, <2>1
  <2>3. w[k - 1] = u
    BY <1>2, <2>1, <2>2
  <2>4. QED BY <1>2, <2>2, <2>3 DEF IsIn
<1>8. IsIn(q, Head(q))
  BY <1>2, <1>4 DEF IsIn
<1>9. QED BY <1>1, <1>2, <1>5, <1>6, <1>7, <1>8

-----------------------------------------------------------------------------
\* What a step may leave of a call it is not about, and what is then left

Kept(u) ==
    /\ task[u].id \in pending => task[u].id \in pending'
    /\ task[u].id \in progress => task[u].id \in progress'
    /\ task[u].id \in Sent' => task[u].id \in Sent
    /\ task[u].kind = "progress" => Told(task[u].id)' = Told(task[u].id)
    /\ task[u].kind = "plain" /\ task[u].id \in Notes(inbound') => task[u].id \in Notes(inbound)
    /\ \A r \in Elements(wbuf') \cup Elements(wire') :
          r.id = task[u].id => r \in Elements(wbuf) \cup Elements(wire)
    /\ closed' = "no" => closed = "no" /\ (Placed(u) => Placed(u)')

LEMMA TaskKept ==
    ASSUME Typed, next_id' \in Nat, next_id <= next_id', NEW u \in Tasks, TaskOk(u),
           task'[u] = task[u], task[u].pc # "idle" => Kept(u)
    PROVE  TaskOk(u)'
<1>1. CASE task[u].pc = "idle"
  BY <1>1 DEF TaskOk
<1>2. CASE task[u].pc # "idle"
  <2>1. CallOk(u) /\ Kept(u)
    BY <1>2 DEF TaskOk
  <2>2. task[u].id \in 1 .. next_id' - 1
    BY <2>1 DEF CallOk, Typed
  <2>3. /\ task[u].mail \in {0, task[u].id}
        /\ task[u].mail = 0 => task[u].id \in pending'
        /\ task[u].mail # 0 \/ task[u].pc \in Unsent => task[u].id \notin Sent'
        /\ task[u].pc \in Unsent => task[u].mail = 0
    BY <2>1 DEF CallOk, Kept
  <2>4. task[u].kind = "progress" =>
          /\ task[u].id \in progress'
          /\ task[u].seen = IF Told(task[u].id)' \/ task[u].mail # 0 THEN 1 ELSE 0
    BY <2>1 DEF CallOk, Kept
  <2>5. task[u].kind = "plain" => task[u].seen = 0 /\ task[u].id \notin Notes(inbound')
    BY <2>1 DEF CallOk, Kept
  <2>6. \A r \in Elements(wbuf') \cup Elements(wire') : r.id = task[u].id => r.kind = task[u].kind
    BY <2>1 DEF CallOk, Kept
  <2>7. closed' = "no" /\ task[u].pc \in {"yielded"} \cup Waits => Placed(u)'
    BY <2>1 DEF CallOk, Kept
  <2>8. CallOk(u)'
    BY <2>2, <2>3, <2>4, <2>5, <2>6, <2>7 DEF CallOk
  <2>9. QED BY <1>2, <2>8 DEF TaskOk
<1>3. QED BY <1>1, <1>2

\* Nothing on the way, nothing registered but what is t's own: all else is kept.
LEMMA KeptOnTheWay ==
    ASSUME NEW u \in Tasks, task'[u] = task[u],
           task[u].id \in pending => task[u].id \in pending',
           task[u].id \in progress => task[u].id \in progress',
           UNCHANGED <<wbuf, wire, inbound, closed>>
    PROVE  Kept(u)
<1>1. Elements(wbuf)' = Elements(wbuf) /\ Elements(wire)' = Elements(wire)
      /\ Responses(inbound)' = Responses(inbound) /\ Notes(inbound)' = Notes(inbound)
      /\ Ids(wbuf)' = Ids(wbuf) /\ Ids(wire)' = Ids(wire)
  OBVIOUS
<1>2. Sent' = Sent /\ Told(task[u].id)' = Told(task[u].id)
  BY <1>1 DEF Sent, Told
<1>3. Placed(u)' = Placed(u)
  BY <1>1 DEF Placed
<1>4. QED BY <1>1, <1>2, <1>3 DEF Kept

LEMMA DistinctKept ==
    ASSUME Distinct,
           \A u \in Tasks : task'[u].pc # "idle" => task[u].pc # "idle" /\ task'[u].id = task[u].id
    PROVE  Distinct'
  BY DEF Distinct, InFlight

LEMMA EndedFacts ==
    ASSUME Typed, CallInv, NEW t \in Tasks, NEW got \in Nat, EndWith(t, got),
           got \in {0, task[t].id},
           got # 0 => task[t].seen = IF task[t].kind = "progress" THEN 1 ELSE 0
    PROVE  /\ task' \in [Tasks -> TaskStates] /\ result' \in [Tasks -> Outcomes]
           /\ progress' \in SUBSET Nat /\ progress' \subseteq progress
           /\ task'[t] = Idle /\ TaskOk(t)' /\ \A u \in Tasks \ {t} : task'[u] = task[u]
           /\ \A u \in Tasks \ {t} : task[u].pc # "idle" =>
                 task[t].pc = "idle" \/ (task[u].id \in progress => task[u].id \in progress')
           /\ \A u \in Tasks : ResultOk(u)'
           /\ Distinct'
<1>1. Idle \in TaskStates /\ Idle.pc = "idle"
  BY DEF Idle, TaskStates, Kinds
<1>2. task' = [task EXCEPT ![t] = Idle] /\ progress' = progress \ {task[t].id}
  BY DEF EndWith
<1>3. PICK o \in Outcomes : o = [asked |-> task[t].id, got |-> got,
                                kind |-> task[t].kind, seen |-> task[t].seen]
  BY DEF Typed, TaskStates, Outcomes
<1>4. result' = [result EXCEPT ![t] = o]
  BY <1>3 DEF EndWith
<1>5. task' \in [Tasks -> TaskStates] /\ result' \in [Tasks -> Outcomes]
  BY <1>1, <1>2, <1>4 DEF Typed
<1>6. task'[t] = Idle /\ \A u \in Tasks \ {t} : task'[u] = task[u]
  BY <1>2 DEF Typed
<1>7. result'[t] = o /\ \A u \in Tasks \ {t} : result'[u] = result[u]
  BY <1>4 DEF Typed
<1>8. TaskOk(t)'
  BY <1>1, <1>6 DEF TaskOk
<1>9. ASSUME NEW u \in Tasks PROVE ResultOk(u)'
  <2>1. CASE u = t
    BY <1>3, <1>7, <2>1 DEF ResultOk
  <2>2. CASE u # t
    BY <1>7, <2>2 DEF ResultOk, CallInv
  <2>3. QED BY <2>1, <2>2
<1>10. \A u \in Tasks \ {t} : task[u].pc # "idle" /\ task[t].pc # "idle" => task[u].id # task[t].id
  BY DEF CallInv, Distinct, InFlight
<1>11. Distinct'
  <2>1. \A u \in Tasks : task'[u].pc # "idle" => task[u].pc # "idle" /\ task'[u].id = task[u].id
    BY <1>1, <1>6
  <2>2. QED BY <2>1, DistinctKept DEF CallInv
<1>12. progress' \in SUBSET Nat /\ progress' \subseteq progress
  BY <1>2 DEF Typed
<1>13. QED BY <1>2, <1>5, <1>6, <1>8, <1>9, <1>10, <1>11, <1>12

\* Whoever leaves: the lock goes to the head of the queue, or the place in it is given up.
LEMMA LeftLock ==
    ASSUME Typed, LockInv, NEW t \in Tasks, Leave(t), task'[t].pc = "idle",
           \A u \in Tasks \ {t} : task'[u] = task[u]
    PROVE  LockInv' /\ reader' \in Tasks \cup {Nobody} /\ queue' \in Seq(Tasks)
<1>1. queue \in Seq(Tasks) /\ Once(queue) /\ Nobody \notin Tasks
  BY MuxAssumption DEF Typed, LockInv
<1>2. \A u \in Tasks : ~IsIn(<<>>, u)
  BY DEF IsIn
<1>3. Once(<<>>) /\ <<>> \in Seq(Tasks)
  BY DEF Once
<1>4. CASE reader = t /\ queue = <<>>
  <2>1. reader' = Nobody /\ queue' = <<>>
    BY <1>4 DEF Leave
  <2>2. QED BY <1>1, <1>2, <1>3, <1>4, <2>1 DEF LockInv
<1>5. CASE reader = t /\ queue # <<>>
  <2>1. reader' = Head(queue) /\ queue' = Tail(queue)
    BY <1>5 DEF Leave
  <2>2. /\ queue' \in Seq(Tasks) /\ Once(queue') /\ reader' \in Tasks /\ IsIn(queue, reader')
        /\ \A u \in Tasks : IsIn(queue', u) <=> u # reader' /\ IsIn(queue, u)
    BY <1>1, <1>5, <2>1, QueueServed
  <2>3. reader' # t /\ task[reader'].pc = "parked"
    BY <1>5, <2>2 DEF LockInv
  <2>4. QED BY <1>1, <1>5, <2>2, <2>3 DEF LockInv
<1>6. CASE reader # t
  <2>1. reader' = reader /\ queue' = Without(queue, t)
    BY <1>6 DEF Leave
  <2>2. /\ queue' \in Seq(Tasks) /\ Once(queue')
        /\ \A u \in Tasks : IsIn(queue', u) <=> u # t /\ IsIn(queue, u)
    BY <1>1, <2>1, LeftQueue
  <2>3. queue = <<>> => queue' = <<>>
    BY <2>1 DEF Without
  <2>4. reader' \in Tasks \cup {Nobody}
    BY <2>1 DEF Typed
  <2>5. QED BY <1>6, <2>1, <2>2, <2>3, <2>4 DEF LockInv
<1>7. QED BY <1>4, <1>5, <1>6

\* The program points at which a task has nothing to do with the lock.
Aloof == {"idle", "yielded", "select"} \cup Unsent

LEMMA LockKept ==
    ASSUME LockInv, UNCHANGED <<reader, queue>>,
           \A u \in Tasks : task'[u].pc = task[u].pc \/ (task[u].pc \in Aloof /\ task'[u].pc \in Aloof)
    PROVE  LockInv'
<1>1. ASSUME NEW u \in Tasks
      PROVE  /\ IsIn(queue, u) => task'[u].pc = "parked"
             /\ task'[u].pc = "parked" => task[u].pc = "parked"
             /\ task'[u].pc \in {"recheck", "reading"} => reader = u
             /\ reader = u => task'[u].pc \in {"parked", "polled", "recheck", "reading"}
  BY DEF LockInv, Aloof, Unsent
<1>2. QED BY <1>1 DEF LockInv

LEMMA WayKept ==
    ASSUME WayInv, Typed, UNCHANGED <<wbuf, wire, inbound>>, next_id' \in Nat, next_id <= next_id',
           pending' \cup progress' \subseteq (pending \cup progress) \cup 1 .. next_id' - 1
    PROVE  WayInv'
<1>1. Sent' = Sent
  BY DEF Sent
<1>2. 1 .. next_id - 1 \subseteq 1 .. next_id' - 1
  <2>1. next_id \in Nat
    BY DEF Typed
  <2>2. ASSUME NEW m \in Nat, NEW n \in Nat, m <= n PROVE 1 .. m - 1 \subseteq 1 .. n - 1
    BY <2>2
  <2>3. QED BY <2>1, <2>2
<1>3. Uniq(wbuf)' /\ Uniq(wire)' /\ Sound(inbound)'
      /\ Ids(wbuf)' = Ids(wbuf) /\ Ids(wire)' = Ids(wire) /\ Responses(inbound)' = Responses(inbound)
  BY DEF WayInv
<1>4. QED BY <1>1, <1>2, <1>3 DEF WayInv

LEMMA WentTo ==
    ASSUME Typed, NEW t \in Tasks, NEW pc, Goto(t, pc), pc \in {"idle", "yielded"} \cup Unsent \cup Waits
    PROVE  /\ task' \in [Tasks -> TaskStates] /\ \A u \in Tasks \ {t} : task'[u] = task[u]
           /\ task'[t].pc = pc /\ task'[t].id = task[t].id /\ task'[t].kind = task[t].kind
           /\ task'[t].mail = task[t].mail /\ task'[t].seen = task[t].seen
           /\ task[t] \in TaskStates
<1>1. task[t] \in TaskStates
  BY DEF Typed
<1>2. PICK s \in TaskStates : s = [task[t] EXCEPT !.pc = pc]
  BY <1>1 DEF TaskStates
<1>3. task' = [task EXCEPT ![t] = s]
  BY <1>2 DEF Goto
<1>4. s.pc = pc /\ s.id = task[t].id /\ s.kind = task[t].kind /\ s.mail = task[t].mail
      /\ s.seen = task[t].seen
  BY <1>1, <1>2 DEF TaskStates
<1>5. QED BY <1>1, <1>3, <1>4 DEF Typed

LEMMA RequestFacts ==
    ASSUME Typed, NEW t \in Tasks
    PROVE  Request(t) \in Requests /\ Request(t).id = task[t].id /\ Request(t).kind = task[t].kind
  BY DEF Typed, TaskStates, Request, Requests

\* A task that goes on without touching anything but the lock.
LEMMA MovedOn ==
    ASSUME IInv, NEW t \in Tasks, NEW pc, Goto(t, pc),
           \/ task[t].pc \in Unsent /\ pc \in Unsent
           \/ task[t].pc \in Waits /\ pc \in Waits,
           UNCHANGED <<setting, next_id, pending, progress, wbuf, wire, inbound, closed, result>>
    PROVE  task' \in [Tasks -> TaskStates] /\ WayInv' /\ CallInv'
<1>1. /\ Typed /\ WayInv /\ next_id \in Nat /\ \A u \in Tasks : TaskOk(u) /\ ResultOk(u)
      /\ Distinct
  BY DEF IInv, CallInv, Typed
<1>2. /\ task' \in [Tasks -> TaskStates] /\ \A u \in Tasks \ {t} : task'[u] = task[u]
      /\ task'[t].pc = pc /\ task'[t].id = task[t].id /\ task'[t].kind = task[t].kind
      /\ task'[t].mail = task[t].mail /\ task'[t].seen = task[t].seen
  BY <1>1, WentTo
<1>3. WayInv'
  BY <1>1, WayKept
<1>4. /\ Elements(wbuf)' = Elements(wbuf) /\ Elements(wire)' = Elements(wire)
      /\ Responses(inbound)' = Responses(inbound) /\ Notes(inbound)' = Notes(inbound)
      /\ Ids(wbuf)' = Ids(wbuf) /\ Ids(wire)' = Ids(wire)
  OBVIOUS
<1>5. Sent' = Sent /\ Told(task[t].id)' = Told(task[t].id)
  BY <1>2, <1>4 DEF Sent, Told
<1>6. task[t].pc # "idle" /\ CallOk(t) /\ task'[t].pc # "idle"
  BY <1>1, <1>2 DEF TaskOk, Unsent, Waits
<1>7. task'[t].pc \in Waits => task[t].pc \in Waits /\ (Placed(t) => Placed(t)')
  BY <1>2, <1>4 DEF Placed, Unsent, Waits
<1>8. CallOk(t)'
  <2>1. task'[t].pc \in Unsent => task[t].pc \in Unsent
    BY <1>2 DEF Unsent, Waits
  <2>2. closed' = "no" /\ task'[t].pc \in {"yielded"} \cup Waits => Placed(t)'
    BY <1>2, <1>6, <1>7 DEF CallOk, Unsent, Waits
  <2>3. QED BY <1>2, <1>4, <1>5, <1>6, <2>1, <2>2 DEF CallOk
<1>9. ASSUME NEW u \in Tasks PROVE TaskOk(u)'
  <2>1. CASE u = t
    BY <1>6, <1>8, <2>1 DEF TaskOk
  <2>2. CASE u # t
    BY <1>1, <1>2, <2>2, KeptOnTheWay, TaskKept
  <2>3. QED BY <2>1, <2>2
<1>10. \A u \in Tasks : ResultOk(u)'
  BY <1>1 DEF ResultOk
<1>11. Distinct'
  BY <1>1, <1>2, <1>6, DistinctKept
<1>12. QED BY <1>2, <1>3, <1>9, <1>10, <1>11 DEF CallInv

\* A call that ends, leaving what is on the way as it is.
LEMMA EndedQuietly ==
    ASSUME IInv, NEW t \in Tasks, task[t].pc # "idle", NEW got \in Nat, EndWith(t, got),
           got \in {0, task[t].id},
           got # 0 => task[t].seen = IF task[t].kind = "progress" THEN 1 ELSE 0,
           UNCHANGED <<setting, next_id, pending, wbuf, wire, inbound, closed>>
    PROVE  /\ task' \in [Tasks -> TaskStates] /\ result' \in [Tasks -> Outcomes]
           /\ progress' \in SUBSET Nat
           /\ task'[t] = Idle /\ \A u \in Tasks \ {t} : task'[u] = task[u]
           /\ WayInv' /\ CallInv'
<1>1. Typed /\ WayInv /\ CallInv /\ next_id \in Nat /\ \A u \in Tasks : TaskOk(u)
  BY DEF IInv, CallInv, Typed
<1>2. /\ task' \in [Tasks -> TaskStates] /\ result' \in [Tasks -> Outcomes]
      /\ progress' \in SUBSET Nat /\ progress' \subseteq progress
      /\ task'[t] = Idle /\ TaskOk(t)' /\ \A u \in Tasks \ {t} : task'[u] = task[u]
      /\ \A u \in Tasks \ {t} : task[u].pc # "idle" =>
            task[t].pc = "idle" \/ (task[u].id \in progress => task[u].id \in progress')
      /\ \A u \in Tasks : ResultOk(u)'
      /\ Distinct'
  BY <1>1, EndedFacts
<1>3. WayInv'
  <2>1. pending' \cup progress' \subseteq (pending \cup progress) \cup 1 .. next_id' - 1
    BY <1>2
  <2>2. next_id' \in Nat /\ next_id <= next_id' /\ UNCHANGED <<wbuf, wire, inbound>>
    BY <1>1
  <2>3. QED BY <1>1, <2>1, <2>2, WayKept
<1>4. ASSUME NEW u \in Tasks \ {t} PROVE TaskOk(u)'
  <2>1. task[u].pc # "idle" => Kept(u)
    BY <1>2, KeptOnTheWay
  <2>2. QED BY <1>1, <1>2, <2>1, TaskKept
<1>5. CallInv'
  BY <1>2, <1>4 DEF CallInv
<1>6. QED BY <1>2, <1>3, <1>5

-----------------------------------------------------------------------------
\* The steps of a request up to the flush

LEMMA InitIInv == Init => IInv
<1>1. SUFFICES ASSUME Init PROVE IInv
  OBVIOUS
<1>2. Idle \in TaskStates /\ NoResult \in Outcomes
  BY DEF Idle, NoResult, TaskStates, Outcomes, Kinds
<1>3. \A S : <<>> \in Seq(S)
  OBVIOUS
<1>4. setting \in Settings /\ setting.ids \in Nat
  BY <1>1, MuxAssumption DEF Init, IsSetting
<1>5. \A t \in Tasks : task[t] = Idle /\ result[t] = NoResult
  BY <1>1 DEF Init
<1>6. Typed
  BY <1>1, <1>2, <1>3, <1>4 DEF Init, Typed
<1>7. WayInv
  BY <1>1, Nothing DEF Init, WayInv, Sent
<1>8. CallInv
  <2>1. \A t \in Tasks : TaskOk(t)
    BY <1>5 DEF TaskOk, Idle
  <2>2. \A t \in Tasks : ResultOk(t)
    BY <1>5 DEF ResultOk, NoResult
  <2>3. Distinct
    BY <1>5 DEF Distinct, InFlight, Idle
  <2>4. QED BY <2>1, <2>2, <2>3 DEF CallInv
<1>9. LockInv
  <2>1. queue = <<>> /\ reader = Nobody /\ Nobody \notin Tasks /\ \A t \in Tasks : task[t].pc = "idle"
    BY <1>1, <1>5, MuxAssumption DEF Init, Idle
  <2>2. Once(queue) /\ \A t \in Tasks : ~IsIn(queue, t)
    BY <2>1 DEF Once, IsIn
  <2>3. QED BY <2>1, <2>2 DEF LockInv
<1>10. QED BY <1>6, <1>7, <1>8, <1>9 DEF IInv

LEMMA StartStep ==
    ASSUME IInv, NEW t \in Tasks, NEW kind, kind \in Kinds, Start(t, kind)
    PROVE  IInv'
<1>1. /\ Typed /\ WayInv /\ LockInv /\ Distinct /\ next_id \in Nat \ {0}
      /\ \A u \in Tasks : TaskOk(u) /\ ResultOk(u)
  BY DEF IInv, CallInv, Typed
<1>2. /\ UNCHANGED <<setting, wbuf, wire, inbound, reader, queue, closed, result>>
      /\ next_id' = next_id + 1 /\ next_id <= setting.ids /\ task[t].pc = "idle"
      /\ pending' = pending \cup {next_id}
      /\ progress' = IF kind = "progress" THEN progress \cup {next_id} ELSE progress
  BY DEF Start, receiving, server
<1>3. PICK s \in TaskStates :
          /\ s = [Idle EXCEPT !.pc = "registered", !.id = next_id, !.kind = kind]
          /\ s.pc = "registered" /\ s.id = next_id /\ s.kind = kind /\ s.mail = 0 /\ s.seen = 0
  <2>1. PICK idle \in TaskStates : idle = Idle /\ idle.mail = 0 /\ idle.seen = 0
    <3>1. Idle \in TaskStates /\ Idle.mail = 0 /\ Idle.seen = 0
      BY DEF Idle, TaskStates, Kinds
    <3>2. QED BY <3>1
  <2>2. PICK s \in TaskStates : s = [idle EXCEPT !.pc = "registered", !.id = next_id, !.kind = kind]
    BY <1>1 DEF TaskStates, Unsent
  <2>3. s.pc = "registered" /\ s.id = next_id /\ s.kind = kind /\ s.mail = 0 /\ s.seen = 0
    BY <2>1, <2>2 DEF TaskStates
  <2>4. QED BY <2>1, <2>2, <2>3
<1>4. task' = [task EXCEPT ![t] = s]
  BY <1>3 DEF Start
<1>5. /\ task' \in [Tasks -> TaskStates] /\ task'[t] = s
      /\ \A u \in Tasks \ {t} : task'[u] = task[u]
  BY <1>1, <1>4 DEF Typed
<1>6. next_id' \in Nat /\ next_id <= next_id' /\ next_id \in 1 .. next_id' - 1
      /\ next_id \notin 1 .. next_id - 1
  BY <1>1, <1>2
<1>7. WayInv'
  <2>1. pending' \cup progress' \subseteq (pending \cup progress) \cup 1 .. next_id' - 1
    BY <1>2, <1>6
  <2>2. QED BY <1>1, <1>2, <1>6, <2>1, WayKept
<1>8. Typed'
  <2>1. next_id' \in Nat \ {0} /\ next_id' <= setting.ids + 1
    <3>1. setting.ids \in Nat
      BY <1>1, MuxAssumption DEF Typed, IsSetting
    <3>2. QED BY <1>1, <1>2, <3>1
  <2>2. pending' \in SUBSET Nat /\ progress' \in SUBSET Nat
    BY <1>1, <1>2 DEF Typed
  <2>3. QED BY <1>1, <1>2, <1>5, <2>1, <2>2 DEF Typed
<1>9. next_id \notin Sent' /\ next_id \notin Notes(inbound') /\ next_id \notin Responses(inbound')
      /\ \A r \in Elements(wbuf') \cup Elements(wire') : r.id # next_id
  <2>1. next_id \notin Sent
    BY <1>1, <1>6 DEF WayInv
  <2>2. inbound \in Seq(Frames) /\ Sound(inbound)
    BY <1>1 DEF Typed, WayInv
  <2>3. Notes(inbound) \subseteq Responses(inbound)
    BY <2>2, FrameFacts
  <2>4. next_id \notin Ids(wbuf) /\ next_id \notin Ids(wire) /\ next_id \notin Responses(inbound)
    BY <2>1 DEF Sent
  <2>5. \A r \in Elements(wbuf') \cup Elements(wire') : r.id # next_id
    BY <1>2, <2>4 DEF Ids
  <2>6. next_id \notin Sent'
    BY <1>2, <2>1 DEF Sent
  <2>7. next_id \notin Notes(inbound') /\ next_id \notin Responses(inbound')
    BY <1>2, <2>3, <2>4
  <2>8. QED BY <2>5, <2>6, <2>7
<1>10. CallOk(t)'
  <2>1. s.pc \in Unsent /\ s.pc \notin {"yielded"} \cup Waits
    BY <1>3 DEF Unsent, Waits
  <2>2. /\ s.id \in 1 .. next_id' - 1 /\ s.id \in pending' /\ s.id \notin Sent'
        /\ s.id \notin Notes(inbound')
        /\ s.kind = "progress" => s.id \in progress'
    BY <1>2, <1>3, <1>6, <1>9
  <2>3. ~Told(task[t].id)'
    BY <1>3, <1>5, <1>9 DEF Told
  <2>4. \A r \in Elements(wbuf') \cup Elements(wire') : r.id # s.id
    BY <1>3, <1>9
  <2>5. QED BY <1>3, <1>5, <2>1, <2>2, <2>3, <2>4 DEF CallOk
<1>11. ASSUME NEW u \in Tasks PROVE TaskOk(u)'
  <2>1. CASE u = t
    BY <1>3, <1>5, <1>10, <2>1 DEF TaskOk
  <2>2. CASE u # t
    BY <1>1, <1>2, <1>5, <1>6, <2>2, KeptOnTheWay, TaskKept
  <2>3. QED BY <2>1, <2>2
<1>12. \A u \in Tasks : ResultOk(u)'
  BY <1>1, <1>2 DEF ResultOk
<1>13. Distinct'
  <2>1. \A u \in Tasks : task[u].pc # "idle" => task[u].id # next_id
    BY <1>1, <1>6 DEF TaskOk, CallOk
  <2>2. \A u \in Tasks \ {t} : task'[u].pc # "idle" => task[u].pc # "idle" /\ task'[u].id = task[u].id
    BY <1>5
  <2>3. ASSUME NEW u \in Tasks, NEW v \in Tasks, u # v, task'[u].pc # "idle", task'[v].pc # "idle"
        PROVE  task'[u].id # task'[v].id
    <3>1. CASE u # t /\ v # t
      <4>1. \A w, x \in Tasks :
                w # x /\ task[w].pc # "idle" /\ task[x].pc # "idle" => task[w].id # task[x].id
        BY <1>1 DEF Distinct, InFlight
      <4>2. task'[u] = task[u] /\ task'[v] = task[v]
        BY <1>5, <3>1
      <4>3. QED BY <2>3, <4>1, <4>2
    <3>2. CASE u = t
      BY <1>3, <1>5, <2>1, <2>2, <2>3, <3>2
    <3>3. CASE v = t
      BY <1>3, <1>5, <2>1, <2>2, <2>3, <3>3
    <3>4. QED BY <3>1, <3>2, <3>3
  <2>4. QED BY <2>3 DEF Distinct, InFlight
<1>14. LockInv'
  <2>1. task[t].pc \in Aloof /\ task'[t].pc \in Aloof
    BY <1>2, <1>3, <1>5 DEF Aloof, Unsent
  <2>2. QED BY <1>1, <1>2, <1>5, <2>1, LockKept
<1>15. QED BY <1>7, <1>8, <1>11, <1>12, <1>13, <1>14 DEF IInv, CallInv

LEMMA ChoosePathStep ==
    ASSUME IInv, NEW t \in Tasks, ChoosePath(t)
    PROVE  IInv'
<1>1. PICK pc : Goto(t, pc) /\ pc \in Unsent
  BY DEF ChoosePath, Unsent
<1>2. /\ task[t].pc = "registered"
      /\ UNCHANGED <<setting, next_id, pending, progress, wbuf, wire, inbound, closed, result>>
      /\ UNCHANGED <<reader, queue>>
  BY DEF ChoosePath, sending, receiving, server
<1>3. task' \in [Tasks -> TaskStates] /\ WayInv' /\ CallInv'
  <2>1. task[t].pc \in Unsent /\ pc \in Unsent
    BY <1>1, <1>2 DEF Unsent
  <2>2. UNCHANGED <<setting, next_id, pending, progress, wbuf, wire, inbound, closed, result>>
    BY <1>2
  <2>3. Goto(t, pc)
    BY <1>1
  <2>4. QED BY <2>1, <2>2, <2>3, MovedOn
<1>4. Typed /\ LockInv
  BY DEF IInv
<1>5. LockInv'
  <2>1. task'[t].pc = pc /\ \A u \in Tasks \ {t} : task'[u] = task[u]
    BY <1>1, <1>4, WentTo DEF Unsent
  <2>2. QED BY <1>1, <1>2, <1>4, <2>1, LockKept DEF Aloof, Unsent
<1>6. Typed'
  BY <1>2, <1>3, <1>4 DEF Typed
<1>7. QED BY <1>3, <1>5, <1>6 DEF IInv

\* The request of a task that has not sent it yet goes into the buffer.
LEMMA OwnQueued ==
    ASSUME IInv, NEW t \in Tasks, task[t].pc \in Unsent
    PROVE  LET q == Append(wbuf, Request(t))
           IN  /\ q \in Seq(Requests) /\ Uniq(q) /\ Ids(q) = Ids(wbuf) \cup {task[t].id}
               /\ Elements(q) = Elements(wbuf) \cup {Request(t)}
               /\ Ids(q) \cap Ids(wire) = {} /\ Responses(inbound) \cap Ids(q) = {}
               /\ task[t].id \notin Sent /\ task[t].id \in 1 .. next_id - 1
               /\ CallOk(t) /\ task[t].pc # "idle"
<1>1. Typed /\ WayInv /\ TaskOk(t) /\ wbuf \in Seq(Requests)
  BY DEF IInv, CallInv, Typed
<1>2. CallOk(t) /\ task[t].pc # "idle"
  BY <1>1 DEF TaskOk, Unsent
<1>3. task[t].id \notin Sent /\ task[t].id \in 1 .. next_id - 1
  BY <1>2 DEF CallOk
<1>4. Request(t) \in Requests /\ Request(t).id = task[t].id
  BY <1>1, RequestFacts
<1>5. PICK r \in Requests : r = Request(t)
  BY <1>4
<1>6. PICK q : q = Append(wbuf, r)
  OBVIOUS
<1>7. q \in Seq(Requests) /\ Elements(q) = Elements(wbuf) \cup {r}
  BY <1>1, <1>6, Appended
<1>8. Uniq(q) /\ Ids(q) = Ids(wbuf) \cup {r.id}
  <2>1. Uniq(wbuf) /\ r.id \notin Ids(wbuf)
    BY <1>1, <1>3, <1>4, <1>5 DEF WayInv, Sent
  <2>2. QED BY <1>1, <1>6, <2>1, RequestQueued
<1>9. Ids(q) \cap Ids(wire) = {} /\ Responses(inbound) \cap Ids(q) = {}
  BY <1>1, <1>3, <1>4, <1>5, <1>8 DEF WayInv, Sent
<1>10. QED BY <1>2, <1>3, <1>4, <1>5, <1>6, <1>7, <1>8, <1>9

\* The calls of others do not mind one more request on the way.
LEMMA KeptBesidesRequest ==
    ASSUME IInv, NEW t \in Tasks, NEW u \in Tasks, u # t, task[t].pc # "idle", task[u].pc # "idle",
           task'[u] = task[u], task[u].id \in pending => task[u].id \in pending',
           task[u].id \in progress => task[u].id \in progress', inbound' = inbound,
           Sent' \subseteq Sent \cup {task[t].id},
           Elements(wbuf') \cup Elements(wire') \subseteq Elements(wbuf) \cup Elements(wire) \cup {Request(t)},
           closed' = closed, closed = "no" /\ Placed(u) => Placed(u)'
    PROVE  Kept(u)
<1>1. task[u].id # task[t].id
  BY DEF IInv, CallInv, Distinct, InFlight
<1>2. Request(t).id = task[t].id
  BY RequestFacts DEF IInv
<1>3. Told(task[u].id)' = Told(task[u].id) /\ Notes(inbound') = Notes(inbound)
  BY DEF Told
<1>4. task[u].id \in Sent' => task[u].id \in Sent
  BY <1>1
<1>5. \A r \in Elements(wbuf') \cup Elements(wire') :
          r.id = task[u].id => r \in Elements(wbuf) \cup Elements(wire)
  BY <1>1, <1>2
<1>6. closed' = "no" => closed = "no" /\ (Placed(u) => Placed(u)')
  OBVIOUS
<1>7. QED BY <1>3, <1>4, <1>5, <1>6 DEF Kept

LEMMA EnqueueStep ==
    ASSUME IInv, NEW t \in Tasks, Enqueue(t)
    PROVE  IInv'
<1>1. /\ Typed /\ WayInv /\ LockInv /\ Distinct /\ next_id \in Nat
      /\ \A u \in Tasks : TaskOk(u) /\ ResultOk(u)
  BY DEF IInv, CallInv, Typed
<1>2. /\ UNCHANGED <<setting, next_id, pending, progress, wire, inbound, reader, queue, closed, result>>
      /\ task[t].pc = "contended" /\ Goto(t, "yielded") /\ wbuf' = Append(wbuf, Request(t))
  BY DEF Enqueue, receiving, server
<1>3. /\ wbuf' \in Seq(Requests) /\ Uniq(wbuf') /\ Ids(wbuf') = Ids(wbuf) \cup {task[t].id}
      /\ Elements(wbuf') = Elements(wbuf) \cup {Request(t)}
      /\ Ids(wbuf') \cap Ids(wire) = {} /\ Responses(inbound) \cap Ids(wbuf') = {}
      /\ task[t].id \notin Sent /\ task[t].id \in 1 .. next_id - 1
      /\ CallOk(t) /\ task[t].pc # "idle"
  BY <1>2, OwnQueued DEF Unsent
<1>4. /\ task' \in [Tasks -> TaskStates] /\ \A u \in Tasks \ {t} : task'[u] = task[u]
      /\ task'[t].pc = "yielded" /\ task'[t].id = task[t].id /\ task'[t].kind = task[t].kind
      /\ task'[t].mail = task[t].mail /\ task'[t].seen = task[t].seen
  BY <1>1, <1>2, WentTo
<1>5. /\ Elements(wire)' = Elements(wire) /\ Ids(wire)' = Ids(wire)
      /\ Responses(inbound)' = Responses(inbound) /\ Notes(inbound)' = Notes(inbound)
      /\ Sent' = Sent \cup {task[t].id}
  BY <1>2, <1>3 DEF Sent
<1>6. Typed'
  BY <1>1, <1>2, <1>3, <1>4 DEF Typed
<1>7. WayInv'
  BY <1>1, <1>2, <1>3, <1>5 DEF WayInv
<1>8. CallOk(t)'
  <2>1. task[t].mail = 0 /\ Request(t).id = task[t].id /\ Request(t).kind = task[t].kind
    BY <1>1, <1>2, <1>3, RequestFacts DEF CallOk, Unsent
  <2>2. Placed(t)'
    BY <1>3, <1>4 DEF Placed
  <2>3. Told(task[t].id)' = Told(task[t].id)
    BY <1>4, <1>5 DEF Told
  <2>4. "yielded" \notin Unsent
    BY DEF Unsent
  <2>5. \A r \in Elements(wbuf') \cup Elements(wire') : r.id = task[t].id => r.kind = task[t].kind
    BY <1>3, <1>5, <2>1 DEF CallOk
  <2>6. QED BY <1>2, <1>3, <1>4, <1>5, <2>1, <2>2, <2>3, <2>4, <2>5 DEF CallOk
<1>9. ASSUME NEW u \in Tasks \ {t} PROVE TaskOk(u)'
  <2>1. Placed(u) => Placed(u)'
    BY <1>3, <1>4, <1>5 DEF Placed
  <2>2. /\ task'[u] = task[u] /\ u # t /\ u \in Tasks
        /\ task[u].id \in pending => task[u].id \in pending'
        /\ task[u].id \in progress => task[u].id \in progress'
        /\ inbound' = inbound /\ closed' = closed
        /\ Sent' \subseteq Sent \cup {task[t].id}
        /\ Elements(wbuf') \cup Elements(wire')
              \subseteq Elements(wbuf) \cup Elements(wire) \cup {Request(t)}
    BY <1>2, <1>3, <1>4, <1>5
  <2>3. task[u].pc # "idle" => Kept(u)
    BY <1>3, <2>1, <2>2, KeptBesidesRequest
  <2>4. next_id' \in Nat /\ next_id <= next_id'
    BY <1>1, <1>2
  <2>5. QED BY <1>1, <2>2, <2>3, <2>4, TaskKept
<1>10. TaskOk(t)'
  BY <1>4, <1>8 DEF TaskOk
<1>11. \A u \in Tasks : ResultOk(u)'
  BY <1>1, <1>2 DEF ResultOk
<1>12. Distinct'
  BY <1>1, <1>3, <1>4, DistinctKept
<1>13. LockInv'
  <2>1. task[t].pc \in Aloof /\ task'[t].pc \in Aloof
    BY <1>2, <1>4 DEF Aloof, Unsent
  <2>2. QED BY <1>1, <1>2, <1>4, <2>1, LockKept
<1>14. CallInv'
  BY <1>9, <1>10, <1>11, <1>12 DEF CallInv
<1>15. QED BY <1>6, <1>7, <1>13, <1>14 DEF IInv

LEMMA FlushStep ==
    ASSUME IInv, NEW t \in Tasks, Flush(t)
    PROVE  IInv'
<1>1. /\ Typed /\ WayInv /\ LockInv /\ Distinct /\ next_id \in Nat
      /\ \A u \in Tasks : TaskOk(u) /\ ResultOk(u)
      /\ wbuf \in Seq(Requests) /\ wire \in Seq(Requests)
  BY DEF IInv, CallInv, Typed
<1>2. task[t].pc = "yielded" /\ task[t].pc \in Aloof /\ CallOk(t)
  BY <1>1 DEF Flush, Aloof, TaskOk
<1>3. CASE wbuf # <<>> /\ closed = "yes"
  <2>1. /\ EndWith(t, 0)
        /\ UNCHANGED <<setting, next_id, pending, wbuf, wire, inbound, closed, reader, queue>>
    BY <1>3 DEF Flush, WriteFails, receiving, server
  <2>2. /\ task' \in [Tasks -> TaskStates] /\ result' \in [Tasks -> Outcomes]
        /\ progress' \in SUBSET Nat
        /\ task'[t] = Idle /\ \A u \in Tasks \ {t} : task'[u] = task[u]
        /\ WayInv' /\ CallInv'
    BY <1>2, <2>1, EndedQuietly
  <2>3. LockInv'
    BY <1>1, <1>2, <2>1, <2>2, LockKept DEF Aloof, Idle
  <2>4. Typed'
    BY <1>1, <2>1, <2>2 DEF Typed
  <2>5. QED BY <2>2, <2>3, <2>4 DEF IInv
<1>4. CASE ~(wbuf # <<>> /\ closed = "yes")
  <2>1. /\ UNCHANGED <<setting, next_id, pending, progress, inbound, reader, queue, closed, result>>
        /\ Goto(t, "select") /\ wire' = wire \o wbuf /\ wbuf' = <<>>
    BY <1>4 DEF Flush, receiving, server
  <2>2. /\ wire' \in Seq(Requests) /\ Uniq(wire') /\ Ids(wire') = Ids(wire) \cup Ids(wbuf)
        /\ Elements(wire') = Elements(wire) \cup Elements(wbuf)
    <3>1. Uniq(wire) /\ Uniq(wbuf) /\ Ids(wire) \cap Ids(wbuf) = {}
      BY <1>1 DEF WayInv
    <3>2. QED BY <1>1, <2>1, <3>1, RequestsJoined, Joined
  <2>3. /\ wbuf' \in Seq(Requests) /\ Uniq(wbuf') /\ Ids(wbuf') = {} /\ Elements(wbuf') = {}
    <3>1. <<>> \in Seq(Requests)
      OBVIOUS
    <3>2. QED BY <2>1, <3>1, Nothing
  <2>4. /\ task' \in [Tasks -> TaskStates] /\ \A u \in Tasks \ {t} : task'[u] = task[u]
        /\ task'[t].pc = "select" /\ task'[t].id = task[t].id /\ task'[t].kind = task[t].kind
        /\ task'[t].mail = task[t].mail /\ task'[t].seen = task[t].seen
    <3>1. "select" \in Waits
      BY DEF Waits
    <3>2. QED BY <1>1, <2>1, <3>1, WentTo
  <2>5. /\ Responses(inbound)' = Responses(inbound) /\ Notes(inbound)' = Notes(inbound)
        /\ Sent' = Sent
    BY <2>1, <2>2, <2>3 DEF Sent
  <2>6. Typed'
    BY <1>1, <2>1, <2>2, <2>3, <2>4 DEF Typed
  <2>7. WayInv'
    BY <1>1, <2>1, <2>2, <2>3, <2>5 DEF WayInv
  <2>8. CallOk(t)'
    <3>1. "select" \notin Unsent /\ Told(task[t].id)' = Told(task[t].id)
      BY <2>4, <2>5 DEF Unsent, Told
    <3>2. closed' = "no" => Placed(t)'
      BY <1>2, <2>1, <2>2, <2>4, <2>5 DEF CallOk, Placed
    <3>3. \A r \in Elements(wbuf') \cup Elements(wire') : r.id = task[t].id => r.kind = task[t].kind
      BY <1>2, <2>2, <2>3 DEF CallOk
    <3>4. QED BY <1>2, <2>1, <2>4, <2>5, <3>1, <3>2, <3>3 DEF CallOk
  <2>9. ASSUME NEW u \in Tasks \ {t} PROVE TaskOk(u)'
    <3>1. Placed(u) => Placed(u)'
      BY <2>2, <2>4, <2>5 DEF Placed
    <3>2. Told(task[u].id)' = Told(task[u].id)
      BY <2>4, <2>5 DEF Told
    <3>3. Kept(u)
      BY <2>1, <2>2, <2>3, <2>5, <3>1, <3>2 DEF Kept
    <3>4. task'[u] = task[u] /\ next_id' \in Nat /\ next_id <= next_id'
      BY <1>1, <2>1, <2>4
    <3>5. QED BY <1>1, <3>3, <3>4, TaskKept
  <2>10. TaskOk(t)'
    BY <2>4, <2>8 DEF TaskOk
  <2>11. \A u \in Tasks : ResultOk(u)'
    BY <1>1, <2>1 DEF ResultOk
  <2>12. Distinct'
    BY <1>1, <1>2, <2>4, DistinctKept
  <2>13. LockInv'
    BY <1>1, <1>2, <2>1, <2>4, LockKept DEF Aloof
  <2>14. CallInv'
    BY <2>9, <2>10, <2>11, <2>12 DEF CallInv
  <2>15. QED BY <2>6, <2>7, <2>13, <2>14 DEF IInv
<1>5. QED BY <1>3, <1>4

LEMMA SendNowStep ==
    ASSUME IInv, NEW t \in Tasks, SendNow(t)
    PROVE  IInv'
<1>1. /\ Typed /\ WayInv /\ LockInv /\ Distinct /\ next_id \in Nat /\ CallInv
      /\ \A u \in Tasks : TaskOk(u) /\ ResultOk(u)
      /\ wire \in Seq(Requests)
  BY DEF IInv, CallInv, Typed
<1>2. task[t].pc = "direct" /\ task[t].pc \in Aloof /\ task[t].pc \in Unsent
  BY DEF SendNow, Aloof, Unsent
<1>3. PICK q : q = Append(wbuf, Request(t))
  OBVIOUS
<1>4. /\ q \in Seq(Requests) /\ Uniq(q) /\ Ids(q) = Ids(wbuf) \cup {task[t].id}
      /\ Elements(q) = Elements(wbuf) \cup {Request(t)}
      /\ Ids(q) \cap Ids(wire) = {} /\ Responses(inbound) \cap Ids(q) = {}
      /\ task[t].id \notin Sent /\ task[t].id \in 1 .. next_id - 1
      /\ CallOk(t) /\ task[t].pc # "idle"
  BY <1>2, <1>3, OwnQueued
<1>5. Request(t).id = task[t].id /\ Request(t).kind = task[t].kind /\ task[t].mail = 0
  BY <1>1, <1>2, <1>4, RequestFacts DEF CallOk
<1>6. CASE closed = "yes"
  <2>1. /\ EndWith(t, 0) /\ wbuf' = q
        /\ UNCHANGED <<setting, next_id, pending, wire, inbound, closed, reader, queue>>
    BY <1>3, <1>6 DEF SendNow, WriteFails, receiving, server
  <2>2. /\ task' \in [Tasks -> TaskStates] /\ result' \in [Tasks -> Outcomes]
        /\ progress' \in SUBSET Nat /\ progress' \subseteq progress
        /\ task'[t] = Idle /\ TaskOk(t)' /\ \A u \in Tasks \ {t} : task'[u] = task[u]
        /\ \A u \in Tasks \ {t} : task[u].pc # "idle" =>
              task[t].pc = "idle" \/ (task[u].id \in progress => task[u].id \in progress')
        /\ \A u \in Tasks : ResultOk(u)'
        /\ Distinct'
    BY <1>1, <2>1, EndedFacts
  <2>3. /\ Elements(wire)' = Elements(wire) /\ Ids(wire)' = Ids(wire)
        /\ Responses(inbound)' = Responses(inbound) /\ Sent' = Sent \cup {task[t].id}
    BY <1>4, <2>1 DEF Sent
  <2>4. WayInv'
    BY <1>1, <1>4, <2>1, <2>2, <2>3 DEF WayInv
  <2>5. ASSUME NEW u \in Tasks \ {t} PROVE TaskOk(u)'
    <3>1. /\ task'[u] = task[u] /\ u # t /\ u \in Tasks
          /\ task[u].id \in pending => task[u].id \in pending'
          /\ task[u].pc # "idle" => (task[u].id \in progress => task[u].id \in progress')
          /\ inbound' = inbound /\ closed' = closed /\ closed # "no"
          /\ Sent' \subseteq Sent \cup {task[t].id}
          /\ Elements(wbuf') \cup Elements(wire')
                \subseteq Elements(wbuf) \cup Elements(wire) \cup {Request(t)}
      BY <1>4, <1>6, <2>1, <2>2, <2>3
    <3>2. task[u].pc # "idle" => Kept(u)
      BY <1>4, <3>1, KeptBesidesRequest
    <3>3. next_id' \in Nat /\ next_id <= next_id'
      BY <1>1, <2>1
    <3>4. QED BY <1>1, <3>1, <3>2, <3>3, TaskKept
  <2>6. LockInv'
    BY <1>1, <1>2, <2>1, <2>2, LockKept DEF Aloof, Idle
  <2>7. Typed'
    BY <1>1, <1>4, <2>1, <2>2 DEF Typed
  <2>8. CallInv'
    BY <2>2, <2>5 DEF CallInv
  <2>9. QED BY <2>4, <2>6, <2>7, <2>8 DEF IInv
<1>7. CASE closed # "yes"
  <2>1. /\ UNCHANGED <<setting, next_id, pending, progress, inbound, reader, queue, closed, result>>
        /\ Goto(t, "select") /\ wire' = wire \o q /\ wbuf' = <<>>
    BY <1>3, <1>7 DEF SendNow, receiving, server
  <2>2. /\ wire' \in Seq(Requests) /\ Uniq(wire') /\ Ids(wire') = Ids(wire) \cup Ids(q)
        /\ Elements(wire') = Elements(wire) \cup Elements(q)
    <3>1. Uniq(wire)
      BY <1>1 DEF WayInv
    <3>2. QED BY <1>1, <1>4, <2>1, <3>1, RequestsJoined, Joined
  <2>3. /\ wbuf' \in Seq(Requests) /\ Uniq(wbuf') /\ Ids(wbuf') = {} /\ Elements(wbuf') = {}
    <3>1. <<>> \in Seq(Requests)
      OBVIOUS
    <3>2. QED BY <2>1, <3>1, Nothing
  <2>4. /\ task' \in [Tasks -> TaskStates] /\ \A u \in Tasks \ {t} : task'[u] = task[u]
        /\ task'[t].pc = "select" /\ task'[t].id = task[t].id /\ task'[t].kind = task[t].kind
        /\ task'[t].mail = task[t].mail /\ task'[t].seen = task[t].seen
    <3>1. "select" \in Waits
      BY DEF Waits
    <3>2. QED BY <1>1, <2>1, <3>1, WentTo
  <2>5. /\ Responses(inbound)' = Responses(inbound) /\ Notes(inbound)' = Notes(inbound)
        /\ Sent' = Sent \cup {task[t].id}
    BY <1>4, <2>1, <2>2, <2>3 DEF Sent
  <2>6. Typed'
    BY <1>1, <2>1, <2>2, <2>3, <2>4 DEF Typed
  <2>7. WayInv'
    BY <1>1, <1>4, <2>1, <2>2, <2>3, <2>5 DEF WayInv
  <2>8. CallOk(t)'
    <3>1. "select" \notin Unsent /\ Told(task[t].id)' = Told(task[t].id)
      BY <2>4, <2>5 DEF Unsent, Told
    <3>2. Placed(t)'
      BY <1>4, <2>2, <2>4 DEF Placed
    <3>3. \A r \in Elements(wbuf') \cup Elements(wire') : r.id = task[t].id => r.kind = task[t].kind
      BY <1>4, <1>5, <2>2, <2>3 DEF CallOk
    <3>4. QED BY <1>4, <1>5, <2>1, <2>4, <2>5, <3>1, <3>2, <3>3 DEF CallOk
  <2>9. ASSUME NEW u \in Tasks \ {t} PROVE TaskOk(u)'
    <3>1. Placed(u) => Placed(u)'
      BY <1>4, <2>2, <2>4, <2>5 DEF Placed
    <3>2. /\ task'[u] = task[u] /\ u # t /\ u \in Tasks
          /\ task[u].id \in pending => task[u].id \in pending'
          /\ task[u].id \in progress => task[u].id \in progress'
          /\ inbound' = inbound /\ closed' = closed
          /\ Sent' \subseteq Sent \cup {task[t].id}
          /\ Elements(wbuf') \cup Elements(wire')
                \subseteq Elements(wbuf) \cup Elements(wire) \cup {Request(t)}
      BY <1>4, <2>1, <2>2, <2>3, <2>4, <2>5
    <3>3. task[u].pc # "idle" => Kept(u)
      BY <1>4, <3>1, <3>2, KeptBesidesRequest
    <3>4. next_id' \in Nat /\ next_id <= next_id'
      BY <1>1, <2>1
    <3>5. QED BY <1>1, <3>2, <3>3, <3>4, TaskKept
  <2>10. TaskOk(t)'
    BY <2>4, <2>8 DEF TaskOk
  <2>11. \A u \in Tasks : ResultOk(u)'
    BY <1>1, <2>1 DEF ResultOk
  <2>12. Distinct'
    BY <1>1, <1>4, <2>4, DistinctKept
  <2>13. LockInv'
    BY <1>1, <1>2, <2>1, <2>4, LockKept DEF Aloof
  <2>14. CallInv'
    BY <2>9, <2>10, <2>11, <2>12 DEF CallInv
  <2>15. QED BY <2>6, <2>7, <2>13, <2>14 DEF IInv
<1>8. QED BY <1>6, <1>7

-----------------------------------------------------------------------------
\* recv_response

LEMMA EndedAndLeft ==
    ASSUME IInv, NEW t \in Tasks, task[t].pc # "idle", NEW got \in Nat, EndWith(t, got),
           got \in {0, task[t].id},
           got # 0 => task[t].seen = IF task[t].kind = "progress" THEN 1 ELSE 0,
           UNCHANGED <<setting, next_id, pending, wbuf, wire, inbound, closed>>, Leave(t)
    PROVE  IInv'
<1>1. Typed /\ LockInv
  BY DEF IInv
<1>2. /\ task' \in [Tasks -> TaskStates] /\ result' \in [Tasks -> Outcomes]
      /\ progress' \in SUBSET Nat
      /\ task'[t] = Idle /\ \A u \in Tasks \ {t} : task'[u] = task[u]
      /\ WayInv' /\ CallInv'
  BY EndedQuietly
<1>3. LockInv' /\ reader' \in Tasks \cup {Nobody} /\ queue' \in Seq(Tasks)
  BY <1>1, <1>2, LeftLock DEF Idle
<1>4. Typed'
  BY <1>1, <1>2, <1>3 DEF Typed
<1>5. QED BY <1>2, <1>3, <1>4 DEF IInv

\* A response in the mailbox is the task's own, and its progress came before it.
LEMMA MailIsOwn ==
    ASSUME IInv, NEW t \in Tasks, task[t].pc # "idle", task[t].mail # 0
    PROVE  /\ task[t].mail \in Nat /\ task[t].mail \in {0, task[t].id}
           /\ task[t].seen = IF task[t].kind = "progress" THEN 1 ELSE 0
<1>1. CallOk(t) /\ task[t] \in TaskStates
  BY DEF IInv, CallInv, TaskOk, Typed
<1>2. QED BY <1>1 DEF CallOk, TaskStates, Kinds

LEMMA PollMailStep ==
    ASSUME IInv, NEW t \in Tasks, PollMail(t)
    PROVE  IInv'
<1>1. /\ Typed /\ LockInv /\ task[t].pc # "idle"
      /\ task[t].pc = "select" \/ (task[t].pc = "parked" /\ (task[t].mail # 0 \/ reader = t))
      /\ UNCHANGED <<setting, next_id, pending, wbuf, wire, inbound, closed>>
  BY DEF PollMail, IInv, server
<1>2. CASE task[t].mail # 0
  <2>1. EndWith(t, task[t].mail) /\ Leave(t)
    BY <1>2 DEF PollMail
  <2>2. PICK got \in Nat : got = task[t].mail
    BY <1>1, <1>2, MailIsOwn
  <2>3. /\ got \in {0, task[t].id}
        /\ task[t].seen = IF task[t].kind = "progress" THEN 1 ELSE 0
    BY <1>1, <1>2, <2>2, MailIsOwn
  <2>4. EndWith(t, got)
    BY <2>1, <2>2
  <2>5. QED BY <1>1, <2>1, <2>3, <2>4, EndedAndLeft
<1>3. CASE task[t].mail = 0
  <2>1. Goto(t, "polled") /\ UNCHANGED <<progress, reader, queue, result>>
    BY <1>3 DEF PollMail
  <2>2. task[t].pc \in Waits /\ "polled" \in Waits
    BY <1>1 DEF Waits
  <2>3. task' \in [Tasks -> TaskStates] /\ WayInv' /\ CallInv'
    BY <1>1, <2>1, <2>2, MovedOn
  <2>4. task'[t].pc = "polled" /\ \A u \in Tasks \ {t} : task'[u] = task[u]
    BY <1>1, <2>1, <2>2, WentTo
  <2>5. LockInv'
    BY <1>1, <1>3, <2>1, <2>4 DEF LockInv
  <2>6. Typed'
    BY <1>1, <2>1, <2>3 DEF Typed
  <2>7. QED BY <2>3, <2>5, <2>6 DEF IInv
<1>4. QED BY <1>2, <1>3

LEMMA PollLockStep ==
    ASSUME IInv, NEW t \in Tasks, PollLock(t)
    PROVE  IInv'
<1>1. /\ Typed /\ LockInv /\ task[t].pc = "polled" /\ queue \in Seq(Tasks) /\ Nobody \notin Tasks
      /\ UNCHANGED <<setting, next_id, pending, progress, wbuf, wire, inbound, closed, result>>
  BY MuxAssumption DEF PollLock, IInv, sending, server, Typed
<1>2. task[t].pc \in Waits /\ "recheck" \in Waits /\ "parked" \in Waits
  BY <1>1 DEF Waits
<1>3. CASE reader \in {Nobody, t}
  <2>1. reader' = t /\ UNCHANGED queue /\ Goto(t, "recheck")
    BY <1>3 DEF PollLock
  <2>2. task' \in [Tasks -> TaskStates] /\ WayInv' /\ CallInv'
    BY <1>1, <1>2, <2>1, MovedOn
  <2>3. task'[t].pc = "recheck" /\ \A u \in Tasks \ {t} : task'[u] = task[u]
    BY <1>1, <1>2, <2>1, WentTo
  <2>4. ~IsIn(queue, t) /\ (reader = Nobody => \A u \in Tasks : ~IsIn(queue, u))
    BY <1>1 DEF LockInv, IsIn
  <2>5. LockInv'
    <3>1. reader' # Nobody /\ Once(queue')
      BY <1>1, <2>1 DEF LockInv
    <3>2. ASSUME NEW u \in Tasks
          PROVE  /\ IsIn(queue', u) => task'[u].pc = "parked" /\ reader' # u
                 /\ task'[u].pc = "parked" => reader' = u \/ IsIn(queue', u)
                 /\ task'[u].pc \in {"recheck", "reading"} => reader' = u
                 /\ reader' = u => task'[u].pc \in {"parked", "polled", "recheck", "reading"}
      BY <1>1, <1>3, <2>1, <2>3, <2>4 DEF LockInv
    <3>3. QED BY <3>1, <3>2 DEF LockInv
  <2>6. Typed'
    BY <1>1, <2>1, <2>2 DEF Typed
  <2>7. QED BY <2>2, <2>5, <2>6 DEF IInv
<1>4. CASE reader \notin {Nobody, t}
  <2>1. queue' = Append(queue, t) /\ UNCHANGED reader /\ Goto(t, "parked")
    BY <1>4 DEF PollLock
  <2>2. task' \in [Tasks -> TaskStates] /\ WayInv' /\ CallInv'
    BY <1>1, <1>2, <2>1, MovedOn
  <2>3. task'[t].pc = "parked" /\ \A u \in Tasks \ {t} : task'[u] = task[u]
    BY <1>1, <1>2, <2>1, WentTo
  <2>4. ~IsIn(queue, t) /\ Once(queue)
    BY <1>1 DEF LockInv
  <2>5. /\ queue' \in Seq(Tasks) /\ Once(queue')
        /\ \A u \in Tasks : IsIn(queue', u) <=> u = t \/ IsIn(queue, u)
    BY <1>1, <2>1, <2>4, QueueJoined
  <2>6. LockInv'
    BY <1>1, <1>4, <2>1, <2>3, <2>5 DEF LockInv
  <2>7. Typed'
    BY <1>1, <2>1, <2>2, <2>5 DEF Typed
  <2>8. QED BY <2>2, <2>6, <2>7 DEF IInv
<1>5. QED BY <1>3, <1>4

LEMMA RecheckStep ==
    ASSUME IInv, NEW t \in Tasks, Recheck(t)
    PROVE  IInv'
<1>1. /\ Typed /\ LockInv /\ task[t].pc = "recheck"
      /\ UNCHANGED <<setting, next_id, pending, wbuf, wire, inbound, closed>>
  BY DEF Recheck, IInv, server
<1>2. CASE task[t].mail # 0
  <2>1. EndWith(t, task[t].mail) /\ Leave(t)
    BY <1>2 DEF Recheck
  <2>2. PICK got \in Nat : got = task[t].mail
    BY <1>1, <1>2, MailIsOwn
  <2>3. /\ got \in {0, task[t].id}
        /\ task[t].seen = IF task[t].kind = "progress" THEN 1 ELSE 0
    BY <1>1, <1>2, <2>2, MailIsOwn
  <2>4. EndWith(t, got)
    BY <2>1, <2>2
  <2>5. QED BY <1>1, <2>1, <2>3, <2>4, EndedAndLeft
<1>3. CASE task[t].mail = 0
  <2>1. Goto(t, "reading") /\ UNCHANGED <<progress, reader, queue, result>>
    BY <1>3 DEF Recheck
  <2>2. task[t].pc \in Waits /\ "reading" \in Waits
    BY <1>1 DEF Waits
  <2>3. task' \in [Tasks -> TaskStates] /\ WayInv' /\ CallInv'
    BY <1>1, <2>1, <2>2, MovedOn
  <2>4. task'[t].pc = "reading" /\ \A u \in Tasks \ {t} : task'[u] = task[u]
    BY <1>1, <2>1, <2>2, WentTo
  <2>5. LockInv'
    BY <1>1, <2>1, <2>4 DEF LockInv
  <2>6. Typed'
    BY <1>1, <2>1, <2>3 DEF Typed
  <2>7. QED BY <2>3, <2>5, <2>6 DEF IInv
<1>4. QED BY <1>2, <1>3

LEMMA ReadEofStep ==
    ASSUME IInv, NEW t \in Tasks, ReadEof(t)
    PROVE  IInv'
<1>1. /\ task[t].pc # "idle" /\ EndWith(t, 0) /\ Leave(t)
      /\ UNCHANGED <<setting, next_id, pending, wbuf, wire, inbound, closed>>
  BY DEF ReadEof, server
<1>2. QED BY <1>1, EndedAndLeft

LEMMA TimeOutStep ==
    ASSUME IInv, NEW t \in Tasks, TimeOut(t)
    PROVE  IInv'
<1>1. /\ task[t].pc # "idle" /\ EndWith(t, 0) /\ Leave(t)
      /\ UNCHANGED <<setting, next_id, pending, wbuf, wire, inbound, closed>>
  BY DEF TimeOut, server
<1>2. QED BY <1>1, EndedAndLeft

LEMMA DropCallStep ==
    ASSUME IInv, NEW t \in Tasks, DropCall(t)
    PROVE  IInv'
<1>1. /\ Typed /\ WayInv /\ LockInv /\ Distinct /\ next_id \in Nat
      /\ \A u \in Tasks : TaskOk(u) /\ ResultOk(u)
  BY DEF IInv, CallInv, Typed
<1>2. /\ UNCHANGED <<setting, next_id, pending, progress, wbuf, wire, inbound, closed>> /\ Leave(t)
      /\ task' = [task EXCEPT ![t] = Idle] /\ result' = [result EXCEPT ![t] = NoResult]
  BY DEF DropCall, sending, server
<1>3. /\ Idle \in TaskStates /\ NoResult \in Outcomes /\ Idle.pc = "idle"
      /\ NoResult.got = 0
  BY DEF Idle, NoResult, TaskStates, Outcomes, Kinds
<1>4. /\ task' \in [Tasks -> TaskStates] /\ result' \in [Tasks -> Outcomes]
      /\ task'[t] = Idle /\ \A u \in Tasks \ {t} : task'[u] = task[u]
      /\ result'[t] = NoResult /\ \A u \in Tasks \ {t} : result'[u] = result[u]
  BY <1>1, <1>2, <1>3 DEF Typed
<1>5. WayInv'
  BY <1>1, <1>2, WayKept
<1>6. ASSUME NEW u \in Tasks PROVE TaskOk(u)'
  <2>1. CASE u = t
    BY <1>3, <1>4, <2>1 DEF TaskOk
  <2>2. CASE u # t
    <3>1. Kept(u) /\ task'[u] = task[u]
      BY <1>2, <1>4, <2>2, KeptOnTheWay
    <3>2. next_id' \in Nat /\ next_id <= next_id'
      BY <1>1, <1>2
    <3>3. QED BY <1>1, <3>1, <3>2, TaskKept
  <2>3. QED BY <2>1, <2>2
<1>7. ASSUME NEW u \in Tasks PROVE ResultOk(u)'
  <2>1. CASE u = t
    BY <1>3, <1>4, <2>1 DEF ResultOk
  <2>2. CASE u # t
    BY <1>1, <1>4, <2>2 DEF ResultOk
  <2>3. QED BY <2>1, <2>2
<1>8. Distinct'
  BY <1>1, <1>3, <1>4, DistinctKept
<1>9. LockInv' /\ reader' \in Tasks \cup {Nobody} /\ queue' \in Seq(Tasks)
  BY <1>1, <1>2, <1>3, <1>4, LeftLock
<1>10. Typed'
  BY <1>1, <1>2, <1>4, <1>9 DEF Typed
<1>11. QED BY <1>5, <1>6, <1>7, <1>8, <1>9, <1>10 DEF IInv, CallInv

\* The frame that is read, and what is on the way without it.
HeadFacts(h) ==
    /\ h \in Frames /\ inbound' \in Seq(Frames)
    /\ h.type = "push" => Responses(inbound') = Responses(inbound) /\ Notes(inbound') = Notes(inbound)
    /\ h.type = "result" =>
          /\ Responses(inbound) = Responses(inbound') \cup {h.id} /\ h.id \notin Responses(inbound')
          /\ Notes(inbound') = Notes(inbound) /\ h.id \notin Notes(inbound)
    /\ h.type = "progress" =>
          /\ Responses(inbound') = Responses(inbound) /\ h.id \in Responses(inbound)
          /\ Notes(inbound) = Notes(inbound') \cup {h.id} /\ h.id \notin Notes(inbound')
    /\ Sent' \subseteq Sent
    /\ h.type # "push" => h.id \in 1 .. next_id - 1 /\ h.id \in Responses(inbound) /\ h.id \in Sent
    /\ h.type = "result" => h.id \notin Sent'

LEMMA ReadFacts ==
    ASSUME IInv, inbound # <<>>, inbound' = Tail(inbound), UNCHANGED <<next_id, wbuf, wire>>,
           pending' \subseteq pending, progress' \subseteq progress
    PROVE  WayInv' /\ HeadFacts(Head(inbound))
<1>1. Typed /\ WayInv /\ inbound \in Seq(Frames) /\ Sound(inbound)
  BY DEF IInv, Typed, WayInv
<1>2. PICK h : h = Head(inbound)
  OBVIOUS
<1>3. /\ inbound' \in Seq(Frames) /\ Sound(inbound') /\ h \in Frames
      /\ h.type = "push" => Responses(inbound') = Responses(inbound) /\ Notes(inbound') = Notes(inbound)
      /\ h.type = "result" =>
            /\ Responses(inbound) = Responses(inbound') \cup {h.id}
            /\ h.id \notin Responses(inbound')
            /\ Notes(inbound') = Notes(inbound) /\ h.id \notin Notes(inbound)
      /\ h.type = "progress" =>
            /\ Responses(inbound') = Responses(inbound) /\ h.id \in Responses(inbound)
            /\ Notes(inbound) = Notes(inbound') \cup {h.id}
            /\ h.id \notin Notes(inbound')
  BY <1>1, <1>2, FrameTaken
<1>4. h.type = "push" \/ h.type = "result" \/ h.type = "progress"
  BY <1>3 DEF Frames
<1>5. Responses(inbound') \subseteq Responses(inbound)
      /\ (h.type # "push" => h.id \in Responses(inbound))
  BY <1>3, <1>4
<1>6. Ids(wbuf)' = Ids(wbuf) /\ Ids(wire)' = Ids(wire) /\ Uniq(wbuf)' = Uniq(wbuf)
      /\ Uniq(wire)' = Uniq(wire)
  OBVIOUS
<1>7. Sent' \subseteq Sent
  BY <1>5, <1>6 DEF Sent
<1>8. WayInv'
  BY <1>1, <1>3, <1>5, <1>6, <1>7 DEF WayInv
<1>9. h.type # "push" => h.id \in Sent /\ h.id \in 1 .. next_id - 1
  BY <1>1, <1>5 DEF WayInv, Sent
<1>10. h.type = "result" => h.id \notin Sent'
  BY <1>1, <1>3, <1>5, <1>6 DEF WayInv, Sent
<1>11. QED BY <1>2, <1>3, <1>5, <1>7, <1>8, <1>9, <1>10 DEF HeadFacts

\* A step of the reader that leaves the lock, the callbacks and the results alone.
LEMMA ReadOn ==
    ASSUME IInv, NEW t \in Tasks, inbound # <<>>, inbound' = Tail(inbound),
           UNCHANGED <<setting, next_id, wbuf, wire, closed, progress, reader, queue, result>>,
           pending' \subseteq pending, task' \in [Tasks -> TaskStates],
           \A u \in Tasks : task'[u].pc = task[u].pc /\ task'[u].id = task[u].id,
           \A u \in Tasks : TaskOk(u)'
    PROVE  IInv'
<1>1. Typed /\ LockInv /\ Distinct /\ \A u \in Tasks : ResultOk(u)
  BY DEF IInv, CallInv
<1>2. WayInv' /\ HeadFacts(Head(inbound))
  BY ReadFacts
<1>3. Typed'
  BY <1>1, <1>2 DEF Typed, HeadFacts
<1>4. Distinct'
  BY <1>1, DistinctKept
<1>5. \A u \in Tasks : ResultOk(u)'
  BY <1>1 DEF ResultOk
<1>6. LockInv'
  BY <1>1, LockKept
<1>7. QED BY <1>2, <1>3, <1>4, <1>5, <1>6 DEF IInv, CallInv

LEMMA ReadPushStep ==
    ASSUME IInv, NEW t \in Tasks, inbound # <<>>, inbound' = Tail(inbound),
           UNCHANGED <<setting, next_id, wbuf, wire, closed>>, ReadPush(t, Head(inbound))
    PROVE  IInv'
<1>1. /\ UNCHANGED <<task, pending, progress, reader, queue, result>> /\ Head(inbound).type = "push"
  BY DEF ReadPush
<1>2. HeadFacts(Head(inbound))
  BY <1>1, ReadFacts
<1>3. Typed /\ next_id \in Nat /\ \A u \in Tasks : TaskOk(u)
  BY DEF IInv, CallInv, Typed
<1>4. Responses(inbound') = Responses(inbound) /\ Notes(inbound') = Notes(inbound)
  BY <1>1, <1>2 DEF HeadFacts
<1>5. ASSUME NEW u \in Tasks PROVE TaskOk(u)'
  <2>1. Sent' \subseteq Sent /\ Told(task[u].id)' = Told(task[u].id)
    BY <1>1, <1>2, <1>4 DEF HeadFacts, Told
  <2>2. Placed(u)' = Placed(u)
    BY <1>1, <1>4 DEF Placed
  <2>3. Kept(u)
    BY <1>1, <1>4, <2>1, <2>2 DEF Kept
  <2>4. task'[u] = task[u] /\ next_id' \in Nat /\ next_id <= next_id'
    BY <1>1, <1>3
  <2>5. QED BY <1>3, <2>3, <2>4, TaskKept
<1>6. task' \in [Tasks -> TaskStates]
  BY <1>1, <1>3 DEF Typed
<1>7. QED BY <1>1, <1>5, <1>6, ReadOn

LEMMA ReadProgressStep ==
    ASSUME IInv, NEW t \in Tasks, inbound # <<>>, inbound' = Tail(inbound),
           UNCHANGED <<setting, next_id, wbuf, wire, closed>>, ReadProgress(t, Head(inbound))
    PROVE  IInv'
<1>1. PICK h : h = Head(inbound)
  OBVIOUS
<1>2. /\ UNCHANGED <<pending, progress, reader, queue, result>> /\ h.type = "progress"
      /\ task' = [u \in Tasks |-> IF h.id \in progress /\ task[u].id = h.id
                                  THEN [task[u] EXCEPT !.seen = @ + 1] ELSE task[u]]
  BY <1>1 DEF ReadProgress
<1>3. HeadFacts(h)
  BY <1>1, <1>2, ReadFacts
<1>4. Typed /\ next_id \in Nat /\ \A u \in Tasks : TaskOk(u)
  BY DEF IInv, CallInv, Typed
<1>5. /\ Responses(inbound') = Responses(inbound) /\ h.id \in Responses(inbound)
      /\ Notes(inbound) = Notes(inbound') \cup {h.id} /\ h.id \notin Notes(inbound')
      /\ h.id \in 1 .. next_id - 1 /\ h.id \in Sent /\ Sent' \subseteq Sent
  BY <1>2, <1>3 DEF HeadFacts
<1>6. ASSUME NEW u \in Tasks
      PROVE  /\ task'[u] \in TaskStates
             /\ task'[u].pc = task[u].pc /\ task'[u].id = task[u].id /\ task'[u].kind = task[u].kind
             /\ task'[u].mail = task[u].mail
             /\ task[u].id = h.id /\ h.id \in progress => task'[u].seen = task[u].seen + 1
             /\ task[u].id # h.id => task'[u] = task[u]
  <2>1. task[u] \in TaskStates
    BY <1>4 DEF Typed
  <2>2. PICK s \in TaskStates :
            /\ s = [task[u] EXCEPT !.seen = @ + 1]
            /\ s.pc = task[u].pc /\ s.id = task[u].id /\ s.kind = task[u].kind
            /\ s.mail = task[u].mail /\ s.seen = task[u].seen + 1
    <3>1. task[u].seen + 1 \in Nat
      BY <2>1 DEF TaskStates
    <3>2. PICK n \in Nat : n = task[u].seen + 1
      BY <3>1
    <3>3. PICK s \in TaskStates : s = [task[u] EXCEPT !.seen = n]
      BY <2>1 DEF TaskStates
    <3>4. /\ s.pc = task[u].pc /\ s.id = task[u].id /\ s.kind = task[u].kind
          /\ s.mail = task[u].mail /\ s.seen = n
      BY <2>1, <3>3 DEF TaskStates
    <3>5. s = [task[u] EXCEPT !.seen = @ + 1]
      BY <3>2, <3>3
    <3>6. QED BY <3>2, <3>4, <3>5
  <2>3. task'[u] = IF h.id \in progress /\ task[u].id = h.id THEN s ELSE task[u]
    BY <1>2, <2>2
  <2>4. QED BY <2>1, <2>2, <2>3
<1>7. task' \in [Tasks -> TaskStates]
  BY <1>2, <1>6
<1>8. ASSUME NEW u \in Tasks PROVE TaskOk(u)'
  <2>1. CASE task[u].id # h.id
    <3>1. task'[u] = task[u] /\ Told(task[u].id)' = Told(task[u].id)
      BY <1>5, <1>6, <2>1 DEF Told
    <3>2. Placed(u)' = Placed(u)
      BY <1>5, <3>1 DEF Placed
    <3>3. Kept(u)
      BY <1>2, <1>5, <3>1, <3>2 DEF Kept
    <3>4. next_id' \in Nat /\ next_id <= next_id'
      BY <1>4
    <3>5. QED BY <1>4, <3>1, <3>3, <3>4, TaskKept
  <2>2. CASE task[u].id = h.id
    <3>1. task[u].pc # "idle" /\ CallOk(u) /\ task[u].kind \in Kinds
      <4>1. h.id # 0 /\ Idle.id = 0
        BY <1>4, <1>5 DEF Idle
      <4>2. task[u].kind \in Kinds
        BY <1>4 DEF Typed, TaskStates
      <4>3. QED BY <1>4, <2>2, <4>1, <4>2 DEF TaskOk
    <3>2. task[u].kind = "progress" /\ h.id \in progress /\ task[u].mail = 0 /\ task[u].pc \notin Unsent
      <4>1. h.id \in Notes(inbound)
        BY <1>5
      <4>2. task[u].kind = "progress"
        BY <2>2, <3>1, <4>1 DEF CallOk, Kinds
      <4>3. QED BY <1>5, <2>2, <3>1, <4>2 DEF CallOk
    <3>3. task[u].seen = 0
      <4>1. ~Told(task[u].id)
        BY <1>5, <2>2 DEF Told
      <4>2. QED BY <3>1, <3>2, <4>1 DEF CallOk
    <3>4. task'[u].seen = 1
      BY <1>6, <2>2, <3>2, <3>3
    <3>5. Told(task[u].id)'
      BY <1>5, <1>6, <2>2 DEF Told
    <3>6. Placed(u)' = Placed(u)
      BY <1>5, <1>6 DEF Placed
    <3>7. task'[u].id \in 1 .. next_id' - 1 /\ task'[u].id \in pending' /\ task'[u].id \in progress'
      <4>1. task[u].id \in 1 .. next_id - 1 /\ task[u].id \in pending
        BY <3>1, <3>2 DEF CallOk
      <4>2. task'[u].id = task[u].id /\ task[u].id \in progress
        BY <1>6, <2>2, <3>2
      <4>3. QED BY <1>2, <4>1, <4>2
    <3>8. \A r \in Elements(wbuf') \cup Elements(wire') : r.id = task[u].id => r.kind = task[u].kind
      BY <3>1 DEF CallOk
    <3>9. closed' = "no" /\ task[u].pc \in {"yielded"} \cup Waits => Placed(u)'
      BY <3>1, <3>6 DEF CallOk
    <3>10. CallOk(u)'
      BY <1>6, <3>2, <3>4, <3>5, <3>7, <3>8, <3>9 DEF CallOk
    <3>11. QED BY <1>6, <3>1, <3>10 DEF TaskOk
  <2>3. QED BY <2>1, <2>2
<1>9. QED BY <1>2, <1>6, <1>7, <1>8, ReadOn

LEMMA ReadOwnStep ==
    ASSUME IInv, NEW t \in Tasks, task[t].pc = "reading", inbound # <<>>, inbound' = Tail(inbound),
           UNCHANGED <<setting, next_id, wbuf, wire, closed>>, ReadOwn(t, Head(inbound))
    PROVE  IInv'
<1>1. PICK h : h = Head(inbound)
  OBVIOUS
<1>2. /\ h.type = "result" /\ h.id = task[t].id /\ EndWith(t, h.id) /\ Leave(t)
      /\ pending' = pending \ {h.id} /\ progress' = progress \ {task[t].id}
  BY <1>1 DEF ReadOwn, EndWith
<1>3. WayInv' /\ HeadFacts(h)
  BY <1>1, <1>2, ReadFacts
<1>4. /\ Typed /\ CallInv /\ LockInv /\ Distinct /\ next_id \in Nat /\ \A u \in Tasks : TaskOk(u)
      /\ task[t].pc # "idle" /\ CallOk(t) /\ task[t] \in TaskStates
  BY DEF IInv, CallInv, Typed, TaskOk
<1>5. /\ Responses(inbound) = Responses(inbound') \cup {h.id}
      /\ Notes(inbound') = Notes(inbound) /\ h.id \notin Notes(inbound)
      /\ h.id \in Responses(inbound) /\ Sent' \subseteq Sent /\ inbound' \in Seq(Frames)
      /\ h.id \in Nat
  BY <1>2, <1>3 DEF HeadFacts, Frames
<1>6. task[t].seen = IF task[t].kind = "progress" THEN 1 ELSE 0
  <2>1. Told(task[t].id) /\ task[t].kind \in Kinds
    BY <1>2, <1>4, <1>5 DEF Told, TaskStates
  <2>2. QED BY <1>4, <2>1 DEF CallOk, Kinds
<1>7. PICK got \in Nat : got = h.id
  BY <1>5
<1>8. /\ task' \in [Tasks -> TaskStates] /\ result' \in [Tasks -> Outcomes]
      /\ progress' \in SUBSET Nat /\ progress' \subseteq progress
      /\ task'[t] = Idle /\ TaskOk(t)' /\ \A u \in Tasks \ {t} : task'[u] = task[u]
      /\ \A u \in Tasks : ResultOk(u)'
      /\ Distinct'
  <2>1. got \in {0, task[t].id} /\ EndWith(t, got)
    BY <1>2, <1>7
  <2>2. QED BY <1>4, <1>6, <2>1, EndedFacts
<1>9. ASSUME NEW u \in Tasks \ {t} PROVE TaskOk(u)'
  <2>1. task'[u] = task[u]
    BY <1>8
  <2>2. CASE task[u].pc # "idle"
    <3>1. task[u].id # h.id
      BY <1>2, <1>4, <2>2 DEF Distinct, InFlight
    <3>2. Told(task[u].id)' = Told(task[u].id)
      BY <1>5, <2>1, <3>1 DEF Told
    <3>3. Placed(u)' = Placed(u)
      BY <1>5, <2>1, <3>1 DEF Placed
    <3>4. Kept(u)
      BY <1>2, <1>5, <2>1, <3>1, <3>2, <3>3 DEF Kept
    <3>5. next_id' \in Nat /\ next_id <= next_id'
      BY <1>4
    <3>6. QED BY <1>4, <2>1, <3>4, <3>5, TaskKept
  <2>3. CASE task[u].pc = "idle"
    BY <1>4, <2>1, <2>3 DEF TaskOk
  <2>4. QED BY <2>2, <2>3
<1>10. CallInv'
  BY <1>8, <1>9 DEF CallInv
<1>11. LockInv' /\ reader' \in Tasks \cup {Nobody} /\ queue' \in Seq(Tasks)
  BY <1>2, <1>4, <1>8, LeftLock DEF Idle
<1>12. pending' \in SUBSET Nat
  BY <1>2, <1>4 DEF Typed
<1>13. Typed'
  BY <1>4, <1>5, <1>8, <1>11, <1>12 DEF Typed
<1>14. QED BY <1>3, <1>10, <1>11, <1>13 DEF IInv

LEMMA ReadOtherStep ==
    ASSUME IInv, NEW t \in Tasks, inbound # <<>>, inbound' = Tail(inbound),
           UNCHANGED <<setting, next_id, wbuf, wire, closed>>, ReadOther(t, Head(inbound))
    PROVE  IInv'
<1>1. PICK h : h = Head(inbound)
  OBVIOUS
<1>2. /\ UNCHANGED <<progress, reader, queue, result>> /\ h.type = "result"
      /\ task' = [u \in Tasks |-> IF h.id \in pending /\ task[u].id = h.id
                                  THEN [task[u] EXCEPT !.mail = h.id] ELSE task[u]]
      /\ pending' = pending \ {h.id}
  <2>1. Deliver(h) /\ UNCHANGED <<progress, reader, queue, result>> /\ h.type = "result"
    BY <1>1 DEF ReadOther
  <2>2. PICK owners : /\ owners = {u \in Tasks : h.id \in pending /\ task[u].id = h.id}
                      /\ task' = [u \in Tasks |-> IF u \in owners
                                                  THEN [task[u] EXCEPT !.mail = h.id] ELSE task[u]]
                      /\ pending' = pending \ {h.id}
    BY <2>1 DEF Deliver
  <2>3. QED BY <2>1, <2>2
<1>3. HeadFacts(h)
  BY <1>1, <1>2, ReadFacts
<1>4. Typed /\ next_id \in Nat /\ \A u \in Tasks : TaskOk(u)
  BY DEF IInv, CallInv, Typed
<1>5. /\ Responses(inbound) = Responses(inbound') \cup {h.id}
      /\ Notes(inbound') = Notes(inbound) /\ h.id \notin Notes(inbound)
      /\ h.id \in Responses(inbound) /\ h.id \in Sent /\ Sent' \subseteq Sent /\ h.id \notin Sent'
      /\ h.id \in 1 .. next_id - 1 /\ h.id \in Nat
  BY <1>2, <1>3 DEF HeadFacts, Frames
<1>6. ASSUME NEW u \in Tasks
      PROVE  /\ task'[u] \in TaskStates
             /\ task'[u].pc = task[u].pc /\ task'[u].id = task[u].id /\ task'[u].kind = task[u].kind
             /\ task'[u].seen = task[u].seen
             /\ task[u].id = h.id /\ h.id \in pending => task'[u].mail = h.id
             /\ task[u].id # h.id => task'[u] = task[u]
  <2>1. task[u] \in TaskStates
    BY <1>4 DEF Typed
  <2>2. PICK s \in TaskStates : s = [task[u] EXCEPT !.mail = h.id]
    BY <1>5, <2>1 DEF TaskStates
  <2>3. s.pc = task[u].pc /\ s.id = task[u].id /\ s.kind = task[u].kind /\ s.mail = h.id
        /\ s.seen = task[u].seen
    BY <2>1, <2>2 DEF TaskStates
  <2>4. task'[u] = IF h.id \in pending /\ task[u].id = h.id THEN s ELSE task[u]
    BY <1>2, <2>2
  <2>5. QED BY <2>1, <2>3, <2>4
<1>7. task' \in [Tasks -> TaskStates]
  BY <1>2, <1>6
<1>8. ASSUME NEW u \in Tasks PROVE TaskOk(u)'
  <2>1. CASE task[u].id # h.id
    <3>1. task'[u] = task[u] /\ Told(task[u].id)' = Told(task[u].id)
      BY <1>5, <1>6, <2>1 DEF Told
    <3>2. Placed(u)' = Placed(u)
      BY <1>5, <2>1, <3>1 DEF Placed
    <3>3. Kept(u)
      BY <1>2, <1>5, <2>1, <3>1, <3>2 DEF Kept
    <3>4. next_id' \in Nat /\ next_id <= next_id'
      BY <1>4
    <3>5. QED BY <1>4, <3>1, <3>3, <3>4, TaskKept
  <2>2. CASE task[u].id = h.id
    <3>1. task[u].pc # "idle" /\ CallOk(u) /\ h.id # 0
      <4>1. h.id # 0 /\ Idle.id = 0
        BY <1>4, <1>5 DEF Idle
      <4>2. QED BY <1>4, <2>2, <4>1 DEF TaskOk
    <3>2. task[u].mail = 0 /\ task[u].pc \notin Unsent /\ h.id \in pending
      BY <1>5, <2>2, <3>1 DEF CallOk
    <3>3. task'[u].mail = h.id
      BY <1>6, <2>2, <3>2
    <3>4. task[u].kind = "progress" => task[u].id \in progress' /\ task[u].seen = 1
      <4>1. Told(task[u].id)
        BY <1>5, <2>2 DEF Told
      <4>2. QED BY <1>2, <3>1, <4>1 DEF CallOk
    <3>5. task[u].kind = "plain" => task[u].seen = 0 /\ task[u].id \notin Notes(inbound')
      BY <1>5, <3>1 DEF CallOk
    <3>6. Placed(u)'
      BY <1>6, <2>2, <3>3 DEF Placed
    <3>7. task[u].id \in 1 .. next_id' - 1 /\ task[u].id \notin Sent'
      BY <1>5, <2>2
    <3>8. \A r \in Elements(wbuf') \cup Elements(wire') : r.id = task[u].id => r.kind = task[u].kind
      BY <3>1 DEF CallOk
    <3>9. CallOk(u)'
      BY <1>6, <2>2, <3>1, <3>2, <3>3, <3>4, <3>5, <3>6, <3>7, <3>8 DEF CallOk
    <3>10. QED BY <1>6, <3>1, <3>9 DEF TaskOk
  <2>3. QED BY <2>1, <2>2
<1>9. QED BY <1>2, <1>6, <1>7, <1>8, ReadOn

LEMMA ReadStep ==
    ASSUME IInv, NEW t \in Tasks, Read(t)
    PROVE  IInv'
<1>1. /\ task[t].pc = "reading" /\ inbound # <<>> /\ inbound' = Tail(inbound)
      /\ UNCHANGED <<setting, next_id, wbuf, wire, closed>>
      /\ \/ ReadProgress(t, Head(inbound)) \/ ReadPush(t, Head(inbound))
         \/ ReadOwn(t, Head(inbound)) \/ ReadOther(t, Head(inbound))
  BY DEF Read, server
<1>2. QED BY <1>1, ReadProgressStep, ReadPushStep, ReadOwnStep, ReadOtherStep

-----------------------------------------------------------------------------
\* The session at the other end

LEMMA TheirStep ==
    ASSUME IInv, UNCHANGED <<setting, next_id, task, pending, progress, wbuf, reader, queue, result>>,
           wire' \in Seq(Requests), inbound' \in Seq(Frames), closed' \in {"yes", "no"},
           WayInv', \A u \in Tasks : task[u].pc # "idle" => Kept(u)
    PROVE  IInv'
<1>1. /\ Typed /\ LockInv /\ Distinct /\ next_id \in Nat
      /\ \A u \in Tasks : TaskOk(u) /\ ResultOk(u)
  BY DEF IInv, CallInv, Typed
<1>2. Typed'
  BY <1>1 DEF Typed
<1>3. ASSUME NEW u \in Tasks PROVE TaskOk(u)'
  <2>1. task'[u] = task[u] /\ next_id' \in Nat /\ next_id <= next_id'
    BY <1>1
  <2>2. QED BY <1>1, <2>1, TaskKept
<1>4. \A u \in Tasks : ResultOk(u)'
  BY <1>1 DEF ResultOk
<1>5. Distinct'
  BY <1>1, DistinctKept
<1>6. LockInv'
  BY <1>1, LockKept
<1>7. QED BY <1>2, <1>3, <1>4, <1>5, <1>6 DEF IInv, CallInv

\* What the session puts on its way back for a request.
LEMMA AnswerFacts ==
    ASSUME IInv, Serve
    PROVE  LET id == Head(wire).id
           IN  /\ inbound' \in Seq(Frames) /\ Sound(inbound') /\ id \in Ids(wire)
               /\ Responses(inbound') = Responses(inbound) \cup {id}
               /\ Notes(inbound') =
                     IF Head(wire).kind = "progress" THEN Notes(inbound) \cup {id} ELSE Notes(inbound)
<1>1. Typed /\ WayInv /\ inbound \in Seq(Frames) /\ Sound(inbound) /\ wire \in Seq(Requests) /\ wire # <<>>
  BY DEF IInv, Typed, WayInv, Serve
<1>2. PICK r \in Requests : r = Head(wire)
  BY <1>1, Shortened
<1>3. PICK f \in Frames : f = Frame("result", r.id) /\ f.type = "result" /\ f.id = r.id
  <2>1. Frame("result", r.id) \in Frames /\ Frame("result", r.id).type = "result"
        /\ Frame("result", r.id).id = r.id
    BY DEF Frame, Frames, Requests
  <2>2. QED BY <2>1
<1>4. PICK g \in Frames : g = Frame("progress", r.id) /\ g.type = "progress" /\ g.id = r.id
  <2>1. Frame("progress", r.id) \in Frames /\ Frame("progress", r.id).type = "progress"
        /\ Frame("progress", r.id).id = r.id
    BY DEF Frame, Frames, Requests
  <2>2. QED BY <2>1
<1>5. inbound' = inbound \o (IF r.kind = "progress" THEN <<g>> \o <<f>> ELSE <<f>>)
  BY <1>2, <1>3, <1>4 DEF Serve
<1>6. r.id \in Ids(wire) /\ r.id \notin Responses(inbound) /\ r.id \in Nat
  <2>1. r.id \in Ids(wire)
    BY <1>1, <1>2, RequestTaken DEF WayInv
  <2>2. QED BY <1>1, <2>1 DEF WayInv, Requests
<1>7. CASE r.kind = "progress"
  <2>1. PICK p \in Seq(Frames) : p = Append(inbound, g)
    BY <1>1, Appended
  <2>2. Append(p, f) = inbound'
    <3>1. <<g>> \in Seq(Frames) /\ <<f>> \in Seq(Frames)
      OBVIOUS
    <3>2. inbound \o (<<g>> \o <<f>>) = (inbound \o <<g>>) \o <<f>>
      BY <1>1, <3>1, ConcatAssociative
    <3>3. inbound \o <<g>> = p /\ p \o <<f>> = Append(p, f)
      BY <1>1, <2>1, Appended
    <3>4. QED BY <1>5, <1>7, <3>2, <3>3
  <2>3. Responses(p) = Responses(inbound) /\ Notes(p) = Notes(inbound) \cup {r.id}
    BY <1>1, <1>4, <2>1, FramePut
  <2>4. /\ inbound' \in Seq(Frames) /\ Responses(inbound') = Responses(p) \cup {r.id}
        /\ Notes(inbound') = Notes(p)
    <3>1. /\ Append(p, f) \in Seq(Frames)
          /\ Responses(Append(p, f)) =
                IF f.type = "result" THEN Responses(p) \cup {f.id} ELSE Responses(p)
          /\ Notes(Append(p, f)) = IF f.type = "progress" THEN Notes(p) \cup {f.id} ELSE Notes(p)
      BY <2>1, FramePut
    <3>2. QED BY <1>3, <2>2, <3>1
  <2>5. Sound(inbound')
    BY <1>1, <1>3, <1>4, <1>6, <2>1, <2>2, ProgressAndAnswerPut
  <2>6. QED BY <1>2, <1>6, <1>7, <2>3, <2>4, <2>5
<1>8. CASE r.kind # "progress"
  <2>1. inbound' = Append(inbound, f)
    BY <1>1, <1>5, <1>8, Appended
  <2>2. /\ inbound' \in Seq(Frames) /\ Responses(inbound') = Responses(inbound) \cup {r.id}
        /\ Notes(inbound') = Notes(inbound)
    BY <1>1, <1>3, <2>1, FramePut
  <2>3. Sound(inbound')
    BY <1>1, <1>3, <1>6, <2>1, AnswerPut
  <2>4. QED BY <1>2, <1>6, <1>8, <2>2, <2>3
<1>9. QED BY <1>7, <1>8

LEMMA ServeStep ==
    ASSUME IInv, Serve
    PROVE  IInv'
<1>1. /\ Typed /\ WayInv /\ wire \in Seq(Requests) /\ wire # <<>> /\ Uniq(wire)
      /\ \A u \in Tasks : TaskOk(u)
  BY DEF IInv, CallInv, Typed, WayInv, Serve
<1>2. /\ UNCHANGED <<setting, next_id, task, pending, progress, wbuf, reader, queue, closed, result>>
      /\ wire' = Tail(wire)
  BY DEF Serve, server
<1>3. PICK r \in Requests : r = Head(wire)
  BY <1>1, Shortened
<1>4. /\ inbound' \in Seq(Frames) /\ Sound(inbound')
      /\ Responses(inbound') = Responses(inbound) \cup {r.id}
      /\ Notes(inbound') = IF r.kind = "progress" THEN Notes(inbound) \cup {r.id} ELSE Notes(inbound)
  BY <1>3, AnswerFacts
<1>5. /\ wire' \in Seq(Requests) /\ Elements(wire) = {r} \cup Elements(wire')
  BY <1>1, <1>2, <1>3, Shortened
<1>6. Uniq(wire') /\ Ids(wire) = {r.id} \cup Ids(wire') /\ r.id \notin Ids(wire')
  BY <1>1, <1>2, <1>3, RequestTaken
<1>7. Elements(wbuf)' = Elements(wbuf) /\ Ids(wbuf)' = Ids(wbuf) /\ Uniq(wbuf)' = Uniq(wbuf)
  BY <1>2
<1>8. Sent' = Sent
  BY <1>4, <1>6, <1>7 DEF Sent
<1>9. WayInv'
  BY <1>1, <1>2, <1>4, <1>6, <1>7, <1>8 DEF WayInv
<1>10. ASSUME NEW u \in Tasks, task[u].pc # "idle" PROVE Kept(u)
  <2>1. CallOk(u)
    BY <1>1, <1>10 DEF TaskOk
  <2>2. task[u].id = r.id => r.kind = task[u].kind
    BY <1>5, <2>1 DEF CallOk
  <2>3. task[u].kind = "progress" => Told(task[u].id)' = Told(task[u].id)
    <3>1. CASE task[u].id # r.id
      BY <1>2, <1>4, <3>1 DEF Told
    <3>2. CASE task[u].id = r.id /\ task[u].kind = "progress"
      <4>1. r.id \notin Responses(inbound) /\ r.id \in Notes(inbound')
        BY <1>1, <1>4, <1>6, <2>2, <3>2 DEF WayInv
      <4>2. QED BY <1>2, <3>2, <4>1 DEF Told
    <3>3. QED BY <3>1, <3>2
  <2>4. task[u].kind = "plain" /\ task[u].id \in Notes(inbound') => task[u].id \in Notes(inbound)
    BY <1>4, <2>2
  <2>5. Placed(u) => Placed(u)'
    BY <1>2, <1>4, <1>6, <1>7 DEF Placed
  <2>6. QED BY <1>2, <1>5, <1>7, <1>8, <2>3, <2>4, <2>5 DEF Kept
<1>11. closed' \in {"yes", "no"}
  BY <1>1, <1>2 DEF Typed
<1>12. QED BY <1>2, <1>4, <1>5, <1>9, <1>10, <1>11, TheirStep

LEMMA PushStep ==
    ASSUME IInv, Push
    PROVE  IInv'
<1>1. /\ Typed /\ WayInv /\ wire \in Seq(Requests) /\ inbound \in Seq(Frames) /\ Sound(inbound)
  BY DEF IInv, Typed, WayInv
<1>2. UNCHANGED <<setting, next_id, task, pending, progress, wbuf, wire, reader, queue, closed, result>>
  BY DEF Push, sending
<1>3. PICK f \in Frames : f = Frame("push", 0) /\ f.type = "push"
  <2>1. Frame("push", 0) \in Frames /\ Frame("push", 0).type = "push"
    BY DEF Frame, Frames
  <2>2. QED BY <2>1
<1>4. inbound' = Append(inbound, f)
  BY <1>3 DEF Push
<1>5. inbound' \in Seq(Frames) /\ Responses(inbound') = Responses(inbound) /\ Notes(inbound') = Notes(inbound)
  BY <1>1, <1>3, <1>4, FramePut
<1>6. Sound(inbound')
  BY <1>1, <1>3, <1>4, AnswerPut
<1>7. Elements(wbuf)' = Elements(wbuf) /\ Elements(wire)' = Elements(wire)
      /\ Ids(wbuf)' = Ids(wbuf) /\ Ids(wire)' = Ids(wire)
      /\ Uniq(wbuf)' = Uniq(wbuf) /\ Uniq(wire)' = Uniq(wire)
  BY <1>2
<1>8. Sent' = Sent
  BY <1>5, <1>7 DEF Sent
<1>9. WayInv'
  BY <1>1, <1>2, <1>5, <1>6, <1>7, <1>8 DEF WayInv
<1>10. ASSUME NEW u \in Tasks PROVE Kept(u)
  <2>1. Told(task[u].id)' = Told(task[u].id) /\ Placed(u)' = Placed(u)
    BY <1>2, <1>5, <1>7 DEF Told, Placed
  <2>2. QED BY <1>2, <1>5, <1>7, <1>8, <2>1 DEF Kept
<1>11. wire' \in Seq(Requests) /\ closed' \in {"yes", "no"}
  BY <1>1, <1>2 DEF Typed
<1>12. QED BY <1>2, <1>5, <1>9, <1>10, <1>11, TheirStep

LEMMA CloseStep ==
    ASSUME IInv, Close
    PROVE  IInv'
<1>1. Typed /\ WayInv
  BY DEF IInv
<1>2. /\ UNCHANGED <<setting, next_id, task, pending, progress, wbuf, wire, inbound, reader, queue, result>>
      /\ closed' = "yes"
  BY DEF Close, sending, receiving
<1>3. WayInv'
  BY <1>1, <1>2, WayKept DEF Typed
<1>4. ASSUME NEW u \in Tasks PROVE Kept(u)
  <2>1. Told(task[u].id)' = Told(task[u].id) /\ Sent' = Sent
    BY <1>2 DEF Told, Sent
  <2>2. QED BY <1>2, <2>1 DEF Kept
<1>5. wire' \in Seq(Requests) /\ inbound' \in Seq(Frames)
  BY <1>1, <1>2 DEF Typed
<1>6. QED BY <1>2, <1>3, <1>4, <1>5, TheirStep

LEMMA NothingStep ==
    ASSUME IInv, UNCHANGED vars
    PROVE  IInv'
<1>1. UNCHANGED <<setting, next_id, task, pending, progress, wbuf, reader, queue, wire, inbound,
                  closed, result>>
  BY DEF vars
<1>2. Typed /\ WayInv /\ next_id \in Nat
  BY DEF IInv, Typed
<1>3. WayInv'
  BY <1>1, <1>2, WayKept
<1>4. \A u \in Tasks : Kept(u)
  BY <1>1, KeptOnTheWay
<1>5. wire' \in Seq(Requests) /\ inbound' \in Seq(Frames) /\ closed' \in {"yes", "no"}
  BY <1>1, <1>2 DEF Typed
<1>6. QED BY <1>1, <1>3, <1>4, <1>5, TheirStep

-----------------------------------------------------------------------------
\* The theorems

LEMMA NextIInv == IInv /\ [Next]_vars => IInv'
<1>1. SUFFICES ASSUME IInv, [Next]_vars PROVE IInv'
  OBVIOUS
<1>2. ASSUME NEW t \in Tasks, Step(t) PROVE IInv'
  BY <1>1, <1>2, ChoosePathStep, EnqueueStep, FlushStep, SendNowStep, PollMailStep, PollLockStep,
     RecheckStep, ReadStep, ReadEofStep DEF Step
<1>3. ASSUME NEW t \in Tasks, TimeOut(t) \/ DropCall(t) PROVE IInv'
  BY <1>1, <1>3, TimeOutStep, DropCallStep
<1>4. ASSUME NEW t \in Tasks, NEW kind, kind \in Kinds, Start(t, kind) PROVE IInv'
  BY <1>1, <1>4, StartStep
<1>5. CASE Serve \/ Push \/ Close
  BY <1>1, <1>5, ServeStep, PushStep, CloseStep
<1>6. CASE UNCHANGED vars
  BY <1>1, <1>6, NothingStep
<1>7. QED BY <1>1, <1>2, <1>3, <1>4, <1>5, <1>6 DEF Next, Kinds

\* The inductive invariant: every request is in one place at a time, on its way, answered
\* or delivered (request_with_id, recv_response), and the reader lock and its queue agree
\* with where the tasks are (tokio's Mutex).
THEOREM MuxInductive == Spec => []IInv
<1>1. QED BY InitIInv, NextIInv, PTL DEF Spec

\* A call ends with the response to its own request, after its progress callback has run
\* once, or with an error (recv_response, pending and the oneshots).
THEOREM RoutedToOwnerAlways == Spec => []RoutedToOwner
<1>1. IInv => RoutedToOwner
  BY DEF IInv, CallInv, ResultOk, RoutedToOwner
<1>2. QED BY <1>1, MuxInductive, PTL

\* The response a waiting task needs is on its way or in its mailbox, once: neither
\* lost with another task's flush nor delivered twice (request_with_id, FrameWriter::flush,
\* recv_response).
THEOREM NoResponseLostAlways == Spec => []NoResponseLost
<1>1. ASSUME IInv, NEW t \in Tasks, Waiting(t), closed = "no"
      PROVE  LET id == task[t].id
             IN  /\ In(wire, id) \/ InResponses(id) \/ task[t].mail = id
                 /\ ~(In(wire, id) /\ InResponses(id))
                 /\ task[t].mail # 0 => ~In(wire, id) /\ ~InResponses(id)
  <2>1. inbound \in Seq(Frames) /\ WayInv /\ CallOk(t) /\ Placed(t) /\ task[t].pc # "yielded"
    <3>1. TaskOk(t) /\ task[t].pc \in Waits
      BY <1>1 DEF IInv, CallInv, Waiting, Waits
    <3>2. CallOk(t) /\ task[t].pc # "yielded"
      BY <3>1 DEF TaskOk, Waits
    <3>3. QED BY <1>1, <3>1, <3>2 DEF CallOk, IInv, Typed
  <2>2. In(wire, task[t].id) <=> task[t].id \in Ids(wire)
    BY DEF In, Ids, Elements
  <2>3. InResponses(task[t].id) <=> task[t].id \in Responses(inbound)
    <3>1. \A i \in DOMAIN inbound : inbound[i] = Frame("result", task[t].id) <=>
                                       inbound[i].type = "result" /\ inbound[i].id = task[t].id
      <4>1. \A i \in DOMAIN inbound : inbound[i] \in Frames
        BY <2>1, FrameFacts
      <4>2. QED BY <4>1 DEF Frames, Frame
    <3>2. QED BY <2>1, <3>1, FrameFacts DEF InResponses
  <2>4. task[t].id \in Ids(wire) \/ task[t].id \in Responses(inbound) \/ task[t].mail = task[t].id
    BY <2>1 DEF Placed
  <2>5. ~(task[t].id \in Ids(wire) /\ task[t].id \in Responses(inbound))
    BY <2>1 DEF WayInv
  <2>6. task[t].mail # 0 => task[t].id \notin Ids(wire) /\ task[t].id \notin Responses(inbound)
    BY <2>1 DEF CallOk, Sent
  <2>7. QED BY <2>2, <2>3, <2>4, <2>5, <2>6
<1>2. IInv => NoResponseLost
  BY <1>1 DEF NoResponseLost
<1>3. QED BY <1>2, MuxInductive, PTL

\* One reader, and as long as anyone queues for the lock someone has it and will read,
\* whoever times out, ends or is dropped meanwhile (recv_response's select! on tokio's Mutex).
THEOREM LockHandedOnAlways == Spec => []LockHandedOn
<1>1. ASSUME IInv PROVE TypeOK
  <2>1. Typed /\ WayInv /\ \A t \in Tasks : TaskOk(t)
    BY <1>1 DEF IInv, CallInv
  <2>2. next_id \in 1 .. setting.ids + 1
    <3>1. setting.ids \in Nat /\ next_id \in Nat \ {0} /\ next_id <= setting.ids + 1
      BY <2>1, MuxAssumption DEF Typed, IsSetting
    <3>2. QED BY <3>1
  <2>3. pending \cup progress \subseteq 1 .. next_id - 1
    BY <2>1 DEF WayInv
  <2>4. \A i \in DOMAIN queue : queue[i] \in Tasks
    BY <2>1, LenProperties, ElementOfSeq DEF Typed
  <2>5. \A t \in InFlight : task[t].id \in 1 .. next_id - 1
    BY <2>1 DEF InFlight, TaskOk, CallOk
  <2>6. reader \in Tasks \cup {Nobody}
    BY <2>1 DEF Typed
  <2>7. QED BY <2>2, <2>3, <2>4, <2>5, <2>6 DEF TypeOK
<1>2. ASSUME IInv, NEW t \in Tasks, task[t].pc = "parked"
      PROVE  reader = t \/ Cardinality({i \in DOMAIN queue : queue[i] = t}) = 1
  <2>1. LockInv
    BY <1>2 DEF IInv
  <2>2. CASE IsIn(queue, t)
    <3>1. PICK i \in DOMAIN queue : queue[i] = t
      BY <2>2 DEF IsIn
    <3>2. {j \in DOMAIN queue : queue[j] = t} = {i}
      BY <2>1, <3>1 DEF LockInv, Once
    <3>3. QED BY <3>2, FS_Singleton
  <2>3. QED BY <1>2, <2>1, <2>2 DEF LockInv
<1>3. ASSUME IInv
      PROVE  /\ queue # <<>> => reader # Nobody
             /\ \A t \in Tasks : task[t].pc \in {"recheck", "reading"} => reader = t
             /\ reader # Nobody => Waiting(reader)
  <2>1. LockInv /\ reader \in Tasks \cup {Nobody}
    BY <1>3 DEF IInv, Typed
  <2>2. QED BY <2>1 DEF LockInv, Waiting
<1>4. IInv => LockHandedOn
  BY <1>1, <1>2, <1>3 DEF LockHandedOn
<1>5. QED BY <1>4, MuxInductive, PTL
=============================================================================

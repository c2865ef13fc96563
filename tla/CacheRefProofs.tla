---------------------------- MODULE CacheRefProofs ----------------------------
(***************************************************************************)
(* No call ends with another call's result, results age two lifetimes at   *)
(* most, and a lone caller's references resolve, for any number of         *)
(* connections, tasks, keys and calls and any sizes of the caches.         *)
(***************************************************************************)
EXTENDS CacheRef, FiniteSetTheorems, SequenceTheorems, TLAPS

-----------------------------------------------------------------------------
\* The inductive invariant

In(q) == {q[i] : i \in DOMAIN q}

Entries == [content : Contents, at : 0 .. MaxTime]
CallsMade == [by : Tasks, key : Keys, serial : Nat \ {0}]
Outcomes == [asked : Keys, got : Contents \cup {Nothing}, meant : Contents,
             late : BOOLEAN, lost : BOOLEAN]
TaskStates == [pc : {"idle", "waiting", "mailbox"}, key : Keys \cup {Nothing},
               kind : {"plain", "keyless", Nothing}, serial : Nat, frame : Frames \cup {Nothing}]

Typed ==
    /\ setting \in Settings /\ now \in 0 .. MaxTime
    /\ server \in Caches /\ copies \in [Conns -> Caches]
    /\ delivered \in [Conns -> SUBSET Keys] /\ evicted \in [Conns -> SUBSET Keys]
    /\ running \in [Conns -> CallsMade \cup {Nothing}]
    /\ requests \in [Conns -> Seq(CallsMade)] /\ replies \in [Conns -> Seq(Frames)]
    /\ task \in [Tasks -> TaskStates] /\ result \in [Tasks -> Outcomes \cup {Nothing}]

\* The caches keep to their capacities.
Sized ==
    /\ Cardinality(Present(server)) <= setting.store
    /\ \A c \in Conns : Cardinality(Present(copies[c])) <= setting.room

\* What is under a key is a result of that key; the server has it since its run,
\* and a client got it within a lifetime of its run.
ServerOk ==
    \A k \in Present(server) : server[k].content = Content(k, server[k].at) /\ server[k].at <= now
CopiesOk ==
    \A c \in Conns : \A k \in Present(copies[c]) :
        /\ copies[c][k].content.of = k
        /\ setting.slow = "no" => copies[c][k].at - copies[c][k].content.made <= TTL

\* A call or a reply is of its task's last call or of an earlier one.
Current(t, serial) == task[t].pc # "idle" /\ task[t].serial = serial
CallOk(call) ==
    /\ call.serial <= task[call.by].serial
    /\ Current(call.by, call.serial) => call.key = task[call.by].key
Fresh(frame) == setting.slow = "no" => now - frame.content.made <= TTL
FrameOk(frame) ==
    /\ frame.serial <= task[frame.to].serial
    /\ frame.content.of = frame.key
    /\ Current(frame.to, frame.serial) => frame.key = task[frame.to].key /\ Fresh(frame)
FlightOk(c) ==
    /\ \A call \in In(requests[c]) : CallOk(call)
    /\ running[c] # Nothing => running[c] \in CallsMade /\ CallOk(running[c])
    /\ \A frame \in In(replies[c]) : FrameOk(frame)

TaskOk(t) ==
    /\ task[t].serial <= setting.calls[t]
    /\ task[t].pc # "idle" => /\ task[t].serial > 0 /\ task[t].key \in Keys
                              /\ task[t].kind \in setting.kinds
    /\ task[t].pc = "mailbox" => /\ task[t].frame \in Frames /\ task[t].frame.key = task[t].key
                                 /\ task[t].frame.content.of = task[t].key
                                 /\ Fresh(task[t].frame)
ResultOk(t) ==
    result[t] # Nothing /\ result[t].got # Nothing => result[t].got.of = result[t].asked
KeyInv ==
    /\ ServerOk /\ CopiesOk
    /\ \A c \in Conns : FlightOk(c)
    /\ \A t \in Tasks : TaskOk(t) /\ ResultOk(t)

\* A lone caller o on its connection c: its call is in one place at a time.
Own(o, call) == call.by = o /\ call.serial = task[o].serial
Nowhere(c) == requests[c] = <<>> /\ running[c] = Nothing /\ replies[c] = <<>>
Asking(o, c) ==
    /\ requests[c] # <<>> /\ requests[c] = <<Head(requests[c])>> /\ Own(o, Head(requests[c]))
    /\ running[c] = Nothing /\ replies[c] = <<>>
Computing(o, c) ==
    requests[c] = <<>> /\ running[c] # Nothing /\ Own(o, running[c]) /\ replies[c] = <<>>
Answering(o, c) ==
    /\ requests[c] = <<>> /\ running[c] = Nothing
    /\ replies[c] # <<>> /\ replies[c] = <<Head(replies[c])>>
    /\ Head(replies[c]).to = o /\ Head(replies[c]).serial = task[o].serial
OneAtATime(o, c) ==
    Nowhere(c) \/ (task[o].pc = "waiting" /\ (Asking(o, c) \/ Computing(o, c) \/ Answering(o, c)))

\* The server stands by what is on its way to the client; and what it has under a
\* key, the client has too, since then or later, or has lost, or is about to get.
Transit(o, c) == In(replies[c]) \cup (IF task[o].pc = "mailbox" THEN {task[o].frame} ELSE {})
FramesTrue(o, c) ==
    \A frame \in Transit(o, c) :
        server[frame.key] # Nothing /\ server[frame.key].content = frame.content
HasIt(c, k) ==
    /\ copies[c][k] # Nothing
    /\ copies[c][k].content = server[k].content /\ copies[c][k].at >= server[k].at
HasLost(c, k) ==
    copies[c][k] = Nothing /\ (k \in evicted[c] \/ now - server[k].at > TTL)
Copied(o, c, k) ==
    \/ HasIt(c, k) \/ HasLost(c, k)
    \/ \E frame \in Transit(o, c) : frame.kind = "full" /\ frame.key = k
CopiedAll(o, c) == \A k \in Present(server) : k \in delivered[c] /\ Copied(o, c, k)
Restored(how) == how.got = how.meant \/ (how.got = Nothing /\ (how.late \/ how.lost))
LoneOk(o, c) ==
    /\ \A t \in Tasks \ {o} : task[t].pc = "idle"
    /\ \A d \in Conns \ {c} : Nowhere(d)
    /\ OneAtATime(o, c) /\ FramesTrue(o, c) /\ CopiedAll(o, c)
    /\ \A t \in Ends : Restored(result[t])
LoneInv == LoneCaller => \A o \in Tasks : setting.calls[o] > 0 => LoneOk(o, setting.conn[o])

IInv == Typed /\ Sized /\ KeyInv /\ LoneInv

-----------------------------------------------------------------------------
\* Sequences and caches

LEMMA Appended ==
    ASSUME NEW S, NEW q \in Seq(S), NEW e \in S
    PROVE  /\ Append(q, e) \in Seq(S) /\ q \o <<e>> = Append(q, e)
           /\ Len(Append(q, e)) = Len(q) + 1 /\ Len(q) \in Nat
           /\ DOMAIN q = 1 .. Len(q) /\ DOMAIN Append(q, e) = 1 .. Len(q) + 1
           /\ \A i \in 1 .. Len(q) : Append(q, e)[i] = q[i]
           /\ Append(q, e)[Len(q) + 1] = e
           /\ In(Append(q, e)) = In(q) \cup {e}
<1>1. Append(q, e) \in Seq(S) /\ Len(Append(q, e)) = Len(q) + 1 /\ Len(q) \in Nat
      /\ \A i \in 1 .. Len(q) : Append(q, e)[i] = q[i]
      /\ Append(q, e)[Len(q) + 1] = e
  BY AppendProperties, LenProperties
<1>2. q \o <<e>> = Append(q, e)
  BY AppendIsConcat
<1>3. DOMAIN q = 1 .. Len(q) /\ DOMAIN Append(q, e) = 1 .. Len(q) + 1
  BY <1>1, LenProperties
<1>4. In(Append(q, e)) = In(q) \cup {e}
  <2>1. 1 .. Len(q) + 1 = (1 .. Len(q)) \cup {Len(q) + 1}
    BY <1>1
  <2>2. QED BY <1>1, <1>3, <2>1 DEF In
<1>5. QED BY <1>1, <1>2, <1>3, <1>4

LEMMA Shortened ==
    ASSUME NEW S, NEW q \in Seq(S), q # <<>>
    PROVE  /\ Tail(q) \in Seq(S) /\ Head(q) = q[1] /\ Head(q) \in S
           /\ DOMAIN q = 1 .. Len(q) /\ Len(q) \in Nat \ {0} /\ DOMAIN Tail(q) = 1 .. Len(q) - 1
           /\ \A i \in 1 .. Len(q) - 1 : Tail(q)[i] = q[i + 1]
           /\ In(q) = {Head(q)} \cup In(Tail(q))
<1>1. /\ Tail(q) \in Seq(S) /\ Len(Tail(q)) = Len(q) - 1 /\ Len(q) \in Nat \ {0} /\ Head(q) \in S
      /\ \A i \in 1 .. Len(q) - 1 : Tail(q)[i] = q[i + 1]
  BY HeadTailProperties, EmptySeq, LenProperties
<1>2. DOMAIN q = 1 .. Len(q) /\ DOMAIN Tail(q) = 1 .. Len(q) - 1
  BY <1>1, LenProperties
<1>3. Head(q) = q[1]
  OBVIOUS
<1>4. In(q) = {Head(q)} \cup In(Tail(q))
  <2>1. ASSUME NEW i \in 1 .. Len(q)
        PROVE  q[i] = Head(q) \/ \E j \in 1 .. Len(q) - 1 : q[i] = Tail(q)[j]
    <3>1. CASE i = 1
      BY <1>3, <3>1
    <3>2. CASE i # 1
      <4>1. i - 1 \in 1 .. Len(q) - 1 /\ (i - 1) + 1 = i
        BY <1>1, <3>2
      <4>2. QED BY <1>1, <4>1
    <3>3. QED BY <3>1, <3>2
  <2>2. 1 \in 1 .. Len(q) /\ \A j \in 1 .. Len(q) - 1 : j + 1 \in 1 .. Len(q)
    BY <1>1
  <2>3. In(q) \subseteq {Head(q)} \cup In(Tail(q))
    BY <1>2, <2>1 DEF In
  <2>4. {Head(q)} \cup In(Tail(q)) \subseteq In(q)
    BY <1>1, <1>2, <1>3, <2>2 DEF In
  <2>5. QED BY <2>3, <2>4
<1>5. QED BY <1>1, <1>2, <1>3, <1>4

LEMMA Singleton ==
    ASSUME NEW S, NEW q \in Seq(S), q # <<>>, q = <<Head(q)>>
    PROVE  Tail(q) = <<>> /\ In(q) = {Head(q)}
<1>1. Head(q) \in S
  BY Shortened
<1>2. ASSUME NEW h \in S PROVE Tail(<<h>>) = <<>> /\ In(<<h>>) = {h}
  BY DEF In
<1>3. PICK h \in S : h = Head(q)
  BY <1>1
<1>4. q = <<h>>
  BY <1>3
<1>5. QED BY <1>2, <1>3, <1>4

LEMMA InEmpty == In(<<>>) = {}
  BY DEF In

LEMMA SettingFacts ==
    ASSUME Typed
    PROVE  /\ setting.conn \in [Tasks -> Conns] /\ setting.kinds \subseteq {"plain", "keyless"}
           /\ setting.slow \in {"yes", "no"} /\ setting.room \in Nat \ {0}
           /\ setting.calls \in [Tasks -> Nat]
           /\ TTL \in Nat \ {0} /\ setting.store \in Nat \ {0} /\ MaxTime \in Nat /\ IsFiniteSet(Keys)
           /\ now \in Nat
  BY RefAssumption DEF Typed, IsSetting

LEMMA PresentFinite ==
    ASSUME NEW cache
    PROVE  /\ IsFiniteSet(Present(cache)) /\ Cardinality(Present(cache)) \in Nat
<1>1. IsFiniteSet(Keys) /\ Present(cache) \subseteq Keys
  BY RefAssumption DEF Present
<1>2. QED BY <1>1, FS_Subset, FS_CardinalityType

\* Nothing is no entry of a cache.
LEMMA EntryIsSomething == \A e \in Entries : e # Nothing
<1>1. Entries \subseteq [content : [of : Keys, made : Nat], at : Nat]
  BY RefAssumption DEF Entries, Contents
<1>2. QED BY <1>1, RefAssumption

LEMMA GetFacts ==
    ASSUME NEW cache \in Caches, NEW k \in Keys
    PROVE  /\ AfterGet(cache, k) \in Caches
           /\ \A j \in Keys : AfterGet(cache, k)[j] = cache[j] \/ AfterGet(cache, k)[j] = Nothing
           /\ Alive(cache, k) => AfterGet(cache, k) = cache
           /\ \A j \in Keys \ {k} : AfterGet(cache, k)[j] = cache[j]
           /\ Present(AfterGet(cache, k)) \subseteq Present(cache)
           /\ Cardinality(Present(AfterGet(cache, k))) <= Cardinality(Present(cache))
<1>1. PICK d : d = AfterGet(cache, k)
  OBVIOUS
<1>2. /\ d \in Caches /\ \A j \in Keys : d[j] = cache[j] \/ d[j] = Nothing
      /\ Alive(cache, k) => d = cache
      /\ \A j \in Keys \ {k} : d[j] = cache[j]
  BY <1>1 DEF AfterGet, Caches
<1>3. Present(d) \subseteq Present(cache)
  BY <1>2 DEF Present
<1>4. Cardinality(Present(d)) <= Cardinality(Present(cache))
  BY <1>3, PresentFinite, FS_Subset
<1>5. QED BY <1>1, <1>2, <1>3, <1>4

LEMMA OneMoreAtMost ==
    ASSUME NEW S, NEW x, IsFiniteSet(S)
    PROVE  IsFiniteSet(S \cup {x}) /\ Cardinality(S \cup {x}) <= Cardinality(S) + 1
<1>1. Cardinality(S) \in Nat
  BY FS_CardinalityType
<1>2. /\ IsFiniteSet(S \cup {x})
      /\ Cardinality(S \cup {x}) = IF x \in S THEN Cardinality(S) ELSE Cardinality(S) + 1
  BY FS_AddElement
<1>3. QED BY <1>1, <1>2

LEMMA PutFacts ==
    ASSUME NEW cache \in Caches, NEW k \in Keys, NEW content \in Contents, now \in 0 .. MaxTime,
           NEW capacity \in Nat \ {0}, Cardinality(Present(cache)) <= capacity,
           NEW d \in AfterPut(cache, k, content, capacity)
    PROVE  /\ d \in Caches /\ Cardinality(Present(d)) <= capacity
           /\ d[k] = [content |-> content, at |-> now]
           /\ \A j \in Keys \ {k} : d[j] = cache[j] \/ d[j] = Nothing
<1>1. PICK new \in [content : Contents, at : 0 .. MaxTime] : new = [content |-> content, at |-> now]
  OBVIOUS
<1>2. CASE Cardinality(Present(cache)) >= capacity /\ cache[k] = Nothing
  <2>1. PICK v \in Present(cache) : d = [cache EXCEPT ![v] = Nothing, ![k] = new]
    BY <1>1, <1>2 DEF AfterPut
  <2>2. v \in Keys /\ cache[v] # Nothing /\ v # k
    BY <1>2 DEF Present
  <2>3. /\ d \in Caches /\ d[k] = new /\ d[v] = Nothing
        /\ \A j \in Keys \ {k, v} : d[j] = cache[j]
    BY <2>1, <2>2 DEF Caches
  <2>4. Present(d) \subseteq (Present(cache) \ {v}) \cup {k}
    BY <2>3 DEF Present
  <2>5. Cardinality(Present(d)) <= Cardinality(Present(cache))
    <3>1. /\ IsFiniteSet(Present(cache) \ {v})
          /\ Cardinality(Present(cache) \ {v}) = Cardinality(Present(cache)) - 1
      BY PresentFinite, FS_RemoveElement
    <3>2. /\ IsFiniteSet((Present(cache) \ {v}) \cup {k})
          /\ Cardinality((Present(cache) \ {v}) \cup {k}) <= Cardinality(Present(cache) \ {v}) + 1
      BY <3>1, OneMoreAtMost
    <3>3. Cardinality(Present(d)) <= Cardinality((Present(cache) \ {v}) \cup {k})
      BY <2>4, <3>2, FS_Subset
    <3>4. QED BY <3>1, <3>2, <3>3, PresentFinite, FS_CardinalityType
  <2>6. Cardinality(Present(cache)) \in Nat /\ Cardinality(Present(d)) \in Nat
    BY PresentFinite
  <2>7. QED BY <1>1, <2>2, <2>3, <2>5, <2>6
<1>3. CASE ~(Cardinality(Present(cache)) >= capacity /\ cache[k] = Nothing)
  <2>1. d = [cache EXCEPT ![k] = new]
    BY <1>1, <1>3 DEF AfterPut
  <2>2. d \in Caches /\ d[k] = new /\ \A j \in Keys \ {k} : d[j] = cache[j]
    BY <2>1 DEF Caches
  <2>3. Cardinality(Present(d)) <= capacity
    <3>1. CASE cache[k] # Nothing
      <4>1. Present(d) \subseteq Present(cache)
        BY <2>2, <3>1 DEF Present
      <4>2. QED BY <4>1, PresentFinite, FS_Subset
    <3>2. CASE cache[k] = Nothing
      <4>1. Present(d) \subseteq Present(cache) \cup {k}
        BY <2>2 DEF Present
      <4>2. /\ IsFiniteSet(Present(cache) \cup {k})
            /\ Cardinality(Present(cache) \cup {k}) <= Cardinality(Present(cache)) + 1
        BY PresentFinite, OneMoreAtMost
      <4>3. Cardinality(Present(d)) <= Cardinality(Present(cache) \cup {k})
        BY <4>1, <4>2, FS_Subset
      <4>4. QED BY <1>3, <3>2, <4>2, <4>3, PresentFinite, FS_CardinalityType
    <3>3. QED BY <3>1, <3>2
  <2>4. QED BY <1>1, <2>2, <2>3
<1>4. QED BY <1>2, <1>3

-----------------------------------------------------------------------------
\* What a step leaves as it was

\* Tasks end calls and begin later ones.
Moves ==
    /\ setting' = setting
    /\ \A t \in Tasks :
          \/ /\ task'[t].serial = task[t].serial
             /\ task'[t].pc # "idle" => task[t].pc # "idle" /\ task'[t].key = task[t].key
          \/ task[t].pc = "idle" /\ task'[t].serial = task[t].serial + 1

LEMMA InFlightStays ==
    ASSUME Typed, Moves, now' = now
    PROVE  /\ \A call \in CallsMade : CallOk(call) => CallOk(call)'
           /\ \A frame \in Frames : FrameOk(frame) => FrameOk(frame)'
<1>1. \A t \in Tasks : task[t].serial \in Nat /\ task'[t].serial \in Nat
                       /\ task'[t].serial >= task[t].serial
                       /\ \A n \in Nat : n <= task[t].serial /\ Current(t, n)' =>
                             Current(t, n) /\ task'[t].key = task[t].key
  BY DEF Typed, TaskStates, Moves, Current
<1>2. ASSUME NEW call \in CallsMade, CallOk(call) PROVE CallOk(call)'
  <2>1. call.by \in Tasks /\ call.serial \in Nat
    BY DEF CallsMade
  <2>2. call.serial <= task'[call.by].serial
    BY <1>1, <1>2, <2>1 DEF CallOk
  <2>3. Current(call.by, call.serial)' => call.key = task'[call.by].key
    BY <1>1, <1>2, <2>1 DEF CallOk
  <2>4. QED BY <2>2, <2>3 DEF CallOk
<1>3. ASSUME NEW frame \in Frames, FrameOk(frame) PROVE FrameOk(frame)'
  <2>1. frame.to \in Tasks /\ frame.serial \in Nat
    BY DEF Frames
  <2>2. frame.serial <= task'[frame.to].serial
    BY <1>1, <1>3, <2>1 DEF FrameOk
  <2>3. Current(frame.to, frame.serial)' => frame.key = task'[frame.to].key /\ Fresh(frame)
    BY <1>1, <1>3, <2>1 DEF FrameOk
  <2>4. Fresh(frame) => Fresh(frame)'
    BY DEF Fresh, Moves
  <2>5. QED BY <1>3, <2>2, <2>3, <2>4 DEF FrameOk
<1>4. QED BY <1>2, <1>3

LEMMA InFlightTypes ==
    ASSUME Typed, NEW c \in Conns
    PROVE  /\ requests[c] \in Seq(CallsMade) /\ In(requests[c]) \subseteq CallsMade
           /\ replies[c] \in Seq(Frames) /\ In(replies[c]) \subseteq Frames
<1>1. requests[c] \in Seq(CallsMade) /\ replies[c] \in Seq(Frames)
  BY DEF Typed
<1>2. ASSUME NEW S, NEW q \in Seq(S) PROVE In(q) \subseteq S
  BY ElementOfSeq, LenProperties DEF In
<1>3. QED BY <1>1, <1>2

LEMMA FlightStays ==
    ASSUME IInv, Moves, now' = now, NEW c \in Conns,
           In(requests'[c]) \subseteq In(requests[c]), running'[c] = running[c],
           In(replies'[c]) \subseteq In(replies[c])
    PROVE  FlightOk(c)'
<1>1. FlightOk(c) /\ Typed
  BY DEF IInv, KeyInv
<1>2. In(requests[c])' = In(requests'[c]) /\ In(replies[c])' = In(replies'[c])
  BY DEF In
<1>3. QED BY <1>1, <1>2, InFlightStays, InFlightTypes DEF FlightOk

\* What is under a key in the server's cache.
LEMMA EntryFacts ==
    ASSUME IInv, NEW k \in Keys, server[k] # Nothing
    PROVE  /\ server[k] \in Entries /\ server[k].content \in Contents /\ server[k].content.of = k
           /\ Alive(server, k) => now - server[k].content.made <= TTL
           /\ server[k].content.made = server[k].at /\ server[k].at \in Nat /\ server[k].at <= now
<1>1. server[k] \in Entries /\ server[k].content \in Contents
  BY DEF IInv, Typed, Caches, Entries
<1>2. server[k].content = Content(k, server[k].at) /\ server[k].at <= now
  BY DEF IInv, KeyInv, ServerOk, Present
<1>3. server[k].content.of = k /\ server[k].content.made = server[k].at
  BY <1>2 DEF Content
<1>4. server[k].at \in Nat
  BY <1>1, SettingFacts DEF Entries, IInv
<1>5. QED BY <1>1, <1>2, <1>3, <1>4 DEF Alive

LEMMA CachesStay ==
    ASSUME IInv, UNCHANGED <<setting, server, copies>>, now' = now \/ now' = now + 1
    PROVE  Sized' /\ ServerOk' /\ CopiesOk'
<1>1. Sized' /\ CopiesOk'
  BY DEF IInv, KeyInv, Sized, CopiesOk, Present
<1>2. ASSUME NEW k \in Keys, server[k] # Nothing PROVE server[k].at <= now'
  BY <1>2, SettingFacts, EntryFacts DEF IInv
<1>3. ServerOk'
  BY <1>2 DEF IInv, KeyInv, ServerOk, Present
<1>4. QED BY <1>1, <1>3

LEMMA TaskStays ==
    ASSUME IInv, NEW t \in Tasks, task'[t] = task[t], result'[t] = result[t], UNCHANGED <<setting, now>>
    PROVE  TaskOk(t)' /\ ResultOk(t)'
  BY DEF IInv, KeyInv, TaskOk, ResultOk, Fresh

\* A call is over.
LEMMA EndedFacts ==
    ASSUME IInv, NEW t \in Tasks, task[t].pc \in {"waiting", "mailbox"},
           NEW how \in Outcomes \cup {Nothing}, Ended(t, how)
    PROVE  /\ Moves /\ now' = now
           /\ task' \in [Tasks -> TaskStates] /\ result' \in [Tasks -> Outcomes \cup {Nothing}]
           /\ UNCHANGED <<setting, server, delivered, running, requests, replies>>
           /\ \A c \in Conns : FlightOk(c)'
           /\ \A u \in Tasks \ {t} : task'[u] = task[u] /\ result'[u] = result[u]
           /\ task'[t].pc = "idle" /\ result'[t] = how
           /\ \A u \in Tasks : TaskOk(u)'
           /\ (how # Nothing /\ how.got # Nothing => how.got.of = how.asked)
                 => \A u \in Tasks : ResultOk(u)'
<1>1. /\ Typed /\ UNCHANGED <<setting, now, server, delivered, running, requests, replies>>
      /\ task' = [task EXCEPT ![t] = [NoCall EXCEPT !.serial = task[t].serial]]
      /\ result' = [result EXCEPT ![t] = how]
  BY DEF IInv, Ended
<1>2. PICK s \in TaskStates : s = [NoCall EXCEPT !.serial = task[t].serial]
  BY <1>1 DEF Typed, TaskStates, NoCall
<1>3. s.pc = "idle" /\ s.serial = task[t].serial
  BY <1>2 DEF NoCall
<1>4. /\ task' \in [Tasks -> TaskStates] /\ result' \in [Tasks -> Outcomes \cup {Nothing}]
      /\ \A u \in Tasks \ {t} : task'[u] = task[u] /\ result'[u] = result[u]
      /\ task'[t] = s /\ result'[t] = how
  BY <1>1, <1>2 DEF Typed
<1>5. Moves
  BY <1>1, <1>3, <1>4 DEF Moves
<1>6. \A c \in Conns : FlightOk(c)'
  BY <1>1, <1>5, FlightStays
<1>7. TaskOk(t)'
  BY <1>1, <1>3, <1>4 DEF TaskOk, IInv, KeyInv
<1>8. (how # Nothing /\ how.got # Nothing => how.got.of = how.asked) => ResultOk(t)'
  BY <1>4 DEF ResultOk
<1>9. QED BY <1>1, <1>3, <1>4, <1>5, <1>6, <1>7, <1>8, TaskStays

-----------------------------------------------------------------------------
\* Keys, ages and capacities, action by action

LEMMA CallKeeps ==
    ASSUME IInv, NEW t \in Tasks, NEW k \in Keys, NEW kind \in setting.kinds, Call(t, k, kind)
    PROVE  Typed' /\ Sized' /\ KeyInv'
<1> DEFINE n == task[t].serial + 1
<1>0. PICK c \in Conns : c = setting.conn[t]
  BY SettingFacts DEF IInv
<1>1. Typed /\ n \in Nat \ {0} /\ kind \in {"plain", "keyless"}
  <2>1. Typed /\ task[t].serial \in Nat
    BY DEF IInv, Typed, TaskStates
  <2>2. QED BY <2>1, SettingFacts
<1>2. PICK call \in CallsMade : call = [by |-> t, key |-> k, serial |-> n]
  BY <1>1 DEF CallsMade
<1>3. PICK s \in TaskStates :
        s = [pc |-> "waiting", key |-> k, kind |-> kind, serial |-> n, frame |-> Nothing]
  BY <1>1 DEF TaskStates
<1>4. /\ call.by = t /\ call.key = k /\ call.serial = n
      /\ s.pc = "waiting" /\ s.key = k /\ s.kind = kind /\ s.serial = n
  BY <1>2, <1>3
<1>5. /\ task[t].pc = "idle" /\ task[t].serial < setting.calls[t]
      /\ task' = [task EXCEPT ![t] = s]
      /\ requests' = [requests EXCEPT ![c] = Append(requests[c], call)]
      /\ result' = [result EXCEPT ![t] = Nothing]
      /\ UNCHANGED <<setting, now, server, delivered, running, replies, copies, evicted>>
  BY <1>0, <1>2, <1>3, <1>4 DEF Call
<1>6. /\ task'[t] = s /\ result'[t] = Nothing
      /\ \A u \in Tasks \ {t} : task'[u] = task[u] /\ result'[u] = result[u]
      /\ requests'[c] = Append(requests[c], call)
      /\ \A d \in Conns \ {c} : requests'[d] = requests[d]
  BY <1>1, <1>5 DEF Typed
<1>7. Typed'
  <2>1. Append(requests[c], call) \in Seq(CallsMade)
    BY <1>1, Appended DEF Typed
  <2>2. QED BY <1>1, <1>5, <2>1 DEF Typed
<1>8. Moves
  BY <1>4, <1>5, <1>6 DEF Moves
<1>9. \A d \in Conns \ {c} : FlightOk(d)'
  BY <1>5, <1>6, <1>8, FlightStays
<1>10. FlightOk(c)'
  <2>1. FlightOk(c) /\ In(requests'[c]) = In(requests[c]) \cup {call}
    BY <1>1, <1>6, Appended, InFlightTypes DEF IInv, KeyInv
  <2>2. CallOk(call)'
    BY <1>1, <1>4, <1>6 DEF CallOk
  <2>3. In(requests[c])' = In(requests'[c]) /\ In(replies[c])' = In(replies[c])
    BY <1>5 DEF In
  <2>4. QED BY <1>1, <1>5, <1>8, <2>1, <2>2, <2>3, InFlightStays, InFlightTypes DEF FlightOk
<1>11. TaskOk(t)' /\ ResultOk(t)'
  <2>1. n <= setting.calls[t]
    BY <1>1, <1>5, SettingFacts DEF Typed, TaskStates
  <2>2. QED BY <1>1, <1>4, <1>5, <1>6, <2>1 DEF TaskOk, ResultOk
<1>12. Sized' /\ ServerOk' /\ CopiesOk'
  BY <1>5, CachesStay
<1>13. \A u \in Tasks \ {t} : TaskOk(u)' /\ ResultOk(u)'
  BY <1>5, <1>6, TaskStays
<1>14. QED BY <1>7, <1>9, <1>10, <1>11, <1>12, <1>13 DEF KeyInv

\* A frame that replies to a call, in full or by reference.
Replied(c, kind, call, content, frame) ==
    /\ frame.kind = kind /\ frame.to = call.by /\ frame.serial = call.serial
    /\ frame.key = call.key /\ frame.content = content /\ FrameOk(frame)
    /\ replies' \in [Conns -> Seq(Frames)]
    /\ replies'[c] = Append(replies[c], frame) /\ In(replies'[c]) = In(replies[c]) \cup {frame}
    /\ \A d \in Conns \ {c} : replies'[d] = replies[d]

LEMMA ReplyFacts ==
    ASSUME IInv, NEW c \in Conns, NEW call \in CallsMade, CallOk(call),
           NEW kind, kind \in {"ref", "full"}, NEW content \in Contents, content.of = call.key,
           now - content.made <= TTL, Reply(c, kind, call, content)
    PROVE  \E frame \in Frames : Replied(c, kind, call, content, frame)
<1>1. PICK frame \in Frames :
        frame = [kind |-> kind, to |-> call.by, serial |-> call.serial,
                 key |-> call.key, content |-> content]
  BY DEF Frames, CallsMade
<1>2. /\ frame.kind = kind /\ frame.to = call.by /\ frame.serial = call.serial
      /\ frame.key = call.key /\ frame.content = content
  BY <1>1
<1>3. FrameOk(frame)
  BY <1>2 DEF FrameOk, CallOk, Fresh
<1>4. replies \in [Conns -> Seq(Frames)]
  BY DEF IInv, Typed
<1>5. replies' = [replies EXCEPT ![c] = Append(replies[c], frame)]
  BY <1>1 DEF Reply
<1>6. Append(replies[c], frame) \in Seq(Frames) /\ In(Append(replies[c], frame)) = In(replies[c]) \cup {frame}
  BY <1>4, Appended
<1>7. /\ replies' \in [Conns -> Seq(Frames)] /\ replies'[c] = Append(replies[c], frame)
      /\ \A d \in Conns \ {c} : replies'[d] = replies[d]
  BY <1>4, <1>5, <1>6
<1>8. QED BY <1>2, <1>3, <1>5, <1>6, <1>7 DEF Replied

\* What the session takes up.
LEMMA TakenUp ==
    ASSUME IInv, NEW c \in Conns, Lookup(c)
    PROVE  \E call \in CallsMade :
              /\ call = Head(requests[c]) /\ CallOk(call) /\ call \in In(requests[c])
              /\ HitOf(c, call) \/ MissOf(c, call)
              /\ requests' \in [Conns -> Seq(CallsMade)] /\ requests'[c] = Tail(requests[c])
              /\ In(requests'[c]) \subseteq In(requests[c])
              /\ \A d \in Conns \ {c} : requests'[d] = requests[d]
<1>1. /\ requests \in [Conns -> Seq(CallsMade)] /\ requests[c] # <<>>
      /\ requests' = [requests EXCEPT ![c] = Tail(requests[c])]
  BY DEF IInv, Typed, Lookup
<1>2. /\ Tail(requests[c]) \in Seq(CallsMade) /\ Head(requests[c]) \in CallsMade
      /\ In(requests[c]) = {Head(requests[c])} \cup In(Tail(requests[c]))
  BY <1>1, Shortened
<1>3. /\ requests' \in [Conns -> Seq(CallsMade)] /\ requests'[c] = Tail(requests[c])
      /\ \A d \in Conns \ {c} : requests'[d] = requests[d]
  BY <1>1, <1>2
<1>4. CallOk(Head(requests[c]))
  BY <1>2 DEF IInv, KeyInv, FlightOk
<1>5. HitOf(c, Head(requests[c])) \/ MissOf(c, Head(requests[c]))
  BY DEF Lookup
<1>6. QED BY <1>2, <1>3, <1>4, <1>5

LEMMA LookupKeeps ==
    ASSUME IInv, NEW c \in Conns, Lookup(c)
    PROVE  Typed' /\ Sized' /\ KeyInv'
<1>1. PICK call \in CallsMade :
        /\ call = Head(requests[c]) /\ CallOk(call) /\ call \in In(requests[c])
        /\ HitOf(c, call) \/ MissOf(c, call)
        /\ requests' \in [Conns -> Seq(CallsMade)] /\ requests'[c] = Tail(requests[c])
        /\ In(requests'[c]) \subseteq In(requests[c])
        /\ \A d \in Conns \ {c} : requests'[d] = requests[d]
  BY TakenUp
<1>2. Typed /\ call.key \in Keys /\ UNCHANGED <<setting, now, copies, evicted, task, result>>
  BY DEF IInv, Lookup, CallsMade
<1>3. Moves
  BY <1>2 DEF Moves, Typed
<1>4. \A t \in Tasks : TaskOk(t)' /\ ResultOk(t)'
  BY <1>2, TaskStays
<1>5. In(requests[c])' = In(requests'[c]) /\ In(replies[c])' = In(replies'[c])
  BY DEF In
<1>6. CASE HitOf(c, call)
  <2>1. /\ Alive(server, call.key) /\ Reply(c, ReplyKind(c, call.key), call, server[call.key].content)
        /\ delivered' = [delivered EXCEPT ![c] = delivered[c] \cup {call.key}]
        /\ UNCHANGED <<server, running>>
    BY <1>6 DEF HitOf
  <2>2. /\ server[call.key].content \in Contents /\ server[call.key].content.of = call.key
        /\ now - server[call.key].content.made <= TTL
    BY <1>2, <2>1, EntryFacts DEF Alive
  <2>3. PICK kind \in {"ref", "full"}, content \in Contents :
          /\ Reply(c, kind, call, content) /\ content.of = call.key /\ now - content.made <= TTL
          /\ CallOk(call)
    BY <1>1, <2>1, <2>2 DEF ReplyKind
  <2>4. PICK frame \in Frames : Replied(c, kind, call, content, frame)
    BY <2>3, ReplyFacts
  <2>5. Typed'
    BY <1>1, <1>2, <2>1, <2>4 DEF Typed, Replied
  <2>6. FlightOk(c)'
    <3>1. FlightOk(c)
      BY DEF IInv, KeyInv
    <3>2. QED BY <1>1, <1>2, <1>3, <1>5, <2>1, <2>4, <3>1, InFlightStays, InFlightTypes DEF FlightOk, Replied
  <2>7. \A d \in Conns \ {c} : FlightOk(d)'
    BY <1>1, <1>2, <1>3, <2>1, <2>4, FlightStays DEF Replied
  <2>8. Sized' /\ ServerOk' /\ CopiesOk'
    BY <1>2, <2>1, CachesStay
  <2>9. QED BY <1>4, <2>5, <2>6, <2>7, <2>8 DEF KeyInv
<1>7. CASE MissOf(c, call)
  <2>1. /\ server' = AfterGet(server, call.key) /\ running' = [running EXCEPT ![c] = call]
        /\ UNCHANGED <<delivered, replies>>
    BY <1>7 DEF MissOf
  <2>2. /\ server \in Caches /\ server' \in Caches
        /\ Cardinality(Present(server')) <= Cardinality(Present(server))
        /\ \A j \in Keys : server'[j] = server[j] \/ server'[j] = Nothing
    BY <1>2, <2>1, GetFacts DEF Typed
  <2>3. Typed' /\ running'[c] = call /\ \A d \in Conns \ {c} : running'[d] = running[d]
    BY <1>1, <1>2, <2>1, <2>2 DEF Typed
  <2>4. FlightOk(c)'
    <3>1. FlightOk(c)
      BY DEF IInv, KeyInv
    <3>2. QED BY <1>1, <1>2, <1>3, <1>5, <2>1, <2>3, <3>1, InFlightStays, InFlightTypes DEF FlightOk
  <2>5. \A d \in Conns \ {c} : FlightOk(d)'
    BY <1>1, <1>2, <1>3, <2>1, <2>3, FlightStays
  <2>6. Sized' /\ ServerOk' /\ CopiesOk'
    <3>1. ServerOk'
      BY <1>2, <2>2 DEF IInv, KeyInv, ServerOk, Present
    <3>2. CopiesOk'
      BY <1>2 DEF IInv, KeyInv, CopiesOk, Present
    <3>3. Cardinality(Present(server'))  <= setting.store
      BY <2>2, PresentFinite, SettingFacts DEF IInv, Sized
    <3>4. Present(server)' = Present(server') /\ \A d \in Conns : Present(copies[d])' = Present(copies[d])
      BY <1>2 DEF Present
    <3>5. Sized'
      BY <1>2, <3>3, <3>4 DEF IInv, Sized
    <3>6. QED BY <3>1, <3>2, <3>5
  <2>7. QED BY <1>4, <2>3, <2>4, <2>5, <2>6 DEF KeyInv
<1>8. QED BY <1>1, <1>6, <1>7

LEMMA ExecuteKeeps ==
    ASSUME IInv, NEW c \in Conns, Execute(c)
    PROVE  Typed' /\ Sized' /\ KeyInv'
<1>1. /\ Typed /\ running[c] # Nothing
      /\ server' \in AfterPut(server, running[c].key, Content(running[c].key, now), setting.store)
      /\ Reply(c, "full", running[c], Content(running[c].key, now))
      /\ delivered' = [delivered EXCEPT ![c] = delivered[c] \cup {running[c].key}]
      /\ running' = [running EXCEPT ![c] = Nothing]
      /\ UNCHANGED <<setting, now, requests, copies, evicted, task, result>>
  BY DEF IInv, Execute
<1>2. PICK call \in CallsMade : call = running[c] /\ CallOk(call)
  BY <1>1 DEF IInv, KeyInv, FlightOk
<1>3. PICK content \in Contents : content = Content(call.key, now) /\ content.of = call.key /\ content.made = now
  <2>1. Content(call.key, now) \in Contents
    BY <1>1 DEF Content, Contents, CallsMade, Typed
  <2>2. Content(call.key, now).of = call.key /\ Content(call.key, now).made = now
    BY DEF Content
  <2>3. QED BY <2>1, <2>2
<1>4. call.key \in Keys /\ now - content.made <= TTL
  BY <1>1, <1>3, SettingFacts DEF CallsMade
<1>5. PICK frame \in Frames : Replied(c, "full", call, content, frame)
  BY <1>1, <1>2, <1>3, <1>4, ReplyFacts
<1>6. Moves
  BY <1>1 DEF Moves, Typed
<1>7. /\ server' \in Caches /\ Cardinality(Present(server')) <= setting.store
      /\ server'[call.key] = [content |-> content, at |-> now]
      /\ \A j \in Keys \ {call.key} : server'[j] = server[j] \/ server'[j] = Nothing
  BY <1>1, <1>2, <1>3, <1>4, SettingFacts, PutFacts DEF IInv, Sized, Typed
<1>8. Typed'
  BY <1>1, <1>2, <1>4, <1>5, <1>7 DEF Typed, Replied
<1>9. FlightOk(c)'
  <2>1. FlightOk(c) /\ running'[c] = Nothing
    BY <1>1 DEF IInv, KeyInv, Typed
  <2>2. In(requests[c])' = In(requests[c]) /\ In(replies[c])' = In(replies'[c])
    BY <1>1 DEF In
  <2>3. QED BY <1>1, <1>5, <1>6, <2>1, <2>2, InFlightStays, InFlightTypes DEF FlightOk, Replied
<1>10. \A d \in Conns \ {c} : FlightOk(d)'
  <2>1. \A d \in Conns \ {c} : running'[d] = running[d] /\ requests'[d] = requests[d]
    BY <1>1 DEF Typed
  <2>2. QED BY <1>1, <1>5, <1>6, <2>1, FlightStays DEF Replied
<1>11. ServerOk'
  <2>1. server'[call.key].content = Content(call.key, server'[call.key].at) /\ server'[call.key].at <= now'
    BY <1>1, <1>3, <1>7, SettingFacts
  <2>2. \A j \in Keys \ {call.key} : server'[j] # Nothing =>
           server'[j].content = Content(j, server'[j].at) /\ server'[j].at <= now'
    BY <1>1, <1>7 DEF IInv, KeyInv, ServerOk, Present
  <2>3. QED BY <2>1, <2>2 DEF ServerOk, Present
<1>12. CopiesOk' /\ Sized'
  <2>1. Present(server)' = Present(server') /\ \A d \in Conns : Present(copies[d])' = Present(copies[d])
    BY <1>1 DEF Present
  <2>2. QED BY <1>1, <1>7, <2>1 DEF IInv, KeyInv, CopiesOk, Sized
<1>13. \A t \in Tasks : TaskOk(t)' /\ ResultOk(t)'
  BY <1>1, TaskStays
<1>14. QED BY <1>8, <1>9, <1>10, <1>11, <1>12, <1>13 DEF KeyInv

\* What is dispatched, and to whom.
LEMMA Dispatched ==
    ASSUME IInv, NEW c \in Conns, Dispatch(c)
    PROVE  \E frame \in Frames :
              /\ frame = Head(replies[c]) /\ FrameOk(frame) /\ frame \in In(replies[c])
              /\ replies' \in [Conns -> Seq(Frames)] /\ replies'[c] = Tail(replies[c])
              /\ In(replies'[c]) \subseteq In(replies[c])
              /\ \A d \in Conns \ {c} : replies'[d] = replies[d]
              /\ task' \in [Tasks -> TaskStates]
              /\ \A t \in Tasks \ {frame.to} : task'[t] = task[t]
              /\ \/ /\ task[frame.to].pc = "waiting" /\ task[frame.to].serial = frame.serial
                    /\ task'[frame.to].pc = "mailbox" /\ task'[frame.to].frame = frame
                    /\ task'[frame.to].key = task[frame.to].key
                    /\ task'[frame.to].kind = task[frame.to].kind
                    /\ task'[frame.to].serial = task[frame.to].serial
                 \/ /\ ~(task[frame.to].pc = "waiting" /\ task[frame.to].serial = frame.serial)
                    /\ task' = task
<1>1. /\ replies \in [Conns -> Seq(Frames)] /\ replies[c] # <<>> /\ task \in [Tasks -> TaskStates]
      /\ replies' = [replies EXCEPT ![c] = Tail(replies[c])]
  BY DEF IInv, Typed, Dispatch
<1>2. /\ Tail(replies[c]) \in Seq(Frames) /\ Head(replies[c]) \in Frames
      /\ In(replies[c]) = {Head(replies[c])} \cup In(Tail(replies[c]))
  BY <1>1, Shortened
<1>3. /\ replies' \in [Conns -> Seq(Frames)] /\ replies'[c] = Tail(replies[c])
      /\ \A d \in Conns \ {c} : replies'[d] = replies[d]
  BY <1>1, <1>2
<1>4. PICK frame \in Frames : frame = Head(replies[c])
  BY <1>2
<1>5. FrameOk(frame) /\ frame.to \in Tasks
  BY <1>2, <1>4 DEF IInv, KeyInv, FlightOk, Frames
<1>6. CASE Expects(frame.to, frame)
  <2>1. PICK s \in TaskStates : s = [task[frame.to] EXCEPT !.pc = "mailbox", !.frame = frame]
    BY <1>1, <1>5 DEF TaskStates
  <2>2. task' = [task EXCEPT ![frame.to] = s]
    BY <1>1, <1>4, <1>5, <1>6, <2>1 DEF Dispatch
  <2>3. /\ s.pc = "mailbox" /\ s.frame = frame /\ s.key = task[frame.to].key
        /\ s.kind = task[frame.to].kind /\ s.serial = task[frame.to].serial
    BY <1>1, <1>5, <2>1 DEF TaskStates
  <2>4. /\ task' \in [Tasks -> TaskStates] /\ task'[frame.to] = s
        /\ \A t \in Tasks \ {frame.to} : task'[t] = task[t]
    BY <1>1, <1>5, <2>2
  <2>5. QED BY <1>2, <1>3, <1>4, <1>5, <1>6, <2>3, <2>4 DEF Expects
<1>7. CASE ~Expects(frame.to, frame)
  <2>1. task' = task
    BY <1>4, <1>7 DEF Dispatch
  <2>2. QED BY <1>1, <1>2, <1>3, <1>4, <1>5, <1>7, <2>1 DEF Expects
<1>8. QED BY <1>6, <1>7

LEMMA DispatchKeeps ==
    ASSUME IInv, NEW c \in Conns, Dispatch(c)
    PROVE  Typed' /\ Sized' /\ KeyInv'
<1>1. PICK frame \in Frames :
        /\ FrameOk(frame)
        /\ replies' \in [Conns -> Seq(Frames)] /\ In(replies'[c]) \subseteq In(replies[c])
        /\ \A d \in Conns \ {c} : replies'[d] = replies[d]
        /\ task' \in [Tasks -> TaskStates]
        /\ \A t \in Tasks \ {frame.to} : task'[t] = task[t]
        /\ \/ /\ task[frame.to].pc = "waiting" /\ task[frame.to].serial = frame.serial
              /\ task'[frame.to].pc = "mailbox" /\ task'[frame.to].frame = frame
              /\ task'[frame.to].key = task[frame.to].key
              /\ task'[frame.to].kind = task[frame.to].kind
              /\ task'[frame.to].serial = task[frame.to].serial
           \/ task' = task
  BY Dispatched
<1>2. Typed /\ UNCHANGED <<setting, now, server, delivered, running, requests, copies, evicted, result>>
  BY DEF IInv, Dispatch
<1>3. Typed'
  BY <1>1, <1>2 DEF Typed
<1>4. Moves
  BY <1>1, <1>2 DEF Moves
<1>5. \A d \in Conns : FlightOk(d)'
  <2>1. \A d \in Conns : In(replies'[d]) \subseteq In(replies[d])
    BY <1>1
  <2>2. QED BY <1>2, <1>4, <2>1, FlightStays
<1>6. ASSUME NEW t \in Tasks PROVE TaskOk(t)' /\ ResultOk(t)'
  <2>1. CASE task'[t] = task[t]
    BY <1>2, <2>1, TaskStays
  <2>2. CASE task'[t] # task[t]
    <3>1. t = frame.to /\ task[t].pc = "waiting" /\ task[t].serial = frame.serial
      BY <1>1, <2>2
    <3>2. frame.key = task[t].key /\ Fresh(frame) /\ frame.content.of = frame.key
      BY <1>1, <3>1 DEF FrameOk, Current
    <3>3. TaskOk(t) /\ ResultOk(t)
      BY DEF IInv, KeyInv
    <3>4. Fresh(frame)'
      BY <1>2, <3>2 DEF Fresh
    <3>5. /\ task'[t].pc = "mailbox" /\ task'[t].frame = frame /\ task'[t].key = task[t].key
          /\ task'[t].kind = task[t].kind /\ task'[t].serial = task[t].serial
      BY <1>1, <2>2, <3>1
    <3>6. TaskOk(t)'
      BY <1>2, <3>1, <3>2, <3>3, <3>4, <3>5 DEF TaskOk
    <3>7. ResultOk(t)'
      BY <1>2, <3>3 DEF ResultOk
    <3>8. QED BY <3>6, <3>7
  <2>3. QED BY <2>1, <2>2
<1>7. Sized' /\ ServerOk' /\ CopiesOk'
  BY <1>2, CachesStay
<1>8. QED BY <1>3, <1>5, <1>6, <1>7 DEF KeyInv

\* A client's cache after a call of it has ended.
LEMMA CopiesKept ==
    ASSUME IInv, NEW c \in Conns, NEW d \in Caches, copies' = [copies EXCEPT ![c] = d],
           UNCHANGED <<setting, server, now>>,
           Cardinality(Present(d)) <= setting.room,
           \A k \in Keys : d[k] = copies[c][k] \/ d[k] = Nothing
                           \/ /\ d[k].content.of = k
                              /\ setting.slow = "no" => d[k].at - d[k].content.made <= TTL
    PROVE  copies' \in [Conns -> Caches] /\ Sized' /\ ServerOk' /\ CopiesOk'
<1>1. /\ copies \in [Conns -> Caches] /\ copies' \in [Conns -> Caches]
      /\ copies'[c] = d /\ \A e \in Conns \ {c} : copies'[e] = copies[e]
  BY DEF IInv, Typed
<1>2. Present(server)' = Present(server) /\ \A e \in Conns : Present(copies[e])' = Present(copies'[e])
  BY DEF Present
<1>3. Sized'
  BY <1>1, <1>2 DEF IInv, Sized
<1>4. ServerOk'
  BY <1>2 DEF IInv, KeyInv, ServerOk
<1>5. ASSUME NEW e \in Conns, NEW k \in Present(copies'[e])
      PROVE  /\ copies'[e][k].content.of = k
             /\ setting.slow = "no" => copies'[e][k].at - copies'[e][k].content.made <= TTL
  <2>1. k \in Keys /\ copies'[e][k] # Nothing
    BY DEF Present
  <2>2. CASE copies'[e][k] = copies[e][k]
    BY <2>1, <2>2 DEF IInv, KeyInv, CopiesOk, Present
  <2>3. CASE copies'[e][k] # copies[e][k]
    BY <1>1, <2>1, <2>3
  <2>4. QED BY <2>2, <2>3
<1>6. CopiesOk'
  BY <1>2, <1>5 DEF CopiesOk
<1>7. QED BY <1>1, <1>3, <1>4, <1>6

\* What a reference ends with.
LEMMA RefFacts ==
    ASSUME IInv, NEW t \in Tasks, FinishRef(t)
    PROVE  \E c \in Conns, k \in Keys, how \in Outcomes :
              /\ c = setting.conn[t] /\ k = task[t].key /\ k = task[t].frame.key
              /\ task[t].frame \in Frames
              /\ copies' = [copies EXCEPT ![c] = AfterGet(copies[c], k)]
              /\ Ended(t, how) /\ how.asked = k /\ how.meant = task[t].frame.content
              /\ how.got = IF Alive(copies[c], k) THEN copies[c][k].content ELSE Nothing
              /\ how.late = (now - task[t].frame.content.made > TTL) /\ how.lost = (k \in evicted[c])
              /\ evicted' = evicted
<1>1. /\ Typed /\ TaskOk(t) /\ task[t].pc = "mailbox" /\ task[t].frame \in Frames
      /\ task[t].key = task[t].frame.key /\ task[t].key \in Keys
  BY DEF IInv, KeyInv, TaskOk, FinishRef
<1>2. PICK c \in Conns, k \in Keys : c = setting.conn[t] /\ k = task[t].key
  BY <1>1, SettingFacts
<1>3. PICK got : got = IF Alive(copies[c], k) THEN copies[c][k].content ELSE Nothing
  OBVIOUS
<1>4. got \in Contents \cup {Nothing} /\ task[t].frame.content \in Contents
  BY <1>1, <1>3 DEF Typed, Caches, Alive, Frames
<1>a. PICK late \in BOOLEAN, lost \in BOOLEAN :
        late = (now - task[t].frame.content.made > TTL) /\ lost = (k \in evicted[c])
  <2>1. (now - task[t].frame.content.made > TTL) \in BOOLEAN /\ (k \in evicted[c]) \in BOOLEAN
    OBVIOUS
  <2>2. QED BY <2>1, Zenon
<1>5. PICK how \in Outcomes :
        how = [asked |-> k, got |-> got, meant |-> task[t].frame.content,
               late |-> late, lost |-> lost]
  BY <1>4 DEF Outcomes
<1>6. /\ evicted' = evicted
      /\ copies' = [copies EXCEPT ![c] = AfterGet(copies[c], k)]
      /\ Ended(t, how)
  BY <1>1, <1>2, <1>3, <1>5, <1>a DEF FinishRef, Outcome
<1>7. QED BY <1>1, <1>2, <1>3, <1>5, <1>6, <1>a

LEMMA FinishRefKeeps ==
    ASSUME IInv, NEW t \in Tasks, FinishRef(t)
    PROVE  Typed' /\ Sized' /\ KeyInv'
<1>1. PICK c \in Conns, k \in Keys, how \in Outcomes :
        /\ copies' = [copies EXCEPT ![c] = AfterGet(copies[c], k)]
        /\ Ended(t, how) /\ how.asked = k /\ evicted' = evicted
        /\ how.got = IF Alive(copies[c], k) THEN copies[c][k].content ELSE Nothing
  BY RefFacts
<1>2. task[t].pc = "mailbox" /\ Typed /\ copies[c] \in Caches
  BY DEF FinishRef, IInv, Typed
<1>3. PICK d \in Caches : d = AfterGet(copies[c], k)
  BY <1>2, GetFacts
<1>4. /\ \A j \in Keys : d[j] = copies[c][j] \/ d[j] = Nothing
      /\ Cardinality(Present(d)) <= setting.room
  <2>1. Cardinality(Present(d)) <= Cardinality(Present(copies[c]))
    BY <1>2, <1>3, GetFacts
  <2>2. QED BY <1>2, <1>3, <2>1, GetFacts, PresentFinite, SettingFacts DEF IInv, Sized
<1>5. how.got # Nothing => how.got.of = how.asked
  BY <1>1 DEF Alive, IInv, KeyInv, CopiesOk, Present
<1>6. copies' \in [Conns -> Caches] /\ Sized' /\ ServerOk' /\ CopiesOk'
  BY <1>1, <1>3, <1>4, CopiesKept DEF Ended
<1>7. /\ now' = now /\ Moves
      /\ task' \in [Tasks -> TaskStates] /\ result' \in [Tasks -> Outcomes \cup {Nothing}]
      /\ UNCHANGED <<setting, server, delivered, running, requests, replies>>
      /\ \A e \in Conns : FlightOk(e)'
      /\ \A u \in Tasks : TaskOk(u)' /\ ResultOk(u)'
  BY <1>1, <1>2, <1>5, EndedFacts
<1>8. Typed'
  BY <1>1, <1>2, <1>6, <1>7 DEF Typed
<1>9. QED BY <1>6, <1>7, <1>8 DEF KeyInv

\* What a complete reply ends with: how the call of t ends, and d, what its
\* client's cache becomes.
FullOf(t, c, k, content, how, d) ==
    /\ c = setting.conn[t] /\ k = task[t].key /\ k = task[t].frame.key
    /\ task[t].frame \in Frames /\ content = task[t].frame.content
    /\ content.of = k /\ (setting.slow = "no" => now - content.made <= TTL)
    /\ copies' = [copies EXCEPT ![c] = d]
    /\ evicted' = [evicted EXCEPT ![c] = (evicted[c] \cup Present(copies[c])) \ Present(d)]
    /\ Ended(t, how) /\ how.asked = k /\ how.got = content /\ how.meant = content
    /\ Cardinality(Present(d)) <= setting.room
    /\ \/ d = copies[c] /\ task[t].kind # "plain"
       \/ /\ d[k] = [content |-> content, at |-> now]
          /\ \A j \in Keys \ {k} : d[j] = copies[c][j] \/ d[j] = Nothing

LEMMA FullFacts ==
    ASSUME IInv, NEW t \in Tasks, FinishFull(t)
    PROVE  \E c \in Conns, k \in Keys, content \in Contents, how \in Outcomes, d \in Caches :
              FullOf(t, c, k, content, how, d)
<1>1. /\ Typed /\ TaskOk(t) /\ task[t].pc = "mailbox" /\ task[t].frame \in Frames
      /\ task[t].key = task[t].frame.key /\ task[t].key \in Keys
      /\ task[t].frame.content.of = task[t].key /\ Fresh(task[t].frame)
  BY DEF IInv, KeyInv, TaskOk, FinishFull
<1>2. PICK c \in Conns, k \in Keys, content \in Contents :
        c = setting.conn[t] /\ k = task[t].key /\ content = task[t].frame.content
  BY <1>1, SettingFacts DEF Frames
<1>a. PICK late \in BOOLEAN, lost \in BOOLEAN :
        late = (now - content.made > TTL) /\ lost = (k \in evicted[c])
  <2>1. (now - content.made > TTL) \in BOOLEAN /\ (k \in evicted[c]) \in BOOLEAN
    OBVIOUS
  <2>2. QED BY <2>1, Zenon
<1>3. PICK how \in Outcomes :
        how = [asked |-> k, got |-> content, meant |-> content, late |-> late, lost |-> lost]
  BY DEF Outcomes
<1>4. Ended(t, how)
  BY <1>1, <1>2, <1>3, <1>a DEF FinishFull, Outcome
<1>5. copies[c] \in Caches /\ Cardinality(Present(copies[c])) <= setting.room /\ setting.room \in Nat \ {0}
  BY <1>1, SettingFacts DEF IInv, Typed, Sized
<1>6. PICK d \in Remembered(t) :
        /\ copies' = [copies EXCEPT ![c] = d]
        /\ evicted' = [evicted EXCEPT ![c] = (evicted[c] \cup Present(copies[c])) \ Present(d)]
  BY <1>2 DEF FinishFull
<1>7. CASE task[t].kind = "plain"
  <2>1. d \in AfterPut(copies[c], k, content, setting.room)
    BY <1>2, <1>6, <1>7 DEF Remembered
  <2>2. now \in 0 .. MaxTime
    BY <1>1 DEF Typed
  <2>3. /\ d \in Caches /\ Cardinality(Present(d)) <= setting.room
        /\ d[k] = [content |-> content, at |-> now]
        /\ \A j \in Keys \ {k} : d[j] = copies[c][j] \/ d[j] = Nothing
    BY <1>5, <2>1, <2>2, PutFacts
  <2>4. d \in Caches /\ FullOf(t, c, k, content, how, d)
    BY <1>1, <1>2, <1>3, <1>4, <1>6, <2>3 DEF Fresh, FullOf
  <2>5. QED BY <2>4
<1>8. CASE task[t].kind # "plain"
  <2>1. d = copies[c]
    BY <1>2, <1>6, <1>8 DEF Remembered
  <2>2. d \in Caches /\ FullOf(t, c, k, content, how, d)
    BY <1>1, <1>2, <1>3, <1>4, <1>5, <1>6, <1>8, <2>1 DEF Fresh, FullOf
  <2>3. QED BY <2>2
<1>9. QED BY <1>7, <1>8

LEMMA FinishFullKeeps ==
    ASSUME IInv, NEW t \in Tasks, FinishFull(t)
    PROVE  Typed' /\ Sized' /\ KeyInv'
<1>0. PICK c \in Conns, k \in Keys, content \in Contents, how \in Outcomes, d \in Caches :
        FullOf(t, c, k, content, how, d)
  BY FullFacts
<1>1. /\ content.of = k /\ (setting.slow = "no" => now - content.made <= TTL)
      /\ copies' = [copies EXCEPT ![c] = d]
      /\ Ended(t, how) /\ how.asked = k /\ how.got = content
      /\ Cardinality(Present(d)) <= setting.room
      /\ \/ d = copies[c]
         \/ /\ d[k] = [content |-> content, at |-> now]
            /\ \A j \in Keys \ {k} : d[j] = copies[c][j] \/ d[j] = Nothing
  BY <1>0 DEF FullOf
<1>2. task[t].pc = "mailbox" /\ Typed
  BY DEF FinishFull, IInv
<1>3. \A j \in Keys : d[j] = copies[c][j] \/ d[j] = Nothing
                      \/ /\ d[j].content.of = j
                         /\ setting.slow = "no" => d[j].at - d[j].content.made <= TTL
  BY <1>1
<1>4. copies' \in [Conns -> Caches] /\ Sized' /\ ServerOk' /\ CopiesOk'
  BY <1>1, <1>3, CopiesKept DEF Ended
<1>5. /\ now' = now
      /\ task' \in [Tasks -> TaskStates] /\ result' \in [Tasks -> Outcomes \cup {Nothing}]
      /\ UNCHANGED <<setting, server, delivered, running, requests, replies>>
      /\ \A e \in Conns : FlightOk(e)'
      /\ \A u \in Tasks : TaskOk(u)' /\ ResultOk(u)'
  BY <1>1, <1>2, EndedFacts
<1>6. Typed'
  <2>1. evicted' \in [Conns -> SUBSET Keys]
    BY <1>0, <1>2 DEF FullOf, Typed, Present
  <2>2. QED BY <1>2, <1>4, <1>5, <2>1 DEF Typed
<1>7. QED BY <1>4, <1>5, <1>6 DEF KeyInv

LEMMA DropKeeps ==
    ASSUME IInv, NEW t \in Tasks, Drop(t)
    PROVE  Typed' /\ Sized' /\ KeyInv'
<1>1. /\ task[t].pc \in {"waiting", "mailbox"} /\ Ended(t, Nothing) /\ Typed
      /\ copies' = copies /\ evicted' = evicted
  BY DEF Drop, IInv
<1>2. /\ now' = now
      /\ task' \in [Tasks -> TaskStates] /\ result' \in [Tasks -> Outcomes \cup {Nothing}]
      /\ UNCHANGED <<setting, server, delivered, running, requests, replies>>
      /\ \A e \in Conns : FlightOk(e)'
      /\ \A u \in Tasks : TaskOk(u)' /\ ResultOk(u)'
  BY <1>1, EndedFacts
<1>3. Sized' /\ ServerOk' /\ CopiesOk'
  BY <1>1, <1>2, CachesStay
<1>4. Typed'
  BY <1>1, <1>2 DEF Typed
<1>5. QED BY <1>2, <1>3, <1>4 DEF KeyInv

\* Time passes; where it may not pass during a call there is no call.
LEMMA TickKeeps ==
    ASSUME IInv, Tick
    PROVE  Typed' /\ Sized' /\ KeyInv'
<1>1. /\ Typed /\ now < MaxTime /\ now' = now + 1 /\ (setting.slow # "no" \/ Quiet)
      /\ UNCHANGED <<setting, server, delivered, running, requests, replies, copies, evicted, task, result>>
  BY DEF IInv, Tick
<1>2. Typed'
  BY <1>1, SettingFacts DEF Typed
<1>3. Sized' /\ ServerOk' /\ CopiesOk'
  BY <1>1, CachesStay
<1>4. ASSUME NEW c \in Conns PROVE FlightOk(c)'
  <2>1. FlightOk(c) /\ In(replies[c]) \subseteq Frames
    BY <1>1, InFlightTypes DEF IInv, KeyInv
  <2>2. ASSUME NEW frame \in Frames, FrameOk(frame) PROVE FrameOk(frame)'
    <3>1. setting.slow = "no" => task[frame.to].pc = "idle"
      BY <1>1 DEF Quiet, Frames
    <3>2. QED BY <1>1, <2>2, <3>1 DEF FrameOk, Fresh, Current
  <2>3. \A call \in CallsMade : CallOk(call) => CallOk(call)'
    BY <1>1 DEF CallOk, Current
  <2>4. In(requests[c])' = In(requests[c]) /\ In(replies[c])' = In(replies[c])
    BY <1>1 DEF In
  <2>5. QED BY <1>1, <2>1, <2>2, <2>3, <2>4, InFlightTypes DEF FlightOk
<1>5. ASSUME NEW t \in Tasks PROVE TaskOk(t)' /\ ResultOk(t)'
  <2>1. TaskOk(t) /\ ResultOk(t)
    BY DEF IInv, KeyInv
  <2>2. setting.slow = "no" => task[t].pc = "idle"
    BY <1>1 DEF Quiet
  <2>3. QED BY <1>1, <2>1, <2>2 DEF TaskOk, ResultOk, Fresh
<1>6. QED BY <1>2, <1>3, <1>4, <1>5 DEF KeyInv

-----------------------------------------------------------------------------
\* The lone caller, action by action

Lone(o, c) ==
    LoneCaller /\ setting.calls[o] > 0 /\ c = setting.conn[o] /\ LoneOk(o, c)

LEMMA LoneFacts ==
    ASSUME IInv, NEW o \in Tasks, NEW c \in Conns, Lone(o, c)
    PROVE  /\ setting.drops = "no" /\ setting.kinds = {"plain"}
           /\ \A t \in Tasks \ {o} : task[t].pc = "idle" /\ ~(task[t].serial < setting.calls[t])
           /\ task[o].pc \in {"idle", "waiting", "mailbox"}
           /\ task[o].pc # "waiting" => Nowhere(c)
           /\ task[o].pc = "mailbox" => Transit(o, c) = {task[o].frame}
           /\ requests[c] # <<>> => task[o].pc = "waiting" /\ Asking(o, c)
           /\ running[c] # Nothing => task[o].pc = "waiting" /\ Computing(o, c)
           /\ replies[c] # <<>> => /\ task[o].pc = "waiting" /\ Answering(o, c)
                                   /\ Transit(o, c) = {Head(replies[c])}
           /\ replies[c] = <<>> /\ task[o].pc # "mailbox" => Transit(o, c) = {}
           /\ (\A frame \in Transit(o, c) : frame.kind # "full") =>
                 \A k \in Present(server) : k \in delivered[c] /\ (HasIt(c, k) \/ HasLost(c, k))
<1>1. /\ Typed /\ LoneCaller /\ setting.calls[o] > 0 /\ LoneOk(o, c)
      /\ \A t \in Tasks : task[t] \in TaskStates /\ setting.calls[t] \in Nat
  BY SettingFacts DEF IInv, Typed, Lone
<1>2. \A t \in Tasks \ {o} : ~(setting.calls[t] > 0)
  BY <1>1 DEF LoneCaller
<1>3. \A t \in Tasks \ {o} : task[t].pc = "idle" /\ ~(task[t].serial < setting.calls[t])
  BY <1>1, <1>2 DEF LoneOk, TaskStates
<1>4. replies[c] = <<>> => Transit(o, c) = IF task[o].pc = "mailbox" THEN {task[o].frame} ELSE {}
  BY InEmpty DEF Transit
<1>5. /\ task[o].pc # "waiting" => Nowhere(c)
      /\ requests[c] # <<>> => task[o].pc = "waiting" /\ Asking(o, c)
      /\ running[c] # Nothing => task[o].pc = "waiting" /\ Computing(o, c)
      /\ replies[c] # <<>> => task[o].pc = "waiting" /\ Answering(o, c)
  BY <1>1 DEF LoneOk, OneAtATime, Nowhere, Asking, Computing, Answering
<1>6. replies[c] # <<>> => Transit(o, c) = {Head(replies[c])}
  <2>1. ASSUME replies[c] # <<>> PROVE In(replies[c]) = {Head(replies[c])}
    BY <1>1, <1>5, <2>1, Singleton, InFlightTypes DEF Answering
  <2>2. QED BY <1>5, <2>1 DEF Transit
<1>7. (\A frame \in Transit(o, c) : frame.kind # "full") =>
         \A k \in Present(server) : k \in delivered[c] /\ (HasIt(c, k) \/ HasLost(c, k))
  BY <1>1 DEF LoneOk, CopiedAll, Copied
<1>8. task[o].pc \in {"idle", "waiting", "mailbox"}
  BY <1>1 DEF TaskStates
<1>9. task[o].pc = "mailbox" => Transit(o, c) = {task[o].frame}
  BY <1>4, <1>5 DEF Nowhere
<1>10. QED BY <1>1, <1>3, <1>4, <1>5, <1>6, <1>7, <1>8, <1>9 DEF LoneCaller

LEMMA LoneCall ==
    ASSUME IInv, NEW o \in Tasks, NEW c \in Conns, Lone(o, c),
           NEW t \in Tasks, NEW k \in Keys, NEW kind \in setting.kinds, Call(t, k, kind)
    PROVE  LoneOk(o, c)'
<1>1. t = o /\ task[o].pc = "idle" /\ Nowhere(c) /\ Transit(o, c) = {}
  <2>1. t = o /\ task[o].pc = "idle"
    BY LoneFacts DEF Call
  <2>2. Nowhere(c)
    BY <2>1, LoneFacts
  <2>3. QED BY <2>1, <2>2, LoneFacts DEF Nowhere
<1>2. PICK call : call = [by |-> t, key |-> k, serial |-> task[t].serial + 1]
  OBVIOUS
<1>3. /\ Typed /\ LoneOk(o, c) /\ c = setting.conn[o]
      /\ task' = [task EXCEPT ![o] = [pc |-> "waiting", key |-> k, kind |-> kind,
                                      serial |-> call.serial, frame |-> Nothing]]
      /\ requests' = [requests EXCEPT ![c] = Append(requests[c], call)]
      /\ result' = [result EXCEPT ![o] = Nothing]
      /\ UNCHANGED <<setting, now, server, delivered, running, replies, copies, evicted>>
  BY <1>1, <1>2 DEF IInv, Lone, Call
<1>4. /\ task'[o].pc = "waiting" /\ task'[o].serial = call.serial /\ call.by = o
      /\ result'[o] = Nothing
      /\ \A u \in Tasks \ {o} : task'[u] = task[u] /\ result'[u] = result[u]
      /\ requests'[c] = <<call>> /\ \A d \in Conns \ {c} : requests'[d] = requests[d]
  <2>1. Append(requests[c], call) = <<call>>
    BY <1>1 DEF Nowhere
  <2>2. QED BY <1>1, <1>2, <1>3, <2>1 DEF Typed
<1>5. Asking(o, c)'
  <2>1. requests'[c] = <<call>> /\ Head(requests'[c]) = call /\ requests'[c] # <<>>
    BY <1>4
  <2>2. Own(o, call)' /\ running'[c] = Nothing /\ replies'[c] = <<>>
    BY <1>1, <1>3, <1>4 DEF Own, Nowhere
  <2>3. QED BY <2>1, <2>2 DEF Asking, Own
<1>6. Transit(o, c)' = {}
  BY <1>1, <1>3, <1>4, InEmpty DEF Transit, Nowhere
<1>7. CopiedAll(o, c)'
  BY <1>1, <1>3, LoneFacts DEF CopiedAll, Copied, HasIt, HasLost, Present
<1>8. FramesTrue(o, c)'
  BY <1>6 DEF FramesTrue
<1>9. \A d \in Conns \ {c} : Nowhere(d)'
  BY <1>3, <1>4 DEF LoneOk, Nowhere
<1>10. \A u \in Ends' : Restored(result'[u])
  BY <1>3, <1>4 DEF LoneOk, Ends
<1>11. QED BY <1>3, <1>4, <1>5, <1>7, <1>8, <1>9, <1>10 DEF LoneOk, OneAtATime

LEMMA LoneLookup ==
    ASSUME IInv, NEW o \in Tasks, NEW c \in Conns, Lone(o, c), NEW d \in Conns, Lookup(d)
    PROVE  LoneOk(o, c)'
<1>1. d = c
  BY DEF Lone, LoneOk, Nowhere, Lookup
<1>2. PICK call \in CallsMade :
        /\ call = Head(requests[c]) /\ CallOk(call) /\ call \in In(requests[c])
        /\ HitOf(c, call) \/ MissOf(c, call)
        /\ requests' \in [Conns -> Seq(CallsMade)] /\ requests'[c] = Tail(requests[c])
        /\ \A e \in Conns \ {c} : requests'[e] = requests[e]
  BY <1>1, TakenUp
<1>3. /\ Typed /\ LoneOk(o, c) /\ requests[c] # <<>> /\ call.key \in Keys
      /\ UNCHANGED <<setting, now, copies, evicted, task, result>>
  BY <1>1 DEF IInv, Lone, Lookup, CallsMade
<1>4. /\ task[o].pc = "waiting" /\ Asking(o, c) /\ Transit(o, c) = {}
  BY <1>3, LoneFacts DEF Asking
<1>5. requests'[c] = <<>> /\ Own(o, call) /\ replies[c] = <<>> /\ running[c] = Nothing
  BY <1>2, <1>3, <1>4, Singleton, InFlightTypes DEF Asking
<1>6. \A k \in Present(server) : k \in delivered[c] /\ (HasIt(c, k) \/ HasLost(c, k))
  BY <1>4, LoneFacts
<1>7. \A t \in Ends' : Restored(result'[t])
  BY <1>3 DEF LoneOk, Ends
<1>8. CASE HitOf(c, call)
  <2>1. /\ Alive(server, call.key) /\ Reply(c, ReplyKind(c, call.key), call, server[call.key].content)
        /\ delivered' = [delivered EXCEPT ![c] = delivered[c] \cup {call.key}]
        /\ UNCHANGED <<server, running>>
    BY <1>8 DEF HitOf
  <2>2. /\ server[call.key].content \in Contents /\ server[call.key].content.of = call.key
        /\ now - server[call.key].content.made <= TTL
    BY <1>3, <2>1, EntryFacts DEF Alive
  <2>3. PICK content \in Contents :
          /\ content = server[call.key].content /\ content.of = call.key
          /\ now - content.made <= TTL /\ Reply(c, "ref", call, content) /\ CallOk(call)
    <3>1. ReplyKind(c, call.key) = "ref"
      BY <1>3, <1>6, <2>1 DEF ReplyKind, Alive, Present
    <3>2. QED BY <1>2, <2>1, <2>2, <3>1
  <2>4. PICK frame \in Frames : Replied(c, "ref", call, content, frame)
    BY <2>3, ReplyFacts
  <2>5. replies'[c] = <<frame>>
    BY <1>5, <2>4 DEF Replied
  <2>6. Answering(o, c)'
    BY <1>3, <1>5, <2>1, <2>4, <2>5 DEF Answering, Own, Replied
  <2>7. Transit(o, c)' = {frame}
    <3>1. In(replies[c])' = {frame}
      BY <1>5, <2>4, InEmpty DEF In, Replied
    <3>2. QED BY <1>3, <1>4, <3>1 DEF Transit
  <2>8. FramesTrue(o, c)'
    BY <1>3, <2>1, <2>3, <2>4, <2>7 DEF FramesTrue, Alive, Replied
  <2>9. CopiedAll(o, c)'
    <3>1. delivered[c] \subseteq delivered'[c]
      BY <1>3, <2>1 DEF Typed
    <3>2. QED BY <1>3, <1>6, <2>1, <3>1 DEF CopiedAll, Copied, HasIt, HasLost, Present
  <2>10. \A e \in Conns \ {c} : Nowhere(e)'
    BY <1>2, <1>3, <2>1, <2>4 DEF LoneOk, Nowhere, Replied
  <2>11. QED BY <1>3, <1>4, <1>7, <2>6, <2>8, <2>9, <2>10 DEF LoneOk, OneAtATime
<1>9. CASE MissOf(c, call)
  <2>1. /\ server' = AfterGet(server, call.key) /\ running' = [running EXCEPT ![c] = call]
        /\ UNCHANGED <<delivered, replies>>
    BY <1>9 DEF MissOf
  <2>2. \A k \in Keys : server'[k] = server[k] \/ server'[k] = Nothing
    BY <1>3, <2>1, GetFacts DEF Typed
  <2>3. running'[c] = call /\ \A e \in Conns \ {c} : running'[e] = running[e]
    BY <1>3, <2>1 DEF Typed
  <2>4. OneAtATime(o, c)'
    <3>1. CASE call = Nothing
      BY <1>5, <2>1, <2>3, <3>1 DEF OneAtATime, Nowhere
    <3>2. CASE call # Nothing
      BY <1>3, <1>4, <1>5, <2>1, <2>3, <3>2 DEF OneAtATime, Computing, Own
    <3>3. QED BY <3>1, <3>2
  <2>5. FramesTrue(o, c)'
    <3>1. Transit(o, c)' = {}
      BY <1>3, <1>4, <1>5, <2>1, InEmpty DEF Transit
    <3>2. QED BY <3>1 DEF FramesTrue
  <2>6. CopiedAll(o, c)'
    BY <1>3, <1>6, <2>1, <2>2 DEF CopiedAll, Copied, HasIt, HasLost, Present
  <2>7. \A e \in Conns \ {c} : Nowhere(e)'
    BY <1>2, <1>3, <2>1, <2>3 DEF LoneOk, Nowhere
  <2>8. QED BY <1>3, <1>7, <2>4, <2>5, <2>6, <2>7 DEF LoneOk
<1>10. QED BY <1>2, <1>8, <1>9

LEMMA LoneExecute ==
    ASSUME IInv, NEW o \in Tasks, NEW c \in Conns, Lone(o, c), NEW d \in Conns, Execute(d)
    PROVE  LoneOk(o, c)'
<1>1. d = c
  BY DEF Lone, LoneOk, Nowhere, Execute
<1>2. /\ Typed /\ running[c] # Nothing /\ LoneOk(o, c)
      /\ server' \in AfterPut(server, running[c].key, Content(running[c].key, now), setting.store)
      /\ Reply(c, "full", running[c], Content(running[c].key, now))
      /\ delivered' = [delivered EXCEPT ![c] = delivered[c] \cup {running[c].key}]
      /\ running' = [running EXCEPT ![c] = Nothing]
      /\ UNCHANGED <<setting, now, requests, copies, evicted, task, result>>
  BY <1>1 DEF IInv, Lone, Execute
<1>3. PICK call \in CallsMade : call = running[c] /\ CallOk(call)
  BY <1>2 DEF IInv, KeyInv, FlightOk
<1>4. PICK content \in Contents : content = Content(call.key, now) /\ content.of = call.key /\ content.made = now
  <2>1. Content(call.key, now) \in Contents
    BY <1>2 DEF Content, Contents, CallsMade, Typed
  <2>2. Content(call.key, now).of = call.key /\ Content(call.key, now).made = now
    BY DEF Content
  <2>3. QED BY <2>1, <2>2
<1>5. call.key \in Keys /\ now - content.made <= TTL
  BY <1>2, <1>4, SettingFacts DEF CallsMade
<1>6. PICK frame \in Frames : Replied(c, "full", call, content, frame)
  BY <1>2, <1>3, <1>4, <1>5, ReplyFacts
<1>7. /\ server'[call.key] = [content |-> content, at |-> now]
      /\ \A j \in Keys \ {call.key} : server'[j] = server[j] \/ server'[j] = Nothing
  BY <1>2, <1>3, <1>4, <1>5, SettingFacts, PutFacts DEF IInv, Sized, Typed
<1>8. /\ task[o].pc = "waiting" /\ requests[c] = <<>> /\ replies[c] = <<>> /\ Own(o, call)
  BY <1>2, <1>3, LoneFacts DEF Computing
<1>9. \A k \in Present(server) : k \in delivered[c] /\ (HasIt(c, k) \/ HasLost(c, k))
  BY <1>8, LoneFacts
<1>10. /\ running'[c] = Nothing /\ \A e \in Conns \ {c} : running'[e] = running[e]
       /\ delivered'[c] = delivered[c] \cup {call.key}
  BY <1>2, <1>3 DEF Typed
<1>11. replies'[c] = <<frame>>
  BY <1>6, <1>8 DEF Replied
<1>12. Answering(o, c)'
  BY <1>2, <1>6, <1>8, <1>10, <1>11 DEF Answering, Own, Replied
<1>13. Transit(o, c)' = {frame}
  <2>1. In(replies[c])' = {frame}
    BY <1>6, <1>8, InEmpty DEF In, Replied
  <2>2. QED BY <1>2, <1>8, <2>1 DEF Transit
<1>14. FramesTrue(o, c)'
  <2>1. server'[call.key] # Nothing /\ server'[call.key].content = content
    BY <1>2, <1>7, EntryIsSomething DEF Entries, Typed
  <2>2. QED BY <1>6, <1>13, <2>1 DEF FramesTrue, Replied
<1>15. CopiedAll(o, c)'
  <2>1. ASSUME NEW k \in Keys, server'[k] # Nothing
        PROVE  k \in delivered'[c] /\ Copied(o, c, k)'
    <3>1. CASE k = call.key
      BY <1>6, <1>10, <1>13, <3>1 DEF Copied, Replied
    <3>2. CASE k # call.key
      BY <1>2, <1>7, <1>9, <1>10, <2>1, <3>2 DEF Copied, HasIt, HasLost, Present
    <3>3. QED BY <3>1, <3>2
  <2>2. QED BY <2>1 DEF CopiedAll, Present
<1>16. \A e \in Conns \ {c} : Nowhere(e)'
  BY <1>2, <1>6, <1>10 DEF LoneOk, Nowhere, Replied
<1>17. \A t \in Ends' : Restored(result'[t])
  BY <1>2 DEF LoneOk, Ends
<1>18. QED BY <1>2, <1>8, <1>12, <1>14, <1>15, <1>16, <1>17 DEF LoneOk, OneAtATime

LEMMA LoneDispatch ==
    ASSUME IInv, NEW o \in Tasks, NEW c \in Conns, Lone(o, c), NEW d \in Conns, Dispatch(d)
    PROVE  LoneOk(o, c)'
<1>1. d = c
  BY DEF Lone, LoneOk, Nowhere, Dispatch
<1>2. /\ Typed /\ LoneOk(o, c) /\ replies[c] # <<>>
      /\ UNCHANGED <<setting, now, server, delivered, running, requests, copies, evicted, result>>
  BY <1>1 DEF IInv, Lone, Dispatch
<1>3. /\ task[o].pc = "waiting" /\ Answering(o, c) /\ Transit(o, c) = {Head(replies[c])}
      /\ Tail(replies[c]) = <<>>
  <2>1. task[o].pc = "waiting" /\ Answering(o, c) /\ Transit(o, c) = {Head(replies[c])}
    BY <1>2, LoneFacts
  <2>2. replies[c] \in Seq(Frames) /\ replies[c] = <<Head(replies[c])>>
    BY <1>2, <2>1, InFlightTypes DEF Answering
  <2>3. Tail(replies[c]) = <<>>
    BY <1>2, <2>2, Singleton
  <2>4. QED BY <2>1, <2>3
<1>4. PICK frame \in Frames :
        /\ frame = Head(replies[c])
        /\ replies'[c] = Tail(replies[c]) /\ \A e \in Conns \ {c} : replies'[e] = replies[e]
        /\ \A t \in Tasks \ {frame.to} : task'[t] = task[t]
        /\ \/ /\ task[frame.to].pc = "waiting" /\ task[frame.to].serial = frame.serial
              /\ task'[frame.to].pc = "mailbox" /\ task'[frame.to].frame = frame
              /\ task'[frame.to].serial = task[frame.to].serial
           \/ ~(task[frame.to].pc = "waiting" /\ task[frame.to].serial = frame.serial)
  BY <1>1, Dispatched
<1>5. /\ frame.to = o /\ task'[o].pc = "mailbox" /\ task'[o].frame = frame
      /\ \A t \in Tasks \ {o} : task'[t] = task[t]
  BY <1>3, <1>4 DEF Answering
<1>6. Nowhere(c)'
  BY <1>2, <1>3, <1>4 DEF Nowhere, Answering
<1>7. Transit(o, c)' = {frame} /\ Transit(o, c) = {frame}
  BY <1>3, <1>4, <1>5, <1>6, InEmpty DEF Transit, Nowhere
<1>8. FramesTrue(o, c)'
  BY <1>2, <1>7 DEF LoneOk, FramesTrue
<1>9. CopiedAll(o, c)'
  BY <1>2, <1>7 DEF LoneOk, CopiedAll, Copied, HasIt, HasLost, Present
<1>10. \A e \in Conns \ {c} : Nowhere(e)'
  BY <1>2, <1>4 DEF LoneOk, Nowhere
<1>11. \A t \in Ends' : Restored(result'[t])
  BY <1>2 DEF LoneOk, Ends
<1>12. QED BY <1>2, <1>5, <1>6, <1>8, <1>9, <1>10, <1>11 DEF LoneOk, OneAtATime

\* The lone caller's call has ended, as it should.
LEMMA LoneEnd ==
    ASSUME IInv, NEW o \in Tasks, NEW c \in Conns, Lone(o, c), task[o].pc = "mailbox",
           NEW how \in Outcomes, Ended(o, how), Restored(how),
           \A k \in Present(server) : k \in delivered[c] /\ (HasIt(c, k)' \/ HasLost(c, k)')
    PROVE  LoneOk(o, c)'
<1>1. /\ LoneOk(o, c) /\ Nowhere(c)
      /\ UNCHANGED <<setting, now, server, delivered, running, requests, replies>>
      /\ \A t \in Tasks \ {o} : task'[t] = task[t] /\ result'[t] = result[t]
      /\ task'[o].pc = "idle" /\ result'[o] = how
  BY LoneFacts, EndedFacts DEF Lone
<1>2. Transit(o, c)' = {}
  BY <1>1, InEmpty DEF Transit, Nowhere
<1>3. FramesTrue(o, c)'
  BY <1>2 DEF FramesTrue
<1>4. CopiedAll(o, c)'
  BY <1>1 DEF CopiedAll, Copied, HasIt, HasLost, Present
<1>5. \A d \in Conns : Nowhere(d)'
  BY <1>1 DEF LoneOk, Nowhere
<1>6. \A t \in Ends' : Restored(result'[t])
  BY <1>1 DEF LoneOk, Ends
<1>7. QED BY <1>1, <1>3, <1>4, <1>5, <1>6 DEF LoneOk, OneAtATime

LEMMA LoneFinishRef ==
    ASSUME IInv, NEW o \in Tasks, NEW c \in Conns, Lone(o, c), NEW t \in Tasks, FinishRef(t)
    PROVE  LoneOk(o, c)'
<1>1. t = o /\ task[o].pc = "mailbox" /\ task[o].frame.kind = "ref" /\ c = setting.conn[o]
  BY LoneFacts DEF FinishRef, Lone
<1>2. PICK k \in Keys, how \in Outcomes :
        /\ k = task[o].frame.key
        /\ copies' = [copies EXCEPT ![c] = AfterGet(copies[c], k)]
        /\ Ended(o, how) /\ how.meant = task[o].frame.content
        /\ how.got = IF Alive(copies[c], k) THEN copies[c][k].content ELSE Nothing
        /\ how.late = (now - task[o].frame.content.made > TTL) /\ how.lost = (k \in evicted[c])
        /\ evicted' = evicted
  BY <1>1, RefFacts
<1>3. Transit(o, c) = {task[o].frame} /\ copies \in [Conns -> Caches] /\ UNCHANGED <<now, server>>
  BY <1>1, <1>2, LoneFacts DEF IInv, Typed, Ended
<1>4. \A j \in Present(server) : j \in delivered[c] /\ (HasIt(c, j) \/ HasLost(c, j))
  BY <1>1, <1>3, LoneFacts
<1>5. /\ server[k] # Nothing /\ server[k].content = task[o].frame.content
      /\ server[k].content.made = server[k].at /\ server[k].at \in Nat /\ now \in Nat
      /\ TTL \in Nat
  <2>1. server[k] # Nothing /\ server[k].content = task[o].frame.content
    BY <1>1, <1>2, <1>3 DEF Lone, LoneOk, FramesTrue
  <2>2. QED BY <2>1, EntryFacts, SettingFacts DEF IInv
\* A copy that has expired since was made after the server's entry.
<1>6. ASSUME NEW j \in Keys, server[j] # Nothing, HasIt(c, j), ~Alive(copies[c], j)
      PROVE  now - server[j].at > TTL
  <2>1. copies[c][j].at \in Nat /\ copies[c][j].at >= server[j].at /\ server[j].at \in Nat
    <3>1. copies[c][j] \in Entries /\ copies[c][j].at >= server[j].at
      BY <1>3, <1>6 DEF Caches, Entries, HasIt
    <3>2. QED BY <1>6, <3>1, EntryFacts, SettingFacts DEF Entries, IInv
  <2>2. now - copies[c][j].at > TTL
    BY <1>5, <1>6, <2>1 DEF Alive, HasIt
  <2>3. QED BY <1>5, <2>1, <2>2
<1>7. PICK d \in Caches : /\ d = AfterGet(copies[c], k) /\ copies'[c] = d
                          /\ \A j \in Keys \ {k} : d[j] = copies[c][j]
                          /\ d[k] = copies[c][k] \/ (d[k] = Nothing /\ ~Alive(copies[c], k))
  <2>1. copies[c] \in Caches /\ copies'[c] = AfterGet(copies[c], k)
    BY <1>2, <1>3
  <2>2. QED BY <2>1, GetFacts
<1>8. Restored(how)
  <2>1. k \in Present(server) /\ (HasIt(c, k) \/ HasLost(c, k))
    BY <1>4, <1>5 DEF Present
  <2>2. CASE Alive(copies[c], k)
    BY <1>2, <1>5, <2>1, <2>2 DEF Restored, HasIt, HasLost, Alive
  <2>3. CASE ~Alive(copies[c], k)
    <3>1. how.got = Nothing
      BY <1>2, <2>3
    <3>2. k \in evicted[c] \/ now - server[k].at > TTL
      BY <1>5, <1>6, <2>1, <2>3 DEF HasLost
    <3>3. QED BY <1>2, <1>5, <3>1, <3>2 DEF Restored
  <2>4. QED BY <2>2, <2>3
<1>9. ASSUME NEW j \in Present(server) PROVE HasIt(c, j)' \/ HasLost(c, j)'
  <2>1. j \in Keys /\ server[j] # Nothing /\ (HasIt(c, j) \/ HasLost(c, j))
    BY <1>4 DEF Present
  <2>2. CASE copies'[c][j] = copies[c][j]
    BY <1>2, <1>3, <2>1, <2>2 DEF HasIt, HasLost
  <2>3. CASE copies'[c][j] # copies[c][j]
    <3>1. j = k /\ copies'[c][j] = Nothing /\ ~Alive(copies[c], j)
      BY <1>7, <2>1, <2>3
    <3>2. now - server[j].at > TTL \/ HasLost(c, j)
      BY <1>6, <2>1, <3>1
    <3>3. QED BY <1>2, <1>3, <3>1, <3>2 DEF HasLost
  <2>4. QED BY <2>2, <2>3
<1>10. QED BY <1>1, <1>2, <1>4, <1>8, <1>9, LoneEnd

LEMMA LoneFinishFull ==
    ASSUME IInv, NEW o \in Tasks, NEW c \in Conns, Lone(o, c), NEW t \in Tasks, FinishFull(t)
    PROVE  LoneOk(o, c)'
<1>1. /\ t = o /\ task[o].pc = "mailbox" /\ task[o].frame.kind = "full" /\ c = setting.conn[o]
      /\ task[o].kind = "plain"
  <2>1. t = o /\ task[o].pc = "mailbox" /\ task[o].frame.kind = "full" /\ c = setting.conn[o]
    BY LoneFacts DEF FinishFull, Lone
  <2>2. QED BY <2>1, LoneFacts DEF IInv, KeyInv, TaskOk
<1>2. PICK e \in Conns, k \in Keys, content \in Contents, how \in Outcomes, d \in Caches :
        FullOf(t, e, k, content, how, d)
  BY FullFacts
<1>3. /\ k = task[o].frame.key /\ content = task[o].frame.content
      /\ copies' = [copies EXCEPT ![c] = d]
      /\ evicted' = [evicted EXCEPT ![c] = (evicted[c] \cup Present(copies[c])) \ Present(d)]
      /\ Ended(o, how) /\ how.got = how.meant
      /\ d[k] = [content |-> content, at |-> now]
      /\ \A j \in Keys \ {k} : d[j] = copies[c][j] \/ d[j] = Nothing
  BY <1>1, <1>2, LoneFacts DEF FullOf
<1>4. /\ Transit(o, c) = {task[o].frame} /\ copies'[c] = d /\ now' = now /\ server' = server
      /\ evicted'[c] = (evicted[c] \cup Present(copies[c])) \ Present(d)
  BY <1>1, <1>3, LoneFacts DEF IInv, Typed, Ended
<1>5. ASSUME NEW j \in Present(server)
      PROVE  j \in delivered[c] /\ (HasIt(c, j)' \/ HasLost(c, j)')
  <2>1. j \in delivered[c] /\ Copied(o, c, j) /\ j \in Keys /\ server[j] # Nothing
    BY DEF Lone, LoneOk, CopiedAll, Present
  <2>2. CASE j = k
    <3>1. server[k].content = content /\ server[k].at <= now
      BY <1>1, <1>3, <1>4, <2>1, <2>2, EntryFacts DEF Lone, LoneOk, FramesTrue
    <3>2. d[k] # Nothing /\ d[k].content = content /\ d[k].at = now
      <4>1. d[k] = [content |-> content, at |-> now] /\ [content |-> content, at |-> now] \in Entries
        BY <1>3 DEF Entries, IInv, Typed
      <4>2. QED BY <4>1, EntryIsSomething
    <3>3. server[k].at \in Nat /\ now \in Nat
      BY <2>1, <2>2, EntryFacts, SettingFacts DEF IInv
    <3>4. QED BY <1>4, <2>1, <2>2, <3>1, <3>2, <3>3 DEF HasIt
  <2>3. CASE j # k
    <3>1. HasIt(c, j) \/ HasLost(c, j)
      BY <1>3, <1>4, <2>1, <2>3 DEF Copied
    <3>2. CASE d[j] = copies[c][j]
      <4>1. HasIt(c, j) => HasIt(c, j)'
        BY <1>4, <3>2 DEF HasIt
      <4>2. ASSUME HasLost(c, j) PROVE HasLost(c, j)'
        <5>1. j \notin Present(d) /\ copies'[c][j] = Nothing
          BY <1>4, <3>2, <4>2 DEF HasLost, Present
        <5>2. j \in evicted[c] => j \in evicted'[c]
          BY <1>4, <5>1
        <5>3. QED BY <1>4, <4>2, <5>1, <5>2 DEF HasLost
      <4>3. QED BY <2>1, <3>1, <4>1, <4>2
    <3>3. CASE d[j] # copies[c][j]
      <4>1. d[j] = Nothing /\ j \in Present(copies[c]) /\ j \notin Present(d)
        BY <1>3, <2>1, <2>3, <3>3 DEF Present
      <4>2. copies'[c][j] = Nothing /\ j \in evicted'[c]
        BY <1>4, <4>1
      <4>3. QED BY <2>1, <4>2 DEF HasLost
    <3>4. QED BY <3>2, <3>3
  <2>4. QED BY <2>2, <2>3
<1>6. Restored(how)
  BY <1>3 DEF Restored
<1>7. QED BY <1>1, <1>3, <1>5, <1>6, LoneEnd

\* Time passes, also while the call is under way.
LEMMA LoneTick ==
    ASSUME IInv, NEW o \in Tasks, NEW c \in Conns, Lone(o, c), Tick
    PROVE  LoneOk(o, c)'
<1>1. /\ LoneOk(o, c) /\ now' = now + 1 /\ now \in Nat /\ TTL \in Nat
      /\ UNCHANGED <<setting, server, delivered, running, requests, replies, copies, evicted, task, result>>
  BY SettingFacts DEF Lone, Tick, IInv
<1>2. Transit(o, c)' = Transit(o, c) /\ \A d \in Conns : Nowhere(d)' <=> Nowhere(d)
  BY <1>1 DEF Transit, In, Nowhere
<1>3. OneAtATime(o, c)'
  BY <1>1, <1>2 DEF LoneOk, OneAtATime, Nowhere, Asking, Computing, Answering, Own
<1>4. FramesTrue(o, c)'
  BY <1>1, <1>2 DEF LoneOk, FramesTrue
<1>5. ASSUME NEW k \in Present(server) PROVE k \in delivered'[c] /\ Copied(o, c, k)'
  <2>1. k \in delivered[c] /\ Copied(o, c, k) /\ server[k].at \in Nat
    BY <1>1, EntryFacts DEF LoneOk, CopiedAll, Present
  <2>2. HasIt(c, k) => HasIt(c, k)'
    BY <1>1 DEF HasIt
  <2>3. HasLost(c, k) => HasLost(c, k)'
    BY <1>1, <2>1 DEF HasLost
  <2>4. QED BY <1>1, <1>2, <2>1, <2>2, <2>3 DEF Copied
<1>6. CopiedAll(o, c)'
  BY <1>1, <1>5 DEF CopiedAll, Present
<1>7. \A t \in Ends' : Restored(result'[t])
  BY <1>1 DEF LoneOk, Ends
<1>8. QED BY <1>1, <1>2, <1>3, <1>4, <1>6, <1>7 DEF LoneOk

-----------------------------------------------------------------------------
\* The invariant, and what it gives

LEMMA InitIInv == Init => IInv
<1> SUFFICES ASSUME Init PROVE IInv
  OBVIOUS
<1> USE DEF Init
<1>1. TTL \in Nat \ {0} /\ setting.store \in Nat \ {0} /\ MaxTime \in Nat /\ IsSetting(setting)
  BY RefAssumption DEF IsSetting
<1>2. Typed
  <2>1. NoCall \in TaskStates
    BY DEF NoCall, TaskStates
  <2>2. [k \in Keys |-> Nothing] \in Caches
    BY DEF Caches
  <2>3. <<>> \in Seq(CallsMade) /\ <<>> \in Seq(Frames) /\ now \in 0 .. MaxTime
    BY <1>1, EmptySeq
  <2>4. QED BY <2>1, <2>2, <2>3 DEF Typed
<1>3. Present(server) = {} /\ \A c \in Conns : Present(copies[c]) = {}
  BY DEF Present
<1>4. Sized
  <2>1. Cardinality({}) = 0 /\ setting.room \in Nat
    BY <1>1, FS_EmptySet DEF IsSetting
  <2>2. 0 <= setting.store /\ 0 <= setting.room
    BY <1>1, <2>1
  <2>3. /\ Cardinality(Present(server)) <= setting.store
        /\ \A c \in Conns : Cardinality(Present(copies[c])) <= setting.room
    <3>1. Present(server) = {} /\ \A c \in Conns : Present(copies[c]) = {}
      BY <1>3
    <3> HIDE DEF Init
    <3>2. QED BY <2>1, <2>2, <3>1
  <2>4. QED BY <2>3 DEF Sized
<1>5. \A c \in Conns : Nowhere(c) /\ In(requests[c]) = {} /\ In(replies[c]) = {}
  BY InEmpty DEF Nowhere
<1>6. \A t \in Tasks : task[t].pc = "idle" /\ task[t].serial = 0 /\ result[t] = Nothing
  BY DEF NoCall
<1>7. KeyInv
  <2>1. \A c \in Conns : FlightOk(c)
    BY <1>5 DEF FlightOk, Nowhere
  <2>2. \A t \in Tasks : TaskOk(t) /\ ResultOk(t)
    BY <1>1, <1>6 DEF TaskOk, ResultOk, IsSetting
  <2>3. QED BY <1>3, <2>1, <2>2 DEF KeyInv, ServerOk, CopiesOk
<1>8. LoneInv
  <2>1. ASSUME NEW o \in Tasks, NEW c \in Conns PROVE LoneOk(o, c)
    <3>1. Transit(o, c) = {}
      BY <1>5, <1>6 DEF Transit
    <3>2. QED BY <1>3, <1>5, <1>6, <3>1 DEF LoneOk, OneAtATime, FramesTrue, CopiedAll, Ends
  <2>2. \A o \in Tasks : setting.conn[o] \in Conns
    BY <1>1 DEF IsSetting
  <2>3. QED BY <2>1, <2>2 DEF LoneInv
<1>9. QED BY <1>2, <1>4, <1>7, <1>8 DEF IInv

LEMMA NextKeys ==
    ASSUME IInv, [Next]_vars
    PROVE  Typed' /\ Sized' /\ KeyInv'
<1>1. CASE \E t \in Tasks, k \in Keys, kind \in setting.kinds : Call(t, k, kind)
  BY <1>1, CallKeeps
<1>2. CASE \E c \in Conns : Lookup(c) \/ Execute(c) \/ Dispatch(c)
  BY <1>2, LookupKeeps, ExecuteKeeps, DispatchKeeps
<1>3. CASE \E t \in Tasks : FinishRef(t) \/ FinishFull(t) \/ Drop(t)
  BY <1>3, FinishRefKeeps, FinishFullKeeps, DropKeeps
<1>4. CASE Tick
  BY <1>4, TickKeeps
<1>5. CASE UNCHANGED vars
  <2>1. UNCHANGED <<setting, now, server, delivered, running, requests, replies, copies, evicted, task, result>>
    BY <1>5 DEF vars
  <2>2. Typed'
    BY <2>1 DEF IInv, Typed
  <2>3. Moves
    BY <2>1 DEF Moves
  <2>4. QED BY <2>1, <2>2, <2>3, CachesStay, FlightStays, TaskStays DEF KeyInv
<1>6. QED BY <1>1, <1>2, <1>3, <1>4, <1>5 DEF Next

LEMMA NextLone ==
    ASSUME IInv, [Next]_vars
    PROVE  LoneInv'
<1>1. setting' = setting
  BY DEF Next, vars, Call, Lookup, Execute, Dispatch, FinishRef, FinishFull, Drop, Ended, Tick
<1>2. ASSUME NEW o \in Tasks, NEW c \in Conns, Lone(o, c)
      PROVE  LoneOk(o, c)'
  <2>1. CASE \E t \in Tasks, k \in Keys, kind \in setting.kinds : Call(t, k, kind)
    BY <1>2, <2>1, LoneCall
  <2>2. CASE \E d \in Conns : Lookup(d) \/ Execute(d) \/ Dispatch(d)
    BY <1>2, <2>2, LoneLookup, LoneExecute, LoneDispatch
  <2>3. CASE \E t \in Tasks : FinishRef(t) \/ FinishFull(t) \/ Drop(t)
    <3>1. setting.drops = "no"
      BY <1>2, LoneFacts
    <3>2. QED BY <1>2, <2>3, <3>1, LoneFinishRef, LoneFinishFull DEF Drop
  <2>4. CASE Tick
    BY <1>2, <2>4, LoneTick
  <2>5. CASE UNCHANGED vars
    <3>1. UNCHANGED <<setting, now, server, delivered, running, requests, replies, copies, evicted, task, result>>
      BY <2>5 DEF vars
    <3>2. LoneOk(o, c)
      BY <1>2 DEF Lone
    <3>3. Transit(o, c)' = Transit(o, c) /\ \A d \in Conns : Nowhere(d)' <=> Nowhere(d)
      BY <3>1 DEF Transit, In, Nowhere
    <3>4. OneAtATime(o, c)'
      BY <3>1, <3>2 DEF LoneOk, OneAtATime, Nowhere, Asking, Computing, Answering, Own
    <3>5. FramesTrue(o, c)'
      BY <3>1, <3>2, <3>3 DEF LoneOk, FramesTrue
    <3>6. CopiedAll(o, c)'
      BY <3>1, <3>2, <3>3 DEF LoneOk, CopiedAll, Copied, HasIt, HasLost, Present
    <3>7. QED BY <3>1, <3>2, <3>3, <3>4, <3>5, <3>6 DEF LoneOk, Ends
  <2>6. QED BY <2>1, <2>2, <2>3, <2>4, <2>5 DEF Next
<1>3. \A o \in Tasks : setting.conn[o] \in Conns
  BY SettingFacts DEF IInv
<1>4. LoneCaller' = LoneCaller
  BY <1>1 DEF LoneCaller
<1>5. QED BY <1>1, <1>2, <1>3, <1>4 DEF IInv, LoneInv, Lone

LEMMA NextIInv ==
    ASSUME IInv, [Next]_vars
    PROVE  IInv'
  BY NextKeys, NextLone DEF IInv

\* Whatever the clients and the sessions do, the system is as IInv says.
THEOREM RefInductive == Spec => []IInv
  BY InitIInv, NextIInv, PTL DEF Spec

\* A call never ends with another call's result: request ids pick the owner of a
\* reply (recv_response), keys the content (unwrap, PayloadPipeline).
THEOREM AnswersWhatWasAskedAlways == Spec => []AnswersWhatWasAsked
<1>1. ASSUME IInv PROVE AnswersWhatWasAsked
  <2>1. Typed /\ Sized /\ \A t \in Tasks : ResultOk(t)
    BY <1>1 DEF IInv, KeyInv
  <2>2. \A c \in Conns : \A i \in DOMAIN replies[c] : replies[c][i] \in Frames
    BY <2>1, ElementOfSeq, LenProperties DEF Typed
  <2>3. \A t \in Tasks : result[t] = Nothing \/ result[t].asked \in Keys
    BY <2>1 DEF Typed, Outcomes
  <2>4. TypeOK
    BY <2>1, <2>2, <2>3 DEF TypeOK, Typed, Sized
  <2>5. QED BY <2>1, <2>4 DEF AnswersWhatWasAsked, Successes, Ends, ResultOk
<1>2. QED BY <1>1, RefInductive, PTL

\* A lone caller's references resolve to what the server meant by them, however long
\* its answers take and however small its cache is, or the copy was evicted, or the
\* content outlived its TTL on the way (handle_conn's `delivered`, the client's remember
\* and unwrap).
THEOREM LoneRefsResolveAlways == Spec => []LoneRefsResolve
<1>1. ASSUME IInv, LoneCaller, NEW t \in Ends PROVE Restored(result[t])
  <2>1. PICK o \in Tasks : setting.calls[o] > 0
    BY <1>1 DEF LoneCaller
  <2>2. QED BY <1>1, <2>1 DEF IInv, LoneInv, LoneOk
<1>2. IInv => LoneRefsResolve
  BY <1>1 DEF LoneRefsResolve, Restored
<1>3. QED BY <1>2, RefInductive, PTL

\* A call that ends well ends with a content that was made within a lifetime, or
\* two when it comes from the client's copy.
LEMMA EndsFresh ==
    ASSUME IInv, [Next]_vars, NEW t \in Tasks, setting.slow = "no",
           result'[t] # Nothing, result'[t] # result[t], result'[t].got # Nothing
    PROVE  /\ now - result'[t].got.made <= 2 * TTL
           /\ result'[t].got = result'[t].meant => now - result'[t].got.made <= TTL
<1>1. Typed /\ result \in [Tasks -> Outcomes \cup {Nothing}] /\ TTL \in Nat \ {0} /\ now \in Nat
  BY SettingFacts DEF IInv, Typed
<1>2. ASSUME NEW u \in Tasks, NEW how, result' = [result EXCEPT ![u] = how]
      PROVE  u = t /\ result'[t] = how
  BY <1>1, <1>2
<1>3. FinishRef(t) \/ FinishFull(t)
  <2>1. ~UNCHANGED result
    OBVIOUS
  <2>2. CASE \E u \in Tasks, k \in Keys, kind \in setting.kinds : Call(u, k, kind)
    BY <1>2, <2>2 DEF Call
  <2>3. CASE \E u \in Tasks : Drop(u)
    BY <1>2, <2>3 DEF Drop, Ended
  <2>4. CASE \E u \in Tasks : FinishRef(u) \/ FinishFull(u)
    BY <1>2, <2>4 DEF FinishRef, FinishFull, Ended
  <2>5. QED BY <2>1, <2>2, <2>3, <2>4 DEF Next, Lookup, Execute, Dispatch, Tick, vars
<1>4. CASE FinishFull(t)
  <2>1. PICK c \in Conns, k \in Keys, content \in Contents, how \in Outcomes, d \in Caches :
          FullOf(t, c, k, content, how, d)
    BY <1>4, FullFacts
  <2>2. result'[t] = how /\ how.got = content /\ now - content.made <= TTL
    BY <1>2, <2>1 DEF FullOf, Ended
  <2>3. content.made \in Nat
    BY <1>1, SettingFacts DEF Contents
  <2>4. QED BY <1>1, <2>2, <2>3
<1>5. CASE FinishRef(t)
  <2>1. PICK c \in Conns, k \in Keys, how \in Outcomes :
          /\ Ended(t, how) /\ how.meant = task[t].frame.content
          /\ how.got = IF Alive(copies[c], k) THEN copies[c][k].content ELSE Nothing
    BY <1>5, RefFacts
  <2>2. result'[t] = how
    BY <1>2, <2>1 DEF Ended
  <2>3. Alive(copies[c], k) /\ how.got = copies[c][k].content
    BY <2>1, <2>2
  <2>4. /\ now - copies[c][k].at <= TTL /\ copies[c][k].at - copies[c][k].content.made <= TTL
        /\ copies[c][k].at \in Nat /\ copies[c][k].content.made \in Nat
    <3>1. copies[c][k] \in Entries
      BY <1>1, <2>3 DEF Typed, Caches, Alive, Entries
    <3>2. copies[c][k].at - copies[c][k].content.made <= TTL
      BY <2>3 DEF IInv, KeyInv, CopiesOk, Present, Alive
    <3>3. QED BY <1>1, <2>3, <3>1, <3>2, SettingFacts DEF Alive, Entries, Contents
  <2>5. now - how.got.made <= 2 * TTL
    BY <1>1, <2>3, <2>4
  <2>6. now - task[t].frame.content.made <= TTL
    BY <1>5 DEF FinishRef, IInv, KeyInv, TaskOk, Fresh
  <2>7. QED BY <2>1, <2>2, <2>5, <2>6
<1>6. QED BY <1>3, <1>4, <1>5

\* No result is older than one lifetime for a lone caller, than two for any other
\* (the TTL checks of the two caches, ResultCache::get).
THEOREM AgeBoundedAlways == Spec => AgeBounded
<1>1. ASSUME IInv, IInv', [Next]_vars
      PROVE  /\ LoneCaller /\ setting.slow = "no" => EndsWithin(TTL)
             /\ setting.slow = "no" => EndsWithin(2 * TTL)
  <2>1. setting.slow = "no" => EndsWithin(2 * TTL)
    BY <1>1, EndsFresh DEF EndsWithin, Age
  <2>2. ASSUME LoneCaller, NEW t \in Tasks, result'[t] # Nothing, result'[t].got # Nothing
        PROVE  result'[t].got = result'[t].meant
    <3>1. setting' = setting
      BY <1>1 DEF Next, vars, Call, Lookup, Execute, Dispatch, FinishRef, FinishFull, Drop, Ended, Tick
    <3>2. PICK o \in Tasks : setting.calls[o] > 0
      BY <2>2 DEF LoneCaller
    <3>3. LoneInv' /\ LoneCaller' = LoneCaller
      BY <1>1, <3>1 DEF IInv, LoneCaller
    <3>4. LoneOk(o, setting.conn[o])'
      BY <2>2, <3>1, <3>2, <3>3 DEF LoneInv
    <3>5. QED BY <2>2, <3>4 DEF LoneOk, Ends, Restored
  <2>3. LoneCaller /\ setting.slow = "no" => EndsWithin(TTL)
    BY <1>1, <2>2, EndsFresh DEF EndsWithin, Age
  <2>4. QED BY <2>1, <2>3
<1>2. QED BY <1>1, RefInductive, PTL DEF Spec, AgeBounded
=============================================================================

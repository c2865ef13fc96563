----------------------- MODULE ResourceRegistryProofs -----------------------
(***************************************************************************)
(* No update falls through between the threads that write and announce and *)
(* the sessions and clients that subscribe, receive and read, for any      *)
(* number of each, any channel capacity and any number of changes.         *)
(***************************************************************************)
EXTENDS ResourceRegistry, SequenceTheorems, TLAPS

-----------------------------------------------------------------------------
\* The inductive invariant

Notes == {"updated", "list_changed"}
Answers == {"listing", "contents", "subscribed", "unsubscribed", "not_found", "pong"}
Frames == [type : Notes \cup Answers, uri : Uris \cup {NoUri}, version : Nat, listing : SUBSET Uris]
Events == {Frame(y, u) : y \in Notes, u \in Uris}
Requests ==
    {NoRequest, Frame("list", NoUri), Frame("ping", NoUri)}
        \cup {Frame(y, u) : y \in {"read", "subscribe", "unsubscribe"}, u \in Uris}
Clients == [known : [Uris -> Nat], follows : SUBSET Uris, stale : SUBSET Uris,
            listing : SUBSET Uris, relist : {"yes", "no"}, choices : Nat]

\* What a thread still has to do.
Written == <<"updated">>
Listed == <<"insert", "list_changed">>
Inserted == <<"list_changed">>
Busy == [todo : {UpdateSteps, Written, AddSteps, Listed, Inserted}, uri : Uris]

Typed ==
    /\ setting \in Settings
    /\ resources \subseteq Uris /\ contents \in [Uris -> Nat]
    /\ writer \in [Writers -> Busy \cup {IdleWriter}] /\ changes \in Nat
    /\ log \in Seq(Events)
    /\ cursor \in [Sessions -> Nat] /\ \A s \in Sessions : cursor[s] <= Len(log)
    /\ lost \subseteq Sessions /\ subscribed \in [Sessions -> SUBSET Uris]
    /\ up \in [Sessions -> Requests] /\ down \in [Sessions -> Seq(Frames)]
    /\ client \in [Sessions -> Clients]

\* The frames on their way to a client, the events its session has still to receive.
OnWay(s) == {down[s][i] : i \in DOMAIN down[s]}
Ahead(s) == {log[i] : i \in cursor[s] + 1 .. Len(log)}

\* The three steps of an addition, and that one is under way for a new uri at most once.
Adding(w) == writer[w].todo \in {AddSteps, Listed}
ThreadOk(w) ==
    /\ writer[w].todo = Listed => writer[w].uri \in resources
    /\ writer[w].todo = Inserted => contents[writer[w].uri] # 0
    /\ setting.again = "no" /\ Adding(w) =>
          /\ contents[writer[w].uri] = 0
          /\ \A v \in Writers : Adding(v) /\ writer[v].uri = writer[w].uri => v = w
HostInv ==
    /\ \A u \in Uris : contents[u] # 0 => u \in resources
    /\ \A w \in Writers : ThreadOk(w)
    /\ \A i \in DOMAIN log : log[i].type = "list_changed" => contents[log[i].uri] # 0

\* A client has one call open: its request or its answer is on the way, not both.
OneAnswer(q) == \A i, j \in DOMAIN q : q[i].type \in Answers /\ q[j].type \in Answers => i = j
CallInv ==
    \A s \in Sessions :
        /\ up[s] # NoRequest => \A f \in OnWay(s) : f.type \in Notes
        /\ OneAnswer(down[s])

\* What client and session know of each other, and of the registry; what the frames to
\* the client may say.
ClientOk(s) ==
    /\ client[s].stale \subseteq client[s].follows
    /\ client[s].listing \subseteq resources
    /\ \A u \in Uris : client[s].known[u] <= contents[u]
    /\ \A u \in subscribed[s] : contents[u] # 0
    /\ \A u \in client[s].follows :
          contents[u] # 0 /\ (u \in subscribed[s] \/ Frame("unsubscribed", u) \in OnWay(s))
FrameOk(s, f) ==
    /\ f.type # "listing" => f.listing = {}
    /\ f.type \in {"updated", "subscribed", "unsubscribed", "contents"} => f.uri \in Uris
    /\ f.type = "subscribed" => f.uri \in subscribed[s]
    /\ f.type = "contents" => client[s].known[f.uri] <= f.version /\ f.version <= contents[f.uri]
    /\ f.type = "listing" => client[s].listing \subseteq f.listing /\ f.listing \subseteq resources
ClientInv == \A s \in Sessions : ClientOk(s) /\ \A f \in OnWay(s) : FrameOk(s, f)

\* OutdatedAreTold and NewIsListed, by the frames on the way.
Announced(s, y, u) ==
    \/ \E w \in Writers : writer[w].uri = u /\ At(w, {y})
    \/ Frame(y, u) \in Ahead(s) \cup OnWay(s)
Told(s, u) ==
    \/ setting.again = "yes"
    \/ client[s].known[u] = contents[u]
    \/ u \in client[s].stale \/ up[s] = Frame("read", u)
    \/ \E f \in OnWay(s) : f.type = "contents" /\ f.uri = u /\ f.version = contents[u]
    \/ Announced(s, "updated", u)
    \/ up[s] = Frame("unsubscribe", u) \/ Frame("unsubscribed", u) \in OnWay(s)
UpdateInv == \A s \in Sessions \ lost : \A u \in client[s].follows : Told(s, u)

Shown(s, u) ==
    \/ u \in client[s].listing
    \/ client[s].relist = "yes" \/ up[s].type = "list" \/ Announced(s, "list_changed", u)
    \/ \E f \in OnWay(s) : u \in f.listing
ListInv == \A s \in setting.sessions \ lost : \A u \in Uris : contents[u] # 0 => Shown(s, u)

IInv == Typed /\ HostInv /\ CallInv /\ ClientInv /\ UpdateInv /\ ListInv

-----------------------------------------------------------------------------
\* Sequences of frames and events

LEMMA Appended ==
    ASSUME NEW S, NEW q \in Seq(S), NEW e \in S
    PROVE  /\ Append(q, e) \in Seq(S) /\ q \o <<e>> = Append(q, e)
           /\ Len(Append(q, e)) = Len(q) + 1 /\ Len(q) \in Nat
           /\ DOMAIN q = 1 .. Len(q) /\ DOMAIN Append(q, e) = 1 .. Len(q) + 1
           /\ \A i \in 1 .. Len(q) : Append(q, e)[i] = q[i]
           /\ Append(q, e)[Len(q) + 1] = e
           /\ {Append(q, e)[i] : i \in DOMAIN Append(q, e)} = {q[i] : i \in DOMAIN q} \cup {e}
<1>1. Append(q, e) \in Seq(S) /\ Len(Append(q, e)) = Len(q) + 1 /\ Len(q) \in Nat
      /\ \A i \in 1 .. Len(q) : Append(q, e)[i] = q[i]
      /\ Append(q, e)[Len(q) + 1] = e
  BY AppendProperties, LenProperties
<1>2. q \o <<e>> = Append(q, e)
  BY AppendIsConcat
<1>3. DOMAIN q = 1 .. Len(q) /\ DOMAIN Append(q, e) = 1 .. Len(q) + 1
  BY <1>1, LenProperties
<1>4. {Append(q, e)[i] : i \in DOMAIN Append(q, e)} = {q[i] : i \in DOMAIN q} \cup {e}
  <2>1. 1 .. Len(q) + 1 = (1 .. Len(q)) \cup {Len(q) + 1}
    BY <1>1
  <2>2. QED BY <1>1, <1>3, <2>1
<1>5. QED BY <1>1, <1>2, <1>3, <1>4

LEMMA Shortened ==
    ASSUME NEW S, NEW q \in Seq(S), q # <<>>
    PROVE  /\ Tail(q) \in Seq(S) /\ Head(q) = q[1] /\ Head(q) \in S
           /\ DOMAIN q = 1 .. Len(q) /\ Len(q) \in Nat \ {0} /\ DOMAIN Tail(q) = 1 .. Len(q) - 1
           /\ \A i \in 1 .. Len(q) - 1 : Tail(q)[i] = q[i + 1]
           /\ {q[i] : i \in DOMAIN q} = {Head(q)} \cup {Tail(q)[i] : i \in DOMAIN Tail(q)}
<1>1. /\ Tail(q) \in Seq(S) /\ Len(Tail(q)) = Len(q) - 1 /\ Len(q) \in Nat \ {0} /\ Head(q) \in S
      /\ \A i \in 1 .. Len(q) - 1 : Tail(q)[i] = q[i + 1]
  BY HeadTailProperties, EmptySeq, LenProperties
<1>2. DOMAIN q = 1 .. Len(q) /\ DOMAIN Tail(q) = 1 .. Len(q) - 1
  BY <1>1, LenProperties
<1>3. Head(q) = q[1]
  OBVIOUS
<1>4. {q[i] : i \in DOMAIN q} = {Head(q)} \cup {Tail(q)[i] : i \in DOMAIN Tail(q)}
  <2>1. ASSUME NEW i \in 1 .. Len(q)
        PROVE  q[i] = Head(q) \/ \E j \in 1 .. Len(q) - 1 : q[i] = Tail(q)[j]
    <3>1. CASE i = 1
      BY <1>3, <3>1
    <3>2. CASE i # 1
      <4>1. i - 1 \in 1 .. Len(q) - 1 /\ (i - 1) + 1 = i
        BY <1>1, <3>2
      <4>2. QED BY <1>1, <4>1
    <3>3. QED BY <3>1, <3>2
  <2>2. 1 \in 1 .. Len(q) /\ \A j \in 1 .. Len(q) - 1 : j + 1 \in 1 .. Len(q)
    BY <1>1
  <2>3. {q[i] : i \in DOMAIN q} \subseteq {Head(q)} \cup {Tail(q)[i] : i \in DOMAIN Tail(q)}
    BY <1>2, <2>1
  <2>4. {Head(q)} \cup {Tail(q)[i] : i \in DOMAIN Tail(q)} \subseteq {q[i] : i \in DOMAIN q}
    BY <1>1, <1>2, <1>3, <2>2
  <2>5. QED BY <2>3, <2>4
<1>5. QED BY <1>1, <1>2, <1>3, <1>4

LEMMA TailOfPair == ASSUME NEW a, NEW b PROVE Tail(<<a, b>>) = <<b>>
  OBVIOUS
LEMMA TailOfTriple == ASSUME NEW a, NEW b, NEW c PROVE Tail(<<a, b, c>>) = <<b, c>>
  OBVIOUS

LEMMA TodoFacts ==
    /\ Head(UpdateSteps) = "write" /\ Tail(UpdateSteps) = Written /\ Len(UpdateSteps) = 2
    /\ Head(Written) = "updated" /\ Len(Written) = 1
    /\ Head(AddSteps) = "list" /\ Tail(AddSteps) = Listed /\ Len(AddSteps) = 3
    /\ Head(Listed) = "insert" /\ Tail(Listed) = Inserted /\ Len(Listed) = 2
    /\ Head(Inserted) = "list_changed" /\ Len(Inserted) = 1
    /\ \A q \in {UpdateSteps, Written, AddSteps, Listed, Inserted} : q # <<>>
<1>1. Tail(UpdateSteps) = Written
  BY TailOfPair DEF UpdateSteps, Written
<1>2. Tail(AddSteps) = Listed
  BY TailOfTriple DEF AddSteps, Listed
<1>3. Tail(Listed) = Inserted
  BY TailOfPair DEF Listed, Inserted
<1>4. /\ Head(UpdateSteps) = "write" /\ Len(UpdateSteps) = 2
      /\ Head(Written) = "updated" /\ Len(Written) = 1
      /\ Head(AddSteps) = "list" /\ Len(AddSteps) = 3
      /\ Head(Listed) = "insert" /\ Len(Listed) = 2
      /\ Head(Inserted) = "list_changed" /\ Len(Inserted) = 1
  BY DEF UpdateSteps, Written, AddSteps, Listed, Inserted
<1>5. UpdateSteps # <<>> /\ Written # <<>> /\ AddSteps # <<>> /\ Listed # <<>> /\ Inserted # <<>>
  BY DEF UpdateSteps, Written, AddSteps, Listed, Inserted
<1>6. QED BY <1>1, <1>2, <1>3, <1>4, <1>5

\* A thread that is about to do a step of this name has this much to do.
LEMMA AtFacts ==
    ASSUME Typed, NEW w \in Writers
    PROVE  /\ At(w, {"write"}) => writer[w].todo = UpdateSteps
           /\ At(w, {"updated"}) <=> writer[w].todo = Written
           /\ At(w, {"list"}) => writer[w].todo = AddSteps
           /\ At(w, {"insert"}) => writer[w].todo = Listed
           /\ At(w, {"list_changed"}) <=> writer[w].todo = Inserted
           /\ \A y : At(w, {y}) => writer[w] \in Busy /\ writer[w].uri \in Uris
           /\ At(w, {"updated", "list_changed"}) =>
                 At(w, {Head(writer[w].todo)}) /\ Head(writer[w].todo) \in Notes
<1>1. writer[w] \in Busy \/ writer[w].todo = <<>>
  BY DEF Typed, IdleWriter
<1>2. QED BY <1>1, TodoFacts DEF At, Busy, Notes

\* What Done does to a thread.
LEMMA DoneFacts ==
    ASSUME Typed, NEW w \in Writers, Done(w), writer[w] \in Busy
    PROVE  /\ writer' \in [Writers -> Busy \cup {IdleWriter}]
           /\ \A v \in Writers \ {w} : writer'[v] = writer[v]
           /\ writer[w].todo = UpdateSteps => writer'[w] = [todo |-> Written, uri |-> writer[w].uri]
           /\ writer[w].todo = AddSteps => writer'[w] = [todo |-> Listed, uri |-> writer[w].uri]
           /\ writer[w].todo = Listed => writer'[w] = [todo |-> Inserted, uri |-> writer[w].uri]
           /\ writer[w].todo \in {Written, Inserted} => writer'[w] = IdleWriter
<1>1. CASE writer[w].todo \in {Written, Inserted}
  <2>1. writer' = [writer EXCEPT ![w] = IdleWriter]
    BY <1>1, TodoFacts DEF Done, Finish
  <2>2. QED BY <1>1, <2>1, TodoFacts DEF Typed
<1>2. CASE writer[w].todo \in {UpdateSteps, AddSteps, Listed}
  <2>0. Len(writer[w].todo) # 1
    <3>1. Len(UpdateSteps) # 1 /\ Len(AddSteps) # 1 /\ Len(Listed) # 1
      BY DEF UpdateSteps, AddSteps, Listed
    <3>2. QED BY <1>2, <3>1
  <2>1. writer' = [writer EXCEPT ![w].todo = Tail(@)]
    BY <2>0 DEF Done
  <2>2. writer'[w] = [todo |-> Tail(writer[w].todo), uri |-> writer[w].uri]
    BY <2>1 DEF Typed, Busy
  <2>3. writer'[w] \in Busy
    <3>1. Tail(writer[w].todo) \in {Written, Listed, Inserted} /\ writer[w].uri \in Uris
      BY <1>2, TodoFacts DEF Busy
    <3>2. QED BY <2>2, <3>1 DEF Busy
  <2>4. QED BY <1>2, <2>1, <2>2, <2>3, TodoFacts DEF Typed
<1>3. QED BY <1>1, <1>2 DEF Busy

\* Frame and the answers are frames, and no request is one for no uri.
LEMMA FrameFacts ==
    /\ \A y \in Notes \cup Answers, u \in Uris \cup {NoUri} : Frame(y, u) \in Frames
    /\ Events \subseteq Frames
    /\ Notes \cap Answers = {}
<1>1. \A y \in Notes \cup Answers, u \in Uris \cup {NoUri} : Frame(y, u) \in Frames
  BY DEF Frame, Frames
<1>2. Events \subseteq Frames
  BY <1>1 DEF Events
<1>3. Notes \cap Answers = {}
  BY DEF Notes, Answers
<1>4. QED BY <1>1, <1>2, <1>3

\* A frame is sent.
LEMMA Said ==
    ASSUME Typed, NEW s \in Sessions, NEW f \in Frames, Say(s, <<f>>)
    PROVE  /\ down' \in [Sessions -> Seq(Frames)]
           /\ OnWay(s)' = OnWay(s) \cup {f}
           /\ \A t \in Sessions \ {s} : OnWay(t)' = OnWay(t) /\ down'[t] = down[t]
           /\ (f.type \in Notes \/ \A g \in OnWay(s) : g.type \in Notes) /\ OneAnswer(down[s])
                 => OneAnswer(down'[s])
<1>1. down[s] \in Seq(Frames)
  BY DEF Typed
<1>2. down'[s] = Append(down[s], f) /\ down' \in [Sessions -> Seq(Frames)]
      /\ \A t \in Sessions \ {s} : down'[t] = down[t]
  BY <1>1, Appended DEF Say, Typed
<1>3. OnWay(s)' = OnWay(s) \cup {f}
  <2>1. {Append(down[s], f)[i] : i \in DOMAIN Append(down[s], f)}
            = {down[s][i] : i \in DOMAIN down[s]} \cup {f}
    BY <1>1, Appended
  <2>2. QED BY <1>2, <2>1 DEF OnWay
<1>4. \A t \in Sessions \ {s} : OnWay(t)' = OnWay(t)
  BY <1>2 DEF OnWay
<1>5. ASSUME f.type \in Notes \/ \A g \in OnWay(s) : g.type \in Notes, OneAnswer(down[s])
      PROVE  OneAnswer(down'[s])
  <2> DEFINE n == Len(down[s])
  <2>1. n \in Nat /\ DOMAIN down[s] = 1 .. n /\ DOMAIN down'[s] = 1 .. n + 1
        /\ (\A i \in 1 .. n : down'[s][i] = down[s][i]) /\ down'[s][n + 1] = f
    BY <1>1, <1>2, Appended
  <2>2. CASE f.type \in Notes
    <3>1. f.type \notin Answers
      BY <2>2, FrameFacts
    <3>2. QED BY <1>5, <2>1, <3>1 DEF OneAnswer
  <2>3. CASE \A g \in OnWay(s) : g.type \in Notes
    <3>1. \A i \in 1 .. n : down[s][i].type \notin Answers
      BY <2>1, <2>3, FrameFacts DEF OnWay
    <3>2. QED BY <2>1, <3>1 DEF OneAnswer
  <2>4. QED BY <1>5, <2>2, <2>3
<1>6. QED BY <1>2, <1>3, <1>4, <1>5

\* A frame is taken from the wire.
LEMMA Heard ==
    ASSUME Typed, NEW s \in Sessions, down[s] # <<>>, down' = [down EXCEPT ![s] = Tail(@)]
    PROVE  /\ down' \in [Sessions -> Seq(Frames)] /\ Head(down[s]) \in Frames
           /\ OnWay(s) = {Head(down[s])} \cup OnWay(s)'
           /\ \A t \in Sessions \ {s} : OnWay(t)' = OnWay(t) /\ down'[t] = down[t]
           /\ OneAnswer(down[s]) =>
                 /\ OneAnswer(down'[s])
                 /\ Head(down[s]).type \in Answers => \A g \in OnWay(s)' : g.type \in Notes
<1>1. down[s] \in Seq(Frames)
  BY DEF Typed
<1>2. /\ down'[s] = Tail(down[s]) /\ down' \in [Sessions -> Seq(Frames)] /\ Head(down[s]) \in Frames
      /\ \A t \in Sessions \ {s} : down'[t] = down[t]
  BY <1>1, Shortened DEF Typed
<1>3. OnWay(s) = {Head(down[s])} \cup OnWay(s)'
  <2>1. {down[s][i] : i \in DOMAIN down[s]}
            = {Head(down[s])} \cup {Tail(down[s])[i] : i \in DOMAIN Tail(down[s])}
    BY <1>1, Shortened
  <2>2. QED BY <1>2, <2>1 DEF OnWay
<1>4. \A t \in Sessions \ {s} : OnWay(t)' = OnWay(t)
  BY <1>2 DEF OnWay
<1>5. ASSUME OneAnswer(down[s])
      PROVE  /\ OneAnswer(down'[s])
             /\ Head(down[s]).type \in Answers => \A g \in OnWay(s)' : g.type \in Notes
  <2> DEFINE n == Len(down[s])
  <2>1. /\ n \in Nat \ {0} /\ DOMAIN down[s] = 1 .. n /\ DOMAIN down'[s] = 1 .. n - 1
        /\ \A i \in 1 .. n - 1 : down'[s][i] = down[s][i + 1]
        /\ Head(down[s]) = down[s][1]
    BY <1>1, <1>2, Shortened
  <2>2. \A i \in 1 .. n - 1 : i + 1 \in 1 .. n /\ i + 1 # 1 /\ 1 \in 1 .. n
    BY <2>1
  <2>3. OneAnswer(down'[s])
    <3>1. ASSUME NEW i \in 1 .. n - 1, NEW j \in 1 .. n - 1,
                 down'[s][i].type \in Answers, down'[s][j].type \in Answers
          PROVE  i = j
      <4>1. i + 1 = j + 1
        BY <1>5, <2>1, <2>2, <3>1 DEF OneAnswer
      <4>2. QED BY <4>1, <2>1
    <3>2. QED BY <2>1, <3>1 DEF OneAnswer
  <2>4. ASSUME Head(down[s]).type \in Answers, NEW i \in 1 .. n - 1
        PROVE  down'[s][i].type \in Notes
    <3>1. down[s][i + 1].type \notin Answers
      BY <1>5, <2>1, <2>2, <2>4 DEF OneAnswer
    <3>2. down[s][i + 1].type \in Notes \cup Answers
      <4>1. down[s][i + 1] \in Frames
        BY <1>1, <2>1, <2>2, ElementOfSeq
      <4>2. QED BY <4>1 DEF Frames
    <3>3. QED BY <2>1, <3>1, <3>2
  <2>5. QED BY <2>1, <2>3, <2>4 DEF OnWay
<1>6. QED BY <1>2, <1>3, <1>4, <1>5

\* An event is broadcast, an event is received.
LEMMA Broadcast ==
    ASSUME Typed, NEW e \in Events, log' = Append(log, e), cursor' = cursor
    PROVE  /\ log' \in Seq(Events)
           /\ \A s \in Sessions : cursor'[s] <= Len(log') /\ Ahead(s)' = Ahead(s) \cup {e}
           /\ \A i \in DOMAIN log' : log'[i] = e \/ (i \in DOMAIN log /\ log'[i] = log[i])
<1>1. /\ log \in Seq(Events) /\ log' \in Seq(Events) /\ Len(log') = Len(log) + 1 /\ Len(log) \in Nat
      /\ DOMAIN log = 1 .. Len(log) /\ DOMAIN log' = 1 .. Len(log) + 1
      /\ \A i \in 1 .. Len(log) : log'[i] = log[i]
      /\ log'[Len(log) + 1] = e
  BY Appended DEF Typed
<1>2. ASSUME NEW s \in Sessions
      PROVE  cursor'[s] <= Len(log') /\ Ahead(s)' = Ahead(s) \cup {e}
  <2>1. cursor[s] \in Nat /\ cursor[s] <= Len(log) /\ cursor'[s] = cursor[s]
    BY DEF Typed
  <2>2. cursor[s] + 1 .. Len(log) + 1 = (cursor[s] + 1 .. Len(log)) \cup {Len(log) + 1}
        /\ \A i \in cursor[s] + 1 .. Len(log) : i \in 1 .. Len(log)
    BY <1>1, <2>1
  <2>3. QED BY <1>1, <2>1, <2>2 DEF Ahead
<1>3. \A i \in 1 .. Len(log) + 1 : i \in 1 .. Len(log) \/ i = Len(log) + 1
  BY <1>1
<1>4. QED BY <1>1, <1>2, <1>3

LEMMA Received ==
    ASSUME Typed, NEW s \in Sessions, Backlog(s) >= 1, log' = log,
           cursor' = [cursor EXCEPT ![s] = @ + 1]
    PROVE  /\ cursor' \in [Sessions -> Nat] /\ \A t \in Sessions : cursor'[t] <= Len(log)
           /\ log[cursor[s] + 1] \in Events
           /\ Ahead(s) = {log[cursor[s] + 1]} \cup Ahead(s)'
           /\ \A t \in Sessions \ {s} : Ahead(t)' = Ahead(t)
<1>1. cursor[s] \in Nat /\ cursor[s] + 1 <= Len(log) /\ Len(log) \in Nat /\ log \in Seq(Events)
  BY LenProperties DEF Typed, Backlog
<1>2. /\ cursor' \in [Sessions -> Nat] /\ cursor'[s] = cursor[s] + 1
      /\ \A t \in Sessions \ {s} : cursor'[t] = cursor[t]
      /\ \A t \in Sessions : cursor'[t] <= Len(log)
  BY <1>1 DEF Typed
<1>3. cursor[s] + 1 .. Len(log) = {cursor[s] + 1} \cup (cursor[s] + 1 + 1 .. Len(log))
  BY <1>1
<1>4. Ahead(s) = {log[cursor[s] + 1]} \cup Ahead(s)'
  BY <1>2, <1>3 DEF Ahead
<1>5. log[cursor[s] + 1] \in Events
  <2>1. cursor[s] + 1 \in 1 .. Len(log)
    BY <1>1
  <2>2. QED BY <1>1, <2>1, ElementOfSeq
<1>6. QED BY <1>2, <1>4, <1>5 DEF Ahead

-----------------------------------------------------------------------------
\* Initial states

LEMMA InitIInv == Init => IInv
<1> SUFFICES ASSUME Init PROVE IInv
  OBVIOUS
<1> USE DEF Init
<1>1. IsSetting(setting) /\ setting \in Settings
  BY RegistryAssumption
<1>2. Typed
  <2>1. resources \subseteq Uris /\ contents \in [Uris -> Nat]
    BY <1>1 DEF IsSetting
  <2>2. log \in Seq(Events) /\ Len(log) = 0 /\ \A s \in Sessions : down[s] \in Seq(Frames)
    BY EmptySeq
  <2>3. client \in [Sessions -> Clients]
    BY DEF NewClient, Clients
  <2>4. QED BY <1>1, <2>1, <2>2, <2>3 DEF Typed, Requests
<1>3. \A s \in Sessions : OnWay(s) = {} /\ down[s] = <<>>
  BY EmptySeq DEF OnWay
<1>4. \A w \in Writers : writer[w].todo = <<>>
  BY DEF IdleWriter
<1>5. HostInv
  <2>1. \A w \in Writers : ThreadOk(w)
    BY <1>4, TodoFacts DEF Adding, ThreadOk
  <2>2. DOMAIN log = {}
    BY EmptySeq
  <2>3. QED BY <1>1, <2>1, <2>2 DEF HostInv
<1>6. CallInv
  BY <1>3, EmptySeq DEF CallInv, OneAnswer
<1>7. ClientInv
  <2>1. ASSUME NEW s \in Sessions PROVE ClientOk(s)
    <3>1. \A u \in Uris : contents[u] \in {0, 1}
      OBVIOUS
    <3>2. client[s] = NewClient /\ subscribed[s] = {}
      OBVIOUS
    <3>3. /\ client[s].stale = {} /\ client[s].follows = {} /\ client[s].listing = {}
          /\ \A u \in Uris : client[s].known[u] = 0
      BY <3>2 DEF NewClient
    <3>4. QED BY ONLY <3>1, <3>2, <3>3 DEF ClientOk
  <2>2. QED BY <1>3, <2>1 DEF ClientInv
<1>8. UpdateInv
  BY DEF UpdateInv, NewClient
<1>9. ListInv
  BY <1>1 DEF ListInv, NewClient, Shown, IsSetting
<1>10. QED BY <1>2, <1>5, <1>6, <1>7, <1>8, <1>9 DEF IInv

-----------------------------------------------------------------------------
\* The host's threads

LEMMA TypedFacts ==
    ASSUME Typed, NEW s \in Sessions
    PROVE  /\ client[s] \in Clients /\ subscribed[s] \subseteq Uris /\ up[s] \in Requests
           /\ \A f \in OnWay(s) : f \in Frames
<1>1. down[s] \in Seq(Frames)
  BY DEF Typed
<1>2. \A i \in DOMAIN down[s] : down[s][i] \in Frames
  BY <1>1, ElementOfSeq, LenProperties
<1>3. QED BY <1>2 DEF Typed, OnWay

\* What a step of a thread leaves alone, and what it owes the sessions: a version that
\* it replaces and a resource that it makes readable are about to be announced.
Aside ==
    /\ UNCHANGED <<setting, log, receivers, wires, client>>
    /\ resources \subseteq resources'
    /\ \A u \in Uris : contents[u] <= contents'[u]
    /\ \A w \in Writers, y \in Notes : At(w, {y}) => At(w, {y})' /\ writer'[w].uri = writer[w].uri
Owed ==
    /\ \A u \in Uris : contents'[u] # contents[u] =>
          \/ setting.again = "yes" \/ contents[u] = 0
          \/ \E w \in Writers : At(w, {"updated"})' /\ writer'[w].uri = u
    /\ \A u \in Uris : contents[u] = 0 /\ contents'[u] # 0 =>
          \E w \in Writers : At(w, {"list_changed"})' /\ writer'[w].uri = u

LEMMA HostStep ==
    ASSUME IInv, Typed', Aside, Owed
    PROVE  CallInv' /\ ClientInv' /\ UpdateInv' /\ ListInv'
<1>0. UNCHANGED <<setting, log, receivers, wires, client>>
  BY DEF Aside
<1>1. \A s \in Sessions : OnWay(s)' = OnWay(s) /\ Ahead(s)' = Ahead(s)
  BY <1>0 DEF OnWay, Ahead, receivers, wires
<1>2. \A s \in Sessions : \A u \in Uris : \A y \in Notes : Announced(s, y, u) => Announced(s, y, u)'
  BY <1>1 DEF Announced, Aside
<1>3. contents \in [Uris -> Nat] /\ contents' \in [Uris -> Nat] /\ client \in [Sessions -> Clients]
  BY DEF IInv, Typed
<1>4. CallInv'
  BY <1>0, <1>1 DEF IInv, CallInv, wires
<1>5. ClientInv'
  <2> SUFFICES ASSUME NEW s \in Sessions PROVE ClientOk(s)' /\ \A f \in OnWay(s) : FrameOk(s, f)'
    BY <1>1 DEF ClientInv
  <2>1. client[s].follows \subseteq Uris /\ subscribed[s] \subseteq Uris
        /\ client[s].known \in [Uris -> Nat]
    BY <1>3, TypedFacts DEF Clients, IInv
  <2>2. ClientOk(s) /\ \A f \in OnWay(s) : f \in Frames /\ FrameOk(s, f)
    BY TypedFacts DEF IInv, ClientInv
  <2>3. /\ \A u \in Uris : contents[u] # 0 => contents'[u] # 0
        /\ \A u \in Uris, n \in Nat : n <= contents[u] => n <= contents'[u]
    <3>1. ASSUME NEW u \in Uris
          PROVE  /\ contents[u] # 0 => contents'[u] # 0
                 /\ \A n \in Nat : n <= contents[u] => n <= contents'[u]
      <4>1. contents[u] \in Nat /\ contents'[u] \in Nat
        BY <1>3
      <4>2. contents[u] <= contents'[u]
        BY DEF Aside
      <4>3. QED BY <4>1, <4>2
    <3>2. QED BY <3>1
  <2>4. ClientOk(s)'
    BY <1>0, <1>1, <2>1, <2>2, <2>3 DEF ClientOk, receivers, Aside
  <2>5. ASSUME NEW f \in OnWay(s) PROVE FrameOk(s, f)'
    <3>1. f.version \in Nat
      BY <2>2 DEF Frames
    <3>2. QED BY <1>0, <2>1, <2>2, <2>3, <3>1 DEF FrameOk, receivers, Aside
  <2>6. QED BY <2>4, <2>5
<1>6. UpdateInv'
  <2> SUFFICES ASSUME NEW s \in Sessions \ lost, NEW u \in client[s].follows
               PROVE  Told(s, u)'
    BY <1>0 DEF UpdateInv, receivers
  <2>1. u \in Uris /\ contents[u] # 0 /\ Told(s, u)
    BY <1>3, TypedFacts DEF IInv, ClientInv, ClientOk, UpdateInv, Clients
  <2>2. CASE contents'[u] = contents[u]
    BY <1>0, <1>1, <1>2, <2>1, <2>2 DEF Told, wires, Notes
  <2>3. CASE contents'[u] # contents[u]
    BY <1>0, <2>1, <2>3 DEF Told, Announced, Owed
  <2>4. QED BY <2>2, <2>3
<1>7. ListInv'
  <2> SUFFICES ASSUME NEW s \in setting.sessions \ lost, NEW u \in Uris, contents'[u] # 0
               PROVE  Shown(s, u)'
    BY <1>0 DEF ListInv, receivers
  <2>1. s \in Sessions
    BY RegistryAssumption DEF IInv, Typed, IsSetting
  <2>2. CASE contents[u] = 0
    BY <2>1, <2>2 DEF Shown, Announced, Owed
  <2>3. CASE contents[u] # 0
    BY <1>0, <1>1, <1>2, <2>1, <2>3 DEF IInv, ListInv, Shown, wires, Notes
  <2>4. QED BY <2>2, <2>3
<1>8. QED BY <1>4, <1>5, <1>6, <1>7

\* The steps of the threads that announce nothing.
HostPart == Typed' /\ HostInv' /\ Aside /\ Owed

LEMMA ThreadFacts ==
    /\ UpdateSteps \notin {Written, AddSteps, Listed, Inserted, <<>>}
    /\ AddSteps \notin {Written, Listed, Inserted, <<>>}
    /\ Listed \notin {Written, Inserted, <<>>} /\ Inserted \notin {Written, <<>>} /\ Written # <<>>
  BY TodoFacts

LEMMA LogFacts ==
    ASSUME Typed
    PROVE  \A i \in DOMAIN log : log[i] \in Events /\ log[i].uri \in Uris
<1>1. \A i \in DOMAIN log : log[i] \in Events
  BY ElementOfSeq, LenProperties DEF Typed
<1>2. QED BY <1>1 DEF Events, Frame

LEMMA BeginStep ==
    ASSUME IInv, NEW w \in Writers, NEW u \in Uris, Begin(w, u)
    PROVE  HostPart
<1>1. PICK steps \in {UpdateSteps, AddSteps} :
        /\ writer' = [writer EXCEPT ![w] = [todo |-> steps, uri |-> u]]
        /\ steps = AddSteps /\ setting.again = "no" => ~Begun(u)
  BY ThreadFacts DEF Begin
<1>2. /\ Typed /\ HostInv /\ writer[w] = IdleWriter /\ changes' = changes + 1
      /\ UNCHANGED <<setting, shared, log, receivers, wires, client>>
  BY DEF IInv, Begin
<1>3. /\ writer'[w] = [todo |-> steps, uri |-> u] /\ writer'[w] \in Busy
      /\ \A v \in Writers \ {w} : writer'[v] = writer[v]
      /\ writer' \in [Writers -> Busy \cup {IdleWriter}]
  BY <1>1, <1>2 DEF Typed, Busy
<1>4. Typed'
  BY <1>2, <1>3 DEF Typed, shared, receivers, wires
<1>5. ASSUME NEW v \in Writers PROVE ThreadOk(v)'
  <2>1. writer[v].todo \in {Listed, AddSteps, Inserted} => v # w /\ writer[v] # IdleWriter
    BY <1>2, ThreadFacts DEF IdleWriter
  <2>2. ASSUME setting.again = "no", steps = AddSteps
        PROVE  contents[u] = 0 /\ \A x \in Writers : Adding(x) => writer[x].uri # u
    <3>1. ~Begun(u)
      BY <1>1, <2>2
    <3>2. ASSUME NEW x \in Writers, Adding(x) PROVE writer[x] # IdleWriter
      BY <3>2, ThreadFacts DEF Adding, IdleWriter
    <3>3. QED BY <1>2, <3>1, <3>2 DEF HostInv, Begun
  <2>3. ThreadOk(v)
    BY <1>2 DEF HostInv
  <2>4. QED BY <1>2, <1>3, <2>1, <2>2, <2>3, ThreadFacts DEF ThreadOk, Adding, shared
<1>6. HostInv'
  BY <1>2, <1>5 DEF HostInv, shared
<1>7. Aside
  <2>1. contents \in [Uris -> Nat]
    BY <1>2 DEF Typed
  <2>2. ~At(w, {"updated"}) /\ ~At(w, {"list_changed"})
    BY <1>2 DEF At, IdleWriter
  <2>3. ASSUME NEW v \in Writers, NEW y \in Notes, At(v, {y})
        PROVE  At(v, {y})' /\ writer'[v].uri = writer[v].uri
    <3>1. v # w
      BY <2>2, <2>3 DEF Notes
    <3>2. QED BY <1>3, <2>3, <3>1 DEF At
  <2>4. \A x \in Uris : contents[x] <= contents'[x]
    BY <1>2, <2>1 DEF shared
  <2>5. QED BY <1>2, <2>3, <2>4 DEF Aside, shared
<1>8. Owed
  BY <1>2 DEF Owed, shared
<1>9. QED BY <1>4, <1>6, <1>7, <1>8 DEF HostPart

\* A thread that is not about to announce leaves the announcements of the others alone.
LEMMA OthersAnnounce ==
    ASSUME Typed, NEW w \in Writers, writer[w].todo \in {UpdateSteps, AddSteps, Listed},
           \A v \in Writers \ {w} : writer'[v] = writer[v]
    PROVE  \A v \in Writers, y \in Notes : At(v, {y}) => At(v, {y})' /\ writer'[v].uri = writer[v].uri
<1>1. ~At(w, {"updated"}) /\ ~At(w, {"list_changed"})
  BY AtFacts, ThreadFacts
<1>2. SUFFICES ASSUME NEW v \in Writers, NEW y \in Notes, At(v, {y})
               PROVE  At(v, {y})' /\ writer'[v].uri = writer[v].uri
  OBVIOUS
<1>3. v # w
  BY <1>1, <1>2 DEF Notes
<1>4. QED BY <1>2, <1>3 DEF At

LEMMA PushToListStep ==
    ASSUME IInv, NEW w \in Writers, PushToList(w)
    PROVE  HostPart
<1>1. /\ Typed /\ HostInv /\ writer[w].todo = AddSteps /\ writer[w] \in Busy /\ writer[w].uri \in Uris
      /\ Done(w) /\ resources' = resources \cup {writer[w].uri}
      /\ UNCHANGED <<setting, contents, changes, log, receivers, wires, client>>
  BY AtFacts DEF IInv, PushToList
<1>2. /\ writer' \in [Writers -> Busy \cup {IdleWriter}]
      /\ \A v \in Writers \ {w} : writer'[v] = writer[v]
      /\ writer'[w] = [todo |-> Listed, uri |-> writer[w].uri]
  BY <1>1, DoneFacts
<1>3. Typed'
  BY <1>1, <1>2 DEF Typed, receivers, wires
<1>4. ASSUME NEW v \in Writers PROVE ThreadOk(v)'
  <2>1. ThreadOk(v) /\ ThreadOk(w)
    BY <1>1 DEF HostInv
  <2>2. \A x \in Writers : Adding(x)' <=> Adding(x)
    BY <1>1, <1>2, ThreadFacts DEF Adding
  <2>3. \A x \in Writers : writer'[x].uri = writer[x].uri
    BY <1>2
  <2>4. CASE v = w
    BY <1>1, <1>2, <2>1, <2>2, <2>3, <2>4, ThreadFacts DEF ThreadOk, Adding
  <2>5. CASE v # w
    BY <1>1, <1>2, <2>1, <2>2, <2>3, <2>5 DEF ThreadOk
  <2>6. QED BY <2>4, <2>5
<1>5. HostInv'
  BY <1>1, <1>4 DEF HostInv
<1>6. Aside
  <2>1. \A x \in Uris : contents[x] <= contents'[x]
    BY <1>1 DEF Typed
  <2>2. QED BY <1>1, <1>2, <2>1, OthersAnnounce DEF Aside
<1>7. Owed
  BY <1>1 DEF Owed
<1>8. QED BY <1>3, <1>5, <1>6, <1>7 DEF HostPart

\* The steps that give a uri a new version: an update writes, an addition inserts.
LEMMA NewVersionFacts ==
    ASSUME Typed, NEW u \in Uris, NewVersion(u)
    PROVE  /\ contents' \in [Uris -> Nat] /\ contents'[u] # 0
           /\ \A x \in Uris : contents[x] <= contents'[x] /\ (x # u => contents'[x] = contents[x])
           /\ \A x \in Uris : contents[x] # 0 => contents'[x] # 0
<1>1. contents \in [Uris -> Nat] /\ contents' = [contents EXCEPT ![u] = @ + 1]
  BY DEF Typed, NewVersion
<1>2. \A x \in Uris : contents[x] \in Nat /\ contents'[x] = IF x = u THEN contents[x] + 1 ELSE contents[x]
  BY <1>1
<1>3. QED BY <1>1, <1>2

LEMMA WriteStep ==
    ASSUME IInv, NEW w \in Writers, WriteContents(w)
    PROVE  HostPart
<1> DEFINE u == writer[w].uri
<1>1. /\ Typed /\ HostInv /\ writer[w].todo = UpdateSteps /\ writer[w] \in Busy /\ u \in Uris
      /\ UNCHANGED <<setting, resources, changes, log, receivers, wires, client>>
  BY AtFacts DEF IInv, WriteContents
<1>2. /\ writer' \in [Writers -> Busy \cup {IdleWriter}]
      /\ \A v \in Writers \ {w} : writer'[v] = writer[v]
      /\ \/ writer'[w] = IdleWriter /\ contents' = contents
         \/ writer'[w] = [todo |-> Written, uri |-> u] /\ contents[u] # 0 /\ NewVersion(u)
  <2>1. CASE contents[u] = 0
    BY <1>1, <2>1 DEF WriteContents, Finish, Typed
  <2>2. CASE contents[u] # 0
    BY <1>1, <2>2, DoneFacts DEF WriteContents
  <2>3. QED BY <2>1, <2>2
<1>3. /\ contents' \in [Uris -> Nat]
      /\ \A x \in Uris : contents[x] <= contents'[x] /\ (x # u => contents'[x] = contents[x])
      /\ \A x \in Uris : (contents[x] # 0) = (contents'[x] # 0)
  <2>1. CASE contents' = contents
    BY <1>1, <2>1 DEF Typed
  <2>2. CASE contents[u] # 0 /\ NewVersion(u)
    BY <1>1, <2>2, NewVersionFacts
  <2>3. QED BY <1>2, <2>1, <2>2
<1>4. Typed'
  BY <1>1, <1>2, <1>3 DEF Typed, receivers, wires
<1>5. ASSUME NEW v \in Writers PROVE ThreadOk(v)'
  <2>1. ThreadOk(v)
    BY <1>1 DEF HostInv
  <2>2. /\ \A x \in Writers : Adding(x)' <=> (Adding(x) /\ x # w)
        /\ writer'[w].todo \notin {AddSteps, Listed, Inserted}
    BY <1>1, <1>2, ThreadFacts DEF Adding, IdleWriter
  <2>3. writer[v].uri \in Uris \/ writer[v].todo = <<>>
    BY <1>1 DEF Typed, Busy, IdleWriter
  <2>4. CASE v = w
    BY <2>2, <2>4 DEF ThreadOk, Adding
  <2>5. CASE v # w
    BY <1>1, <1>2, <1>3, <2>1, <2>2, <2>3, <2>5, ThreadFacts DEF ThreadOk, Adding
  <2>6. QED BY <2>4, <2>5
<1>6. HostInv'
  <2>1. \A i \in DOMAIN log : log[i].uri \in Uris
    BY <1>1, LogFacts
  <2>2. QED BY <1>1, <1>3, <1>5, <2>1 DEF HostInv
<1>7. Aside
  BY <1>1, <1>2, <1>3, OthersAnnounce DEF Aside
<1>8. Owed
  <2>1. ASSUME NEW x \in Uris, contents'[x] # contents[x]
        PROVE  At(w, {"updated"})' /\ writer'[w].uri = x
    <3>1. x = u /\ writer'[w] = [todo |-> Written, uri |-> u]
      BY <1>1, <1>2, <1>3, <2>1
    <3>2. writer'[w].todo = Written /\ writer'[w].uri = x
      BY <3>1
    <3>3. Written # <<>> /\ Head(Written) = "updated"
      BY TodoFacts
    <3>4. QED BY <3>2, <3>3 DEF At
  <2>2. QED BY <1>3, <2>1 DEF Owed
<1>9. QED BY <1>4, <1>6, <1>7, <1>8 DEF HostPart

LEMMA InsertStep ==
    ASSUME IInv, NEW w \in Writers, InsertContents(w)
    PROVE  HostPart
<1> DEFINE u == writer[w].uri
<1>1. /\ Typed /\ HostInv /\ writer[w].todo = Listed /\ writer[w] \in Busy /\ u \in Uris
      /\ Done(w) /\ NewVersion(u)
      /\ UNCHANGED <<setting, resources, changes, log, receivers, wires, client>>
  BY AtFacts DEF IInv, InsertContents
<1>2. /\ writer' \in [Writers -> Busy \cup {IdleWriter}]
      /\ \A v \in Writers \ {w} : writer'[v] = writer[v]
      /\ writer'[w] = [todo |-> Inserted, uri |-> u]
  BY <1>1, DoneFacts
<1>3. /\ contents' \in [Uris -> Nat] /\ contents'[u] # 0
      /\ \A x \in Uris : contents[x] <= contents'[x] /\ (x # u => contents'[x] = contents[x])
      /\ \A x \in Uris : contents[x] # 0 => contents'[x] # 0
  BY <1>1, NewVersionFacts
<1>4. ThreadOk(w) /\ Adding(w) /\ u \in resources
  BY <1>1 DEF HostInv, Adding, ThreadOk
<1>5. Typed'
  BY <1>1, <1>2, <1>3 DEF Typed, receivers, wires
<1>6. ASSUME NEW v \in Writers PROVE ThreadOk(v)'
  <2>1. ThreadOk(v)
    BY <1>1 DEF HostInv
  <2>2. \A x \in Writers : Adding(x)' <=> (Adding(x) /\ x # w)
    BY <1>1, <1>2, ThreadFacts DEF Adding
  <2>3. writer[v].uri \in Uris \/ writer[v].todo = <<>>
    BY <1>1 DEF Typed, Busy, IdleWriter
  <2>4. CASE v = w
    BY <1>2, <1>3, <2>2, <2>4, ThreadFacts DEF ThreadOk
  <2>5. CASE v # w
    <3>1. writer'[v] = writer[v] /\ (writer'[v].todo = Listed => writer'[v].uri \in resources')
          /\ (writer'[v].todo = Inserted => contents'[writer'[v].uri] # 0)
      BY <1>1, <1>2, <1>3, <2>1, <2>3, <2>5, ThreadFacts DEF ThreadOk
    <3>2. ASSUME setting.again = "no", Adding(v)
          PROVE  contents'[writer'[v].uri] = 0
      <4>1. writer[v].uri # u /\ writer[v].uri \in Uris /\ contents[writer[v].uri] = 0
        BY <1>4, <2>1, <2>3, <2>5, <3>2, ThreadFacts DEF ThreadOk, Adding
      <4>2. QED BY <1>3, <3>1, <4>1
    <3>3. \A x \in Writers : Adding(x)' => Adding(x) /\ writer'[x].uri = writer[x].uri
      BY <1>2, <2>2
    <3>4. QED BY <1>1, <2>1, <2>2, <3>1, <3>2, <3>3 DEF ThreadOk
  <2>6. QED BY <2>4, <2>5
<1>7. HostInv'
  <2>1. \A i \in DOMAIN log : log[i].uri \in Uris
    BY <1>1, LogFacts
  <2>2. QED BY <1>1, <1>3, <1>4, <1>6, <2>1 DEF HostInv
<1>8. Aside
  BY <1>1, <1>2, <1>3, OthersAnnounce DEF Aside
<1>9. Owed
  <2>1. At(w, {"list_changed"})' /\ writer'[w].uri = u
    <3>1. Inserted # <<>> /\ Head(Inserted) = "list_changed"
      BY TodoFacts
    <3>2. writer'[w].todo = Inserted /\ writer'[w].uri = u
      BY <1>2
    <3>3. QED BY <3>1, <3>2 DEF At
  <2>2. setting.again = "yes" \/ setting.again = "no"
    BY <1>1, RegistryAssumption DEF Typed, IsSetting
  <2>3. setting.again = "no" => contents[u] = 0
    BY <1>4 DEF ThreadOk
  <2>4. QED BY <1>3, <2>1, <2>2, <2>3 DEF Owed
<1>10. QED BY <1>5, <1>7, <1>8, <1>9 DEF HostPart

\* The announcement itself passes from the thread to the sessions' channels.
LEMMA TellStep ==
    ASSUME IInv, NEW w \in Writers, Tell(w)
    PROVE  IInv'
<1> DEFINE e == Frame(Head(writer[w].todo), writer[w].uri)
<1>1. /\ Typed /\ HostInv /\ writer[w].todo \in {Written, Inserted} /\ writer[w] \in Busy
      /\ writer[w].uri \in Uris /\ Head(writer[w].todo) \in Notes /\ At(w, {Head(writer[w].todo)})
      /\ writer[w].todo = Written => Head(writer[w].todo) = "updated"
      /\ Done(w) /\ log' = Append(log, e)
      /\ UNCHANGED <<setting, shared, changes, receivers, wires, client>>
  <2>1. At(w, {"updated"}) \/ At(w, {"list_changed"})
    BY DEF Tell, At
  <2>2. QED BY <2>1, AtFacts, TodoFacts DEF IInv, Tell, At
<1>2. /\ writer' \in [Writers -> Busy \cup {IdleWriter}]
      /\ \A v \in Writers \ {w} : writer'[v] = writer[v]
      /\ writer'[w] = IdleWriter
  BY <1>1, DoneFacts
<1>3. e \in Events /\ e.type = Head(writer[w].todo) /\ e.uri = writer[w].uri
  <2>1. e \in Events
    BY <1>1 DEF Events
  <2>2. QED BY <2>1 DEF Frame
<1>4. /\ log' \in Seq(Events)
      /\ \A s \in Sessions : cursor'[s] <= Len(log') /\ Ahead(s)' = Ahead(s) \cup {e} /\ OnWay(s)' = OnWay(s)
      /\ \A i \in DOMAIN log' : log'[i] = e \/ (i \in DOMAIN log /\ log'[i] = log[i])
  BY <1>1, <1>3, Broadcast DEF receivers, OnWay, wires
<1>5. Typed'
  BY <1>1, <1>2, <1>4 DEF Typed, shared, receivers, wires
<1>6. HostInv'
  <2>1. ASSUME NEW v \in Writers PROVE ThreadOk(v)'
    <3>0. writer'[w].todo = <<>>
      BY <1>2 DEF IdleWriter
    <3>1. ThreadOk(v) /\ writer'[w].todo = <<>>
      BY <1>1, <3>0 DEF HostInv
    <3>2. \A x \in Writers : Adding(x)' => Adding(x) /\ x # w
      BY <1>2, <3>1, ThreadFacts DEF Adding
    <3>3. QED BY <1>1, <1>2, <3>1, <3>2, ThreadFacts DEF ThreadOk, shared
  <2>2. e.type = "list_changed" => contents[e.uri] # 0
    BY <1>1, <1>3 DEF HostInv, ThreadOk
  <2>3. QED BY <1>1, <1>4, <2>1, <2>2 DEF HostInv, shared
<1>7. CallInv'
  BY <1>1, <1>4 DEF IInv, CallInv, wires
<1>8. ClientInv'
  BY <1>1, <1>4 DEF IInv, ClientInv, ClientOk, FrameOk, shared, receivers
<1>9. \A s \in Sessions, y \in Notes, u \in Uris : Announced(s, y, u) => Announced(s, y, u)'
  <2> SUFFICES ASSUME NEW s \in Sessions, NEW y \in Notes, NEW u \in Uris, Announced(s, y, u)
               PROVE  Announced(s, y, u)'
    OBVIOUS
  <2>1. CASE Frame(y, u) \in Ahead(s) \cup OnWay(s)
    BY <1>4, <2>1 DEF Announced
  <2>2. ASSUME NEW v \in Writers, writer[v].uri = u, At(v, {y})
        PROVE  Announced(s, y, u)'
    <3>1. CASE v = w
      BY <1>4, <2>2, <3>1 DEF Announced, At
    <3>2. CASE v # w
      BY <1>2, <2>2, <3>2 DEF Announced, At
    <3>3. QED BY <3>1, <3>2
  <2>3. QED BY <2>1, <2>2 DEF Announced
<1>10. UpdateInv'
  <2> SUFFICES ASSUME NEW s \in Sessions \ lost, NEW u \in client[s].follows PROVE Told(s, u)'
    BY <1>1 DEF UpdateInv, receivers
  <2>1. Told(s, u) /\ u \in Uris
    BY <1>1, TypedFacts DEF IInv, UpdateInv, Clients
  <2>2. QED BY <1>1, <1>4, <1>9, <2>1 DEF Told, Notes, shared, wires
<1>11. ListInv'
  <2> SUFFICES ASSUME NEW s \in setting.sessions \ lost, NEW u \in Uris, contents[u] # 0
               PROVE  Shown(s, u)'
    BY <1>1 DEF ListInv, receivers, shared
  <2>1. Shown(s, u) /\ s \in Sessions
    BY RegistryAssumption DEF IInv, ListInv, Typed, IsSetting
  <2>2. QED BY <1>1, <1>4, <1>9, <2>1 DEF Shown, Notes, wires
<1>12. QED BY <1>5, <1>6, <1>7, <1>8, <1>10, <1>11 DEF IInv

-----------------------------------------------------------------------------
\* Sessions and clients

\* What the invariant says of one session.
SessionOk(s) ==
    /\ up[s] # NoRequest => \A f \in OnWay(s) : f.type \in Notes
    /\ OneAnswer(down[s])
    /\ ClientOk(s) /\ \A f \in OnWay(s) : FrameOk(s, f)
    /\ s \notin lost => \A u \in client[s].follows : Told(s, u)
    /\ s \in setting.sessions \ lost => \A u \in Uris : contents[u] # 0 => Shown(s, u)

LEMMA SessionParts ==
    ASSUME Typed
    PROVE  (CallInv /\ ClientInv /\ UpdateInv /\ ListInv) <=> \A s \in Sessions : SessionOk(s)
<1>1. setting.sessions \subseteq Sessions
  BY RegistryAssumption DEF Typed, IsSetting
<1>2. QED BY <1>1 DEF CallInv, ClientInv, UpdateInv, ListInv, SessionOk

\* A step of one session or its client leaves the others alone.
Apart(s) ==
    /\ UNCHANGED <<setting, shared, writer, changes, log>>
    /\ \A t \in Sessions \ {s} :
          /\ up'[t] = up[t] /\ down'[t] = down[t] /\ cursor'[t] = cursor[t]
          /\ subscribed'[t] = subscribed[t] /\ client'[t] = client[t] /\ (t \in lost' <=> t \in lost)

LEMMA SessionStep ==
    ASSUME IInv, NEW s \in Sessions, Apart(s), Typed', SessionOk(s)'
    PROVE  IInv'
<1>1. HostInv'
  BY DEF IInv, HostInv, ThreadOk, Adding, Apart, shared
<1>2. ASSUME NEW t \in Sessions \ {s}
      PROVE  SessionOk(t)'
  <2>1. SessionOk(t)
    BY SessionParts DEF IInv
  <2>2. OnWay(t)' = OnWay(t) /\ Ahead(t)' = Ahead(t)
    BY DEF Apart, OnWay, Ahead
  <2>3. \A y, u : Announced(t, y, u)' <=> Announced(t, y, u)
    BY <2>2 DEF Announced, At, Apart
  <2>4. ClientOk(t)' /\ \A f \in OnWay(t)' : FrameOk(t, f)'
    BY <2>1, <2>2 DEF SessionOk, ClientOk, FrameOk, Apart, shared
  <2>5. \A u : (Told(t, u)' <=> Told(t, u)) /\ (Shown(t, u)' <=> Shown(t, u))
    BY <2>2, <2>3 DEF Told, Shown, Apart, shared
  <2>6. QED BY <2>1, <2>2, <2>4, <2>5 DEF SessionOk, Apart, shared
<1>3. \A t \in Sessions : SessionOk(t)'
  BY <1>2
<1>4. (CallInv /\ ClientInv /\ UpdateInv /\ ListInv)'
  <2>1. setting'.sessions \subseteq Sessions
    BY RegistryAssumption DEF Typed, IsSetting
  <2>2. QED BY <1>3, <2>1 DEF CallInv, ClientInv, UpdateInv, ListInv, SessionOk
<1>5. QED BY <1>1, <1>4 DEF IInv

\* What each request gets for an answer.
Suits(r, a) ==
    /\ a \in Frames /\ a.type \in Answers
    /\ a.type \in {"subscribed", "unsubscribed", "contents"} => a.uri = r.uri /\ r.uri \in Uris
    /\ a.type = "subscribed" => contents[r.uri] # 0
    /\ a.type = "unsubscribed" => a = Frame("unsubscribed", r.uri)
    /\ a.type = "contents" => a.version = contents[r.uri]
    /\ IF a.type = "listing" THEN a.listing = resources ELSE a.listing = {}
    /\ r.type = "list" => a.type = "listing"
    /\ r.type = "read" /\ contents[r.uri] # 0 => a.type = "contents"
    /\ r.type = "unsubscribe" => a.type = "unsubscribed"

LEMMA AnswerFacts ==
    ASSUME Typed, NEW s \in Sessions, up[s] # NoRequest
    PROVE  Suits(up[s], Answer(s, up[s]))
<1> DEFINE r == up[s]
           a == Answer(s, r)
<1>1. r \in Requests /\ r # NoRequest /\ contents \in [Uris -> Nat] /\ resources \subseteq Uris
  BY TypedFacts DEF Typed
<1>2. CASE r = Frame("list", NoUri)
  <2>1. r.type = "list" /\ r.uri = NoUri
    BY <1>2 DEF Frame
  <2>2. a = [type |-> "listing", uri |-> NoUri, version |-> 0, listing |-> resources]
    BY <2>1 DEF Answer, Frame
  <2>3. QED BY <1>1, <2>1, <2>2 DEF Suits, Frames, Answers
<1>3. CASE r = Frame("ping", NoUri)
  <2>1. r.type = "ping" /\ r.uri = NoUri
    BY <1>3 DEF Frame
  <2>2. a = [type |-> "pong", uri |-> NoUri, version |-> 0, listing |-> {}]
    BY <2>1 DEF Answer, Frame
  <2>3. QED BY <1>1, <2>1, <2>2 DEF Suits, Frames, Answers
<1>4. ASSUME NEW u \in Uris, r = Frame("read", u)
      PROVE  Suits(r, a)
  <2>1. r.type = "read" /\ r.uri = u
    BY <1>4 DEF Frame
  <2>2. CASE contents[u] # 0
    <3>1. a = [type |-> "contents", uri |-> u, version |-> contents[u], listing |-> {}]
      BY <2>1, <2>2 DEF Answer, Frame
    <3>2. QED BY <1>1, <2>1, <2>2, <3>1 DEF Suits, Frames, Answers
  <2>3. CASE contents[u] = 0
    <3>1. a = [type |-> "not_found", uri |-> u, version |-> 0, listing |-> {}]
      BY <2>1, <2>3 DEF Answer, Frame
    <3>2. QED BY <1>1, <2>1, <2>3, <3>1 DEF Suits, Frames, Answers
  <2>4. QED BY <2>2, <2>3
<1>5. ASSUME NEW u \in Uris, r = Frame("subscribe", u)
      PROVE  Suits(r, a)
  <2>1. r.type = "subscribe" /\ r.uri = u
    BY <1>5 DEF Frame
  <2>2. CASE contents[u] # 0
    <3>1. a = [type |-> "subscribed", uri |-> u, version |-> 0, listing |-> {}]
      BY <2>1, <2>2 DEF Answer, Frame
    <3>2. QED BY <1>1, <2>1, <2>2, <3>1 DEF Suits, Frames, Answers
  <2>3. CASE contents[u] = 0
    <3>1. a = [type |-> "not_found", uri |-> u, version |-> 0, listing |-> {}]
      BY <2>1, <2>3 DEF Answer, Frame
    <3>2. QED BY <1>1, <2>1, <2>3, <3>1 DEF Suits, Frames, Answers
  <2>4. QED BY <2>2, <2>3
<1>6. ASSUME NEW u \in Uris, r = Frame("unsubscribe", u)
      PROVE  Suits(r, a)
  <2>1. r.type = "unsubscribe" /\ r.uri = u
    BY <1>6 DEF Frame
  <2>2. a = [type |-> "unsubscribed", uri |-> u, version |-> 0, listing |-> {}]
        /\ a = Frame("unsubscribed", u)
    BY <2>1 DEF Answer, Frame
  <2>3. QED BY <1>1, <2>1, <2>2 DEF Suits, Frames, Answers
<1>7. \/ r = Frame("list", NoUri) \/ r = Frame("ping", NoUri)
      \/ \E u \in Uris : r = Frame("read", u) \/ r = Frame("subscribe", u) \/ r = Frame("unsubscribe", u)
  BY <1>1 DEF Requests
<1>8. QED BY <1>2, <1>3, <1>4, <1>5, <1>6, <1>7

LEMMA ServeStep ==
    ASSUME IInv, NEW s \in Sessions, Serve(s)
    PROVE  IInv'
<1> DEFINE r == up[s]
           u == r.uri
           a == Answer(s, r)
<1>1. /\ Typed /\ HostInv /\ SessionOk(s) /\ r # NoRequest /\ Say(s, <<a>>)
      /\ subscribed' = CASE a.type = "subscribed" -> [subscribed EXCEPT ![s] = @ \cup {u}]
                          [] a.type = "unsubscribed" -> [subscribed EXCEPT ![s] = @ \ {u}]
                          [] OTHER -> subscribed
      /\ up' = [up EXCEPT ![s] = NoRequest]
      /\ UNCHANGED <<setting, shared, writer, changes, log, cursor, lost, client>>
  BY SessionParts DEF IInv, Serve
<1>2. contents \in [Uris -> Nat] /\ client[s] \in Clients /\ subscribed[s] \subseteq Uris
      /\ resources \subseteq Uris
  BY <1>1, TypedFacts DEF Typed
<1>3. Suits(r, a)
  BY <1>1, AnswerFacts
<1>4. a \in Frames /\ a.type \in Answers
  BY <1>3 DEF Suits
<1>5. /\ \A g \in OnWay(s) : g.type \in Notes
      /\ down' \in [Sessions -> Seq(Frames)] /\ OnWay(s)' = OnWay(s) \cup {a} /\ OneAnswer(down'[s])
      /\ \A t \in Sessions \ {s} : down'[t] = down[t]
  BY <1>1, <1>4, Said DEF SessionOk
<1>6. /\ subscribed' \in [Sessions -> SUBSET Uris]
      /\ \A t \in Sessions \ {s} : subscribed'[t] = subscribed[t]
      /\ a.type = "subscribed" => subscribed'[s] = subscribed[s] \cup {u}
      /\ a.type = "unsubscribed" => subscribed'[s] = subscribed[s] \ {u}
      /\ a.type \notin {"subscribed", "unsubscribed"} => subscribed'[s] = subscribed[s]
  <2>1. a.type \in {"subscribed", "unsubscribed"} => u \in Uris
    BY <1>3 DEF Suits
  <2>2. CASE a.type = "subscribed"
    BY <1>1, <2>1, <2>2 DEF Typed
  <2>3. CASE a.type = "unsubscribed"
    BY <1>1, <2>1, <2>3 DEF Typed
  <2>4. CASE a.type \notin {"subscribed", "unsubscribed"}
    BY <1>1, <2>4 DEF Typed
  <2>5. QED BY <2>2, <2>3, <2>4
<1>7. Typed'
  <2>0. NoRequest \in Requests
    BY DEF Requests
  <2>1. up' \in [Sessions -> Requests]
    BY <1>1, <2>0 DEF Typed
  <2>2. QED BY <1>1, <1>5, <1>6, <2>1 DEF Typed, shared
<1>8. Apart(s)
  BY <1>1, <1>5, <1>6 DEF Apart, Typed
<1>9. up'[s] = NoRequest /\ UNCHANGED <<setting, shared, writer, log, cursor, lost, client>>
  BY <1>1 DEF Typed
<1>10. ClientOk(s)'
  <2>1. \A v \in subscribed'[s] : contents[v] # 0
    <3>1. \A v \in subscribed[s] : contents[v] # 0
      BY <1>1 DEF SessionOk, ClientOk
    <3>2. QED BY <1>3, <1>6, <3>1 DEF Suits
  <2>2. ASSUME NEW v \in client[s].follows, v \in subscribed[s], v \notin subscribed'[s]
        PROVE  Frame("unsubscribed", v) \in OnWay(s)'
    BY <1>3, <1>5, <1>6, <2>2 DEF Suits
  <2>3. QED BY <1>1, <1>5, <1>9, <2>1, <2>2 DEF SessionOk, ClientOk, shared
<1>11. ASSUME NEW f \in OnWay(s)'
       PROVE  FrameOk(s, f)'
  <2>1. CASE f \in OnWay(s)
    <3>1. f.type \in Notes /\ FrameOk(s, f)
      BY <1>1, <1>5, <2>1 DEF SessionOk
    <3>2. QED BY <1>9, <3>1 DEF FrameOk, Notes, shared
  <2>2. CASE f = a
    <3>1. CASE a.type = "listing"
      BY <1>1, <1>3, <1>9, <2>2, <3>1 DEF FrameOk, Suits, SessionOk, ClientOk, shared
    <3>2. CASE a.type = "contents"
      <4>1. a.uri \in Uris /\ a.version = contents[a.uri] /\ a.listing = {}
        BY <1>3, <3>2 DEF Suits
      <4>2. client[s].known[a.uri] <= contents[a.uri] /\ contents[a.uri] \in Nat
        BY <1>1, <1>2, <4>1 DEF SessionOk, ClientOk
      <4>3. QED BY <1>9, <2>2, <3>2, <4>1, <4>2 DEF FrameOk, shared
    <3>3. CASE a.type \notin {"listing", "contents"}
      BY <1>3, <1>6, <2>2, <3>3 DEF FrameOk, Suits, Answers
    <3>4. QED BY <3>1, <3>2, <3>3
  <2>3. QED BY <1>5, <2>1, <2>2
<1>12. \A y \in Notes : \A v : Announced(s, y, v) => Announced(s, y, v)'
  BY <1>5, <1>9 DEF Announced, At, Ahead
<1>13. ASSUME s \notin lost, NEW v \in client[s].follows
       PROVE  Told(s, v)'
  <2>1. Told(s, v) /\ contents[v] # 0 /\ v \in Uris
    BY <1>1, <1>2, <1>13 DEF SessionOk, ClientOk, Clients
  <2>2. CASE r = Frame("read", v)
    <3>1. r.type = "read" /\ u = v
      BY <2>2 DEF Frame
    <3>2. a.type = "contents" /\ a.uri = v /\ a.version = contents[v]
      BY <1>3, <2>1, <3>1 DEF Suits
    <3>3. QED BY <1>5, <1>9, <3>2 DEF Told, shared
  <2>3. CASE r = Frame("unsubscribe", v)
    <3>1. r.type = "unsubscribe" /\ u = v
      BY <2>3 DEF Frame
    <3>2. a = Frame("unsubscribed", v)
      BY <1>3, <3>1 DEF Suits
    <3>3. QED BY <1>5, <3>2 DEF Told
  <2>4. CASE r # Frame("read", v) /\ r # Frame("unsubscribe", v)
    BY <1>5, <1>9, <1>12, <2>1, <2>4 DEF Told, shared, Notes
  <2>5. QED BY <2>2, <2>3, <2>4
<1>14. ASSUME s \in setting.sessions \ lost, NEW v \in Uris, contents[v] # 0
       PROVE  Shown(s, v)'
  <2>1. Shown(s, v) /\ v \in resources
    BY <1>1, <1>14 DEF SessionOk, HostInv
  <2>2. CASE r.type = "list"
    <3>1. v \in a.listing
      BY <1>3, <2>1, <2>2 DEF Suits
    <3>2. QED BY <1>5, <3>1 DEF Shown
  <2>3. CASE r.type # "list"
    BY <1>5, <1>9, <1>12, <2>1, <2>3 DEF Shown, Notes
  <2>4. QED BY <2>2, <2>3
<1>15. SessionOk(s)'
  BY <1>5, <1>9, <1>10, <1>11, <1>13, <1>14 DEF SessionOk, shared
<1>16. QED BY <1>7, <1>8, <1>15, SessionStep

LEMMA ReceiveEventStep ==
    ASSUME IInv, NEW s \in Sessions, ReceiveEvent(s)
    PROVE  IInv'
<1> DEFINE e == log[cursor[s] + 1]
<1>1. /\ Typed /\ HostInv /\ SessionOk(s) /\ Backlog(s) >= 1 /\ Say(s, Pushed(s, e))
      /\ cursor' = [cursor EXCEPT ![s] = @ + 1]
      /\ UNCHANGED <<setting, shared, writer, changes, log, lost, subscribed, up, client>>
  BY SessionParts DEF IInv, ReceiveEvent
<1>2. /\ cursor' \in [Sessions -> Nat] /\ \A t \in Sessions : cursor'[t] <= Len(log)
      /\ e \in Events /\ e \in Frames /\ Ahead(s) = {e} \cup Ahead(s)'
  BY <1>1, Received, FrameFacts
<1>3. e.type \in Notes /\ e.uri \in Uris /\ e = Frame(e.type, e.uri) /\ e.listing = {}
  <2>1. PICK y \in Notes, u \in Uris : e = Frame(y, u)
    BY <1>2 DEF Events
  <2>2. e.type = y /\ e.uri = u /\ e.listing = {}
    BY <2>1 DEF Frame
  <2>3. QED BY <2>1, <2>2
<1>4. /\ down' \in [Sessions -> Seq(Frames)] /\ OneAnswer(down'[s])
      /\ \A t \in Sessions \ {s} : down'[t] = down[t]
      /\ \/ OnWay(s)' = OnWay(s) \cup {e}
         \/ OnWay(s)' = OnWay(s) /\ e.type = "updated" /\ e.uri \notin subscribed[s]
  <2>1. CASE e.type = "list_changed" \/ e.uri \in subscribed[s]
    <3>1. Say(s, <<e>>)
      BY <1>1, <2>1 DEF Pushed
    <3>2. QED BY <1>1, <1>2, <1>3, <3>1, Said DEF SessionOk
  <2>2. CASE ~(e.type = "list_changed" \/ e.uri \in subscribed[s])
    <3>1. Pushed(s, e) = <<>> /\ down[s] \in Seq(Frames)
      BY <1>1, <2>2 DEF Pushed, Typed
    <3>2. down' = [down EXCEPT ![s] = down[s]]
      BY <1>1, <3>1, ConcatEmptySeq DEF Say
    <3>3. down' = down
      BY <1>1, <3>2 DEF Typed
    <3>4. QED BY <1>1, <1>3, <2>2, <3>3 DEF SessionOk, OnWay, Typed, Notes
  <2>3. QED BY <2>1, <2>2
<1>5. Typed'
  BY <1>1, <1>2, <1>4 DEF Typed, shared
<1>6. Apart(s)
  BY <1>1, <1>4 DEF Apart, Typed
<1>7. \A f \in OnWay(s)' : f \in OnWay(s) \/ f = e
  BY <1>4
<1>8. ClientOk(s)'
  BY <1>1, <1>4 DEF SessionOk, ClientOk, shared
<1>9. \A f \in OnWay(s)' : FrameOk(s, f)'
  <2>1. FrameOk(s, e)
    BY <1>3 DEF FrameOk, Notes
  <2>2. \A f \in OnWay(s)' : FrameOk(s, f)
    BY <1>1, <1>7, <2>1 DEF SessionOk
  <2>3. QED BY <1>1, <2>2 DEF FrameOk, shared
<1>10. ASSUME NEW y \in Notes, NEW v \in Uris, Announced(s, y, v)
       PROVE  Announced(s, y, v)' \/ (y = "updated" /\ v \notin subscribed[s])
  <2>1. CASE \E w \in Writers : writer[w].uri = v /\ At(w, {y})
    BY <1>1, <2>1 DEF Announced, At
  <2>2. CASE Frame(y, v) \in Ahead(s)' \cup OnWay(s)
    BY <1>4, <2>2 DEF Announced
  <2>3. CASE Frame(y, v) = e
    <3>1. e.type = y /\ e.uri = v
      BY <2>3 DEF Frame
    <3>2. QED BY <1>4, <2>3, <3>1 DEF Announced
  <2>4. QED BY <1>2, <1>10, <2>1, <2>2, <2>3 DEF Announced
<1>11. ASSUME s \notin lost, NEW v \in client[s].follows
       PROVE  Told(s, v)'
  <2>1. /\ Told(s, v) /\ v \in Uris /\ "updated" \in Notes
        /\ v \in subscribed[s] \/ Frame("unsubscribed", v) \in OnWay(s)
    BY <1>1, <1>11, TypedFacts DEF SessionOk, ClientOk, Clients, Notes
  <2>2. CASE Frame("unsubscribed", v) \in OnWay(s)
    BY <1>4, <2>2 DEF Told
  <2>3. CASE v \in subscribed[s]
    BY <1>1, <1>4, <1>10, <2>1, <2>3 DEF Told, shared
  <2>4. QED BY <2>1, <2>2, <2>3
<1>12. ASSUME s \in setting.sessions \ lost, NEW v \in Uris, contents[v] # 0
       PROVE  Shown(s, v)'
  <2>1. Shown(s, v) /\ "list_changed" \in Notes
    BY <1>1, <1>12 DEF SessionOk, Notes
  <2>2. QED BY <1>1, <1>4, <1>10, <2>1 DEF Shown
<1>13. up[s] # NoRequest => \A f \in OnWay(s)' : f.type \in Notes
  BY <1>1, <1>3, <1>7 DEF SessionOk
<1>14. SessionOk(s)'
  BY <1>1, <1>4, <1>8, <1>9, <1>11, <1>12, <1>13 DEF SessionOk, shared
<1>15. QED BY <1>5, <1>6, <1>14, SessionStep

LEMMA SkipLostStep ==
    ASSUME IInv, NEW s \in Sessions, SkipLost(s)
    PROVE  IInv'
<1>1. /\ Typed /\ SessionOk(s) /\ lost' = lost \cup {s}
      /\ cursor' = [cursor EXCEPT ![s] = Len(log) - EventCap] /\ Backlog(s) > EventCap
      /\ UNCHANGED <<setting, shared, writer, changes, log, subscribed, wires, client>>
  BY SessionParts DEF IInv, SkipLost
<1>2. cursor' \in [Sessions -> Nat] /\ \A t \in Sessions : cursor'[t] <= Len(log)
  <2>1. Len(log) \in Nat /\ EventCap \in Nat \ {0} /\ cursor[s] \in Nat
    BY <1>1, LenProperties, RegistryAssumption DEF Typed
  <2>2. Len(log) - EventCap \in Nat /\ Len(log) - EventCap <= Len(log)
    BY <1>1, <2>1 DEF Backlog
  <2>3. QED BY <1>1, <2>2 DEF Typed
<1>3. Typed'
  BY <1>1, <1>2 DEF Typed, shared, wires
<1>4. Apart(s)
  BY <1>1 DEF Apart, Typed, wires
<1>5. OnWay(s)' = OnWay(s) /\ s \in lost'
  BY <1>1 DEF OnWay, wires
<1>6. ClientOk(s)' /\ \A f \in OnWay(s)' : FrameOk(s, f)'
  BY <1>1, <1>5 DEF SessionOk, ClientOk, FrameOk, shared
<1>7. SessionOk(s)'
  BY <1>1, <1>5, <1>6 DEF SessionOk, wires
<1>8. QED BY <1>3, <1>4, <1>7, SessionStep

\* A call of the client, and what it notes of it.
LEMMA CallStep ==
    ASSUME IInv, NEW s \in Sessions, NEW type, NEW u, Call(s, type, u),
           Frame(type, u) \in Requests \ {NoRequest},
           NEW d \in Clients, client' = [client EXCEPT ![s] = d],
           d.known = client[s].known, d.follows = client[s].follows, d.listing = client[s].listing,
           d.stale \subseteq client[s].stale,
           \A v \in client[s].stale \ d.stale : type = "read" /\ v = u,
           d.relist = client[s].relist \/ type = "list"
    PROVE  IInv'
<1>1. /\ Typed /\ HostInv /\ SessionOk(s) /\ ~InCall(s) /\ up' = [up EXCEPT ![s] = Frame(type, u)]
      /\ UNCHANGED <<setting, shared, writer, changes, log, receivers, down>>
  BY SessionParts DEF IInv, Call
<1>2. up[s] = NoRequest /\ \A f \in OnWay(s) : f.type \in Notes
  BY <1>1 DEF InCall, OnWay, Notes
<1>3. Typed'
  BY <1>1 DEF Typed, shared, receivers
<1>4. Apart(s)
  BY <1>1 DEF Apart, Typed, receivers
<1>5. /\ OnWay(s)' = OnWay(s) /\ Ahead(s)' = Ahead(s) /\ client'[s] = d
      /\ up'[s] = Frame(type, u) /\ up'[s].type = type
  BY <1>1 DEF OnWay, Ahead, receivers, Typed, Frame
<1>6. \A y, v : Announced(s, y, v)' <=> Announced(s, y, v)
  BY <1>1, <1>5 DEF Announced, At
<1>7. ClientOk(s)'
  BY <1>1, <1>5 DEF SessionOk, ClientOk, shared, receivers
<1>8. \A f \in OnWay(s)' : FrameOk(s, f)'
  BY <1>1, <1>5 DEF SessionOk, FrameOk, shared, receivers
<1>9. ASSUME s \notin lost, NEW v \in client[s].follows
      PROVE  Told(s, v)'
  <2>1. Told(s, v) /\ up[s] # Frame("read", v) /\ up[s] # Frame("unsubscribe", v)
    BY <1>1, <1>2, <1>9 DEF SessionOk, NoRequest, Frame
  <2>2. CASE v \in client[s].stale \ d.stale
    BY <1>5, <2>2 DEF Told
  <2>3. CASE v \notin client[s].stale \ d.stale
    BY <1>1, <1>5, <1>6, <2>1, <2>3 DEF Told, shared
  <2>4. QED BY <2>2, <2>3
<1>10. ASSUME s \in setting.sessions \ lost, NEW v \in Uris, contents[v] # 0
       PROVE  Shown(s, v)'
  <2>1. Shown(s, v) /\ up[s].type # "list"
    BY <1>1, <1>2, <1>10 DEF SessionOk, NoRequest, Frame
  <2>2. QED BY <1>1, <1>5, <1>6, <2>1 DEF Shown
<1>11. SessionOk(s)'
  BY <1>1, <1>2, <1>5, <1>7, <1>8, <1>9, <1>10 DEF SessionOk, shared, receivers
<1>12. QED BY <1>3, <1>4, <1>11, SessionStep

LEMMA ClientCallStep ==
    ASSUME IInv, NEW s \in Sessions, ReadStale(s) \/ ReList(s) \/ Ping(s) \/ Choose(s)
    PROVE  IInv'
<1> DEFINE c == client[s]
<1>1. /\ Typed /\ c \in Clients /\ c.stale \subseteq Uris /\ c.follows \subseteq Uris /\ c.listing \subseteq Uris
  BY TypedFacts DEF IInv, Clients
<1>2. /\ Frame("list", NoUri) \in Requests \ {NoRequest} /\ Frame("ping", NoUri) \in Requests \ {NoRequest}
      /\ \A u \in Uris, y \in {"read", "subscribe", "unsubscribe"} :
            Frame(y, u) \in Requests \ {NoRequest}
  <2>1. \A y, u : y # "none" => Frame(y, u) # NoRequest
    BY DEF NoRequest, Frame
  <2>2. QED BY <2>1 DEF Requests
<1>3. CASE ReadStale(s)
  <2>1. PICK u \in c.stale : Call(s, "read", u) /\ client' = [client EXCEPT ![s].stale = @ \ {u}]
    BY <1>3 DEF ReadStale
  <2> DEFINE d == [c EXCEPT !.stale = @ \ {u}]
  <2>2. d \in Clients /\ d.known = c.known /\ d.follows = c.follows /\ d.listing = c.listing
        /\ d.stale = c.stale \ {u} /\ d.relist = c.relist
    BY <1>1 DEF Clients
  <2>3. client' = [client EXCEPT ![s] = d]
    BY <2>1
  <2> HIDE DEF d
  <2>4. QED BY <1>1, <1>2, <2>1, <2>2, <2>3, CallStep
<1>4. CASE ReList(s)
  <2> DEFINE d == [c EXCEPT !.relist = "no"]
  <2>1. d \in Clients /\ d.known = c.known /\ d.follows = c.follows /\ d.listing = c.listing
        /\ d.stale = c.stale
    BY <1>1 DEF Clients
  <2>2. client' = [client EXCEPT ![s] = d] /\ Call(s, "list", NoUri)
    BY <1>4 DEF ReList
  <2> HIDE DEF d
  <2>3. QED BY <1>2, <2>1, <2>2, CallStep
<1>5. CASE Ping(s)
  <2>1. client' = [client EXCEPT ![s] = c] /\ Call(s, "ping", NoUri)
    BY <1>1, <1>5 DEF Ping, Typed
  <2>2. QED BY <1>1, <1>2, <2>1, CallStep
<1>6. CASE Choose(s)
  <2>1. PICK u \in Uris, y \in {"subscribe", "unsubscribe"} : Call(s, y, u)
    BY <1>1, <1>6 DEF Choose
  <2> DEFINE d == [c EXCEPT !.choices = @ + 1]
  <2>2. d \in Clients /\ d.known = c.known /\ d.follows = c.follows /\ d.listing = c.listing
        /\ d.stale = c.stale /\ d.relist = c.relist
    BY <1>1 DEF Clients
  <2>3. client' = [client EXCEPT ![s] = d]
    BY <1>6 DEF Choose
  <2> HIDE DEF d
  <2>4. QED BY <1>2, <2>1, <2>2, <2>3, CallStep
<1>7. QED BY <1>3, <1>4, <1>5, <1>6

\* What a frame changes of what a client knows.
Noted(c, f, d) ==
    /\ d \in Clients
    /\ d.known = IF f.type = "contents" THEN [c.known EXCEPT ![f.uri] = f.version] ELSE c.known
    /\ d.listing = IF f.type = "listing" THEN f.listing ELSE c.listing
    /\ d.relist = IF f.type = "list_changed" THEN "yes" ELSE c.relist
    /\ d.follows = CASE f.type = "subscribed" -> c.follows \cup {f.uri}
                     [] f.type = "unsubscribed" -> c.follows \ {f.uri}
                     [] OTHER -> c.follows
    /\ d.stale = CASE f.type = "updated" -> c.stale \cup ({f.uri} \cap c.follows)
                   [] f.type = "subscribed" -> c.stale \cup {f.uri}
                   [] f.type = "unsubscribed" -> c.stale \ {f.uri}
                   [] OTHER -> c.stale

LEMMA HearFacts ==
    ASSUME IInv, NEW s \in Sessions, Hear(s)
    PROVE  /\ down[s] # <<>> /\ down' = [down EXCEPT ![s] = Tail(@)]
           /\ UNCHANGED <<setting, shared, writer, changes, log, receivers, up>>
           /\ \E d : client' = [client EXCEPT ![s] = d] /\ Noted(client[s], Head(down[s]), d)
<1> DEFINE f == Head(down[s])
           c == client[s]
           d == CASE f.type = "updated" -> [c EXCEPT !.stale = @ \cup ({f.uri} \cap c.follows)]
                  [] f.type = "list_changed" -> [c EXCEPT !.relist = "yes"]
                  [] f.type = "listing" -> [c EXCEPT !.listing = f.listing]
                  [] f.type = "contents" -> [c EXCEPT !.known[f.uri] = f.version]
                  [] f.type = "subscribed" -> [c EXCEPT !.follows = @ \cup {f.uri}, !.stale = @ \cup {f.uri}]
                  [] f.type = "unsubscribed" -> [c EXCEPT !.follows = @ \ {f.uri}, !.stale = @ \ {f.uri}]
                  [] OTHER -> c
<1>1. /\ down[s] # <<>> /\ down' = [down EXCEPT ![s] = Tail(@)] /\ client' = [client EXCEPT ![s] = d]
      /\ UNCHANGED <<setting, shared, writer, changes, log, receivers, up>>
  BY DEF Hear
<1> SUFFICES Noted(c, f, d)
  BY <1>1
<1>2. /\ c \in Clients /\ f \in Frames
      /\ f.type \in {"subscribed", "unsubscribed", "contents"} => f.uri \in Uris
  <2>1. f \in Frames /\ f \in OnWay(s)
    BY <1>1, Heard DEF IInv
  <2>2. QED BY <2>1, TypedFacts DEF IInv, ClientInv, FrameOk
<1>3. f.type \in Notes \cup Answers /\ f.version \in Nat /\ f.listing \subseteq Uris
  BY <1>2 DEF Frames
<1>4. CASE f.type = "updated"
  <2>1. d = [c EXCEPT !.stale = @ \cup ({f.uri} \cap c.follows)]
    BY <1>4
  <2>2. QED BY <1>1, <1>2, <1>4, <2>1 DEF Noted, Clients
<1>5. CASE f.type = "list_changed"
  <2>1. d = [c EXCEPT !.relist = "yes"]
    BY <1>5
  <2>2. QED BY <1>1, <1>2, <1>5, <2>1 DEF Noted, Clients
<1>6. CASE f.type = "listing"
  <2>1. d = [c EXCEPT !.listing = f.listing]
    BY <1>6
  <2>2. QED BY <1>1, <1>2, <1>3, <1>6, <2>1 DEF Noted, Clients
<1>7. CASE f.type = "contents"
  <2>1. d = [c EXCEPT !.known[f.uri] = f.version]
    BY <1>7
  <2>2. QED BY <1>1, <1>2, <1>3, <1>7, <2>1 DEF Noted, Clients
<1>8. CASE f.type = "subscribed"
  <2>1. d = [c EXCEPT !.follows = @ \cup {f.uri}, !.stale = @ \cup {f.uri}]
    BY <1>8
  <2>2. QED BY <1>1, <1>2, <1>8, <2>1 DEF Noted, Clients
<1>9. CASE f.type = "unsubscribed"
  <2>1. d = [c EXCEPT !.follows = @ \ {f.uri}, !.stale = @ \ {f.uri}]
    BY <1>9
  <2>2. QED BY <1>1, <1>2, <1>9, <2>1 DEF Noted, Clients
<1>10. CASE f.type \in {"not_found", "pong"}
  <2>1. d = c
    BY <1>10
  <2>2. QED BY <1>1, <1>2, <1>10, <2>1 DEF Noted, Clients
<1>11. QED BY <1>1, <1>3, <1>4, <1>5, <1>6, <1>7, <1>8, <1>9, <1>10 DEF Notes, Answers

LEMMA HearStep ==
    ASSUME IInv, NEW s \in Sessions, Hear(s)
    PROVE  IInv'
<1> DEFINE f == Head(down[s])
           c == client[s]
<1>1. PICK d : client' = [client EXCEPT ![s] = d] /\ Noted(c, f, d)
  BY HearFacts
<1>2. /\ Typed /\ HostInv /\ SessionOk(s) /\ down[s] # <<>> /\ down' = [down EXCEPT ![s] = Tail(@)]
      /\ UNCHANGED <<setting, shared, writer, changes, log, receivers, up>>
  BY HearFacts, SessionParts DEF IInv
<1>3. /\ d \in Clients /\ c \in Clients /\ client'[s] = d
      /\ down' \in [Sessions -> Seq(Frames)] /\ f \in Frames /\ OneAnswer(down'[s])
      /\ OnWay(s) = {f} \cup OnWay(s)' /\ FrameOk(s, f)
      /\ \A t \in Sessions \ {s} : down'[t] = down[t]
  BY <1>1, <1>2, Heard, TypedFacts DEF Noted, SessionOk, Typed
<1>4. f.type \in Answers => /\ up[s] = NoRequest
                          /\ \A g \in OnWay(s)' : g.type \in Notes
  BY <1>2, <1>3, Heard, FrameFacts DEF SessionOk
<1>5. f.type \in Notes \/ f.type \in Answers
  BY <1>3 DEF Frames
<1>6. Typed'
  BY <1>1, <1>2, <1>3 DEF Typed, shared, receivers
<1>7. Apart(s)
  BY <1>1, <1>2, <1>3 DEF Apart, Typed, receivers
<1>8. UNCHANGED <<setting, resources, contents, writer, log, cursor, lost, subscribed, up>>
  BY <1>2 DEF shared, receivers
<1>9. ASSUME NEW y \in Notes, NEW v, Announced(s, y, v)
      PROVE  Announced(s, y, v)' \/ (f.type = y /\ f.uri = v)
  <2>1. Frame(y, v) = f => f.type = y /\ f.uri = v
    BY DEF Frame
  <2>2. QED BY <1>3, <1>8, <1>9, <2>1 DEF Announced, At, Ahead
<1>10. /\ c.stale \subseteq c.follows /\ c.follows \subseteq Uris /\ contents \in [Uris -> Nat]
       /\ c.known \in [Uris -> Nat] /\ f.version \in Nat
  BY <1>2, <1>3 DEF SessionOk, ClientOk, Clients, Typed, Frames
<1>11. ClientOk(s)'
  <2>1. d.stale \subseteq d.follows
    BY <1>1, <1>10 DEF Noted
  <2>2. d.listing \subseteq resources
    BY <1>1, <1>2, <1>3 DEF Noted, SessionOk, ClientOk, FrameOk
  <2>3. \A u \in Uris : d.known[u] <= contents[u]
    <3>1. \A u \in Uris : c.known[u] <= contents[u]
      BY <1>2 DEF SessionOk, ClientOk
    <3>2. CASE f.type = "contents"
      BY <1>1, <1>3, <1>10, <3>1, <3>2 DEF Noted, FrameOk
    <3>3. CASE f.type # "contents"
      BY <1>1, <3>1, <3>3 DEF Noted
    <3>4. QED BY <3>2, <3>3
  <2>4. ASSUME NEW u \in d.follows
        PROVE  contents[u] # 0 /\ (u \in subscribed[s] \/ Frame("unsubscribed", u) \in OnWay(s)')
    <3>1. CASE f.type = "subscribed" /\ u = f.uri
      BY <1>2, <1>3, <3>1 DEF FrameOk, SessionOk, ClientOk
    <3>2. CASE ~(f.type = "subscribed" /\ u = f.uri)
      <4>1. u \in c.follows /\ ~(f.type = "unsubscribed" /\ u = f.uri)
        BY <1>1, <2>4, <3>2 DEF Noted
      <4>2. f # Frame("unsubscribed", u)
        BY <4>1 DEF Frame
      <4>3. QED BY <1>2, <1>3, <4>1, <4>2 DEF SessionOk, ClientOk
    <3>3. QED BY <3>1, <3>2
  <2>5. \A u \in subscribed[s] : contents[u] # 0
    BY <1>2 DEF SessionOk, ClientOk
  <2>6. QED BY <1>3, <1>8, <2>1, <2>2, <2>3, <2>4, <2>5 DEF ClientOk
<1>12. ASSUME NEW g \in OnWay(s)'
       PROVE  FrameOk(s, g)'
  <2>1. FrameOk(s, g)
    BY <1>2, <1>3 DEF SessionOk
  <2>2. CASE f.type \in Notes
    <3>1. d.known = c.known /\ d.listing = c.listing
      BY <1>1, <2>2 DEF Noted, Notes
    <3>2. QED BY <1>3, <1>8, <2>1, <3>1 DEF FrameOk
  <2>3. CASE f.type \in Answers
    <3>1. g.type \in Notes
      BY <1>4, <2>3
    <3>2. QED BY <1>8, <2>1, <3>1 DEF FrameOk, Notes
  <2>4. QED BY <1>5, <2>2, <2>3
<1>13. ASSUME s \notin lost, NEW v \in d.follows
       PROVE  Told(s, v)'
  <2>1. CASE v \in d.stale
    BY <1>3, <2>1 DEF Told
  <2>2. CASE v \notin d.stale
    <3>1. /\ v \in c.follows /\ v \notin c.stale /\ ~(f.type = "unsubscribed" /\ v = f.uri)
          /\ ~(f.type = "updated" /\ v = f.uri)
      BY <1>1, <1>13, <2>2 DEF Noted
    <3>2. Told(s, v) /\ v \in Uris /\ f # Frame("unsubscribed", v)
      BY <1>2, <1>10, <1>13, <3>1 DEF SessionOk, Frame
    <3>3. CASE f.type = "contents" /\ f.uri = v /\ f.version = contents[v]
      <4>1. d.known[v] = contents[v]
        BY <1>1, <1>10, <3>2, <3>3 DEF Noted
      <4>2. QED BY <1>3, <1>8, <4>1 DEF Told
    <3>4. CASE ~(f.type = "contents" /\ f.uri = v /\ f.version = contents[v])
      <4>1. c.known[v] = contents[v] => d.known[v] = contents[v]
        <5>1. f.type = "contents" /\ f.uri = v => c.known[v] <= f.version /\ f.version <= contents[v]
          BY <1>3 DEF FrameOk
        <5>2. d.known = c.known \/ (d.known = [c.known EXCEPT ![f.uri] = f.version] /\ f.type = "contents")
          BY <1>1 DEF Noted
        <5>3. c.known[v] \in Nat /\ contents[v] \in Nat /\ f.version \in Nat
          BY <1>10, <3>2
        <5>4. QED BY <1>10, <3>2, <3>4, <5>1, <5>2, <5>3
      <4>2. Announced(s, "updated", v) => Announced(s, "updated", v)'
        BY <1>9, <3>1 DEF Notes
      <4>3. QED BY <1>3, <1>8, <3>1, <3>2, <3>4, <4>1, <4>2 DEF Told
    <3>5. QED BY <3>3, <3>4
  <2>3. QED BY <2>1, <2>2
<1>14. ASSUME s \in setting.sessions \ lost, NEW v \in Uris, contents[v] # 0
       PROVE  Shown(s, v)'
  <2>1. Shown(s, v)
    BY <1>2, <1>14 DEF SessionOk
  <2>2. CASE f.type = "list_changed"
    BY <1>1, <1>3, <2>2 DEF Noted, Shown
  <2>3. CASE f.type = "listing"
    <3>1. d.listing = f.listing /\ d.relist = c.relist /\ c.listing \subseteq f.listing
      BY <1>1, <1>3, <2>3 DEF Noted, FrameOk
    <3>2. Announced(s, "list_changed", v) => Announced(s, "list_changed", v)'
      BY <1>9, <2>3 DEF Notes
    <3>3. QED BY <1>3, <1>8, <2>1, <3>1, <3>2 DEF Shown
  <2>4. CASE f.type \notin {"list_changed", "listing"}
    <3>1. d.listing = c.listing /\ d.relist = c.relist /\ f.listing = {}
      BY <1>1, <1>3, <2>4 DEF Noted, FrameOk
    <3>2. Announced(s, "list_changed", v) => Announced(s, "list_changed", v)'
      BY <1>9, <2>4 DEF Notes
    <3>3. QED BY <1>3, <1>8, <2>1, <3>1, <3>2 DEF Shown
  <2>5. QED BY <2>2, <2>3, <2>4
<1>15. SessionOk(s)'
  <2>1. up[s] # NoRequest => \A g \in OnWay(s)' : g.type \in Notes
    BY <1>2, <1>3 DEF SessionOk
  <2>2. QED BY <1>3, <1>8, <1>11, <1>12, <1>13, <1>14, <2>1 DEF SessionOk
<1>16. QED BY <1>6, <1>7, <1>15, SessionStep

-----------------------------------------------------------------------------
\* The theorems

LEMMA NextIInv == IInv /\ [Next]_vars => IInv'
<1> SUFFICES ASSUME IInv, [Next]_vars PROVE IInv'
  OBVIOUS
<1>1. ASSUME HostPart PROVE IInv'
  BY <1>1, HostStep DEF HostPart, IInv
<1>2. CASE UNCHANGED vars
  <2>1. \A s \in Sessions : OnWay(s)' = OnWay(s) /\ Ahead(s)' = Ahead(s)
    BY <1>2 DEF OnWay, Ahead, vars, receivers, wires
  <2>2. Typed'
    BY <1>2 DEF IInv, Typed, vars, shared, receivers, wires
  <2>3. HostInv'
    BY <1>2 DEF IInv, HostInv, ThreadOk, Adding, vars, shared
  <2>4. Aside /\ Owed
    <3>1. contents \in [Uris -> Nat]
      BY DEF IInv, Typed
    <3>2. QED BY <1>2, <3>1 DEF Aside, Owed, vars, shared, At
  <2>5. QED BY <1>1, <2>2, <2>3, <2>4 DEF HostPart
<1>3. ASSUME NEW w \in Writers, Host(w) PROVE IInv'
  BY <1>1, <1>3, PushToListStep, WriteStep, InsertStep, TellStep DEF Host
<1>4. ASSUME NEW w \in Writers, NEW u \in Uris, Begin(w, u) PROVE IInv'
  BY <1>1, <1>4, BeginStep
<1>5. ASSUME NEW s \in Sessions, Serve(s) PROVE IInv'
  BY <1>5, ServeStep
<1>6. ASSUME NEW s \in Sessions, Receive(s) PROVE IInv'
  BY <1>6, ReceiveEventStep, SkipLostStep DEF Receive
<1>7. ASSUME NEW s \in Sessions, Dutiful(s) \/ Choose(s) PROVE IInv'
  BY <1>7, ClientCallStep, HearStep DEF Dutiful
<1>8. QED BY <1>2, <1>3, <1>4, <1>5, <1>6, <1>7 DEF Next

LEMMA SpecIInv == Spec => []IInv
  BY InitIInv, NextIInv, PTL DEF Spec

\* What is announced is on the way in the words of Coming.
LEMMA AnnouncedIsComing ==
    ASSUME NEW s \in Sessions, NEW y, NEW u, Announced(s, y, u)
    PROVE  Coming(s, y, u)
  BY DEF Announced, Coming, Ahead, OnWay

\* OutdatedAreTold (ohmcpd/src/tools.rs, update_resource; ohmcpd/src/server.rs, the
\* forwarding of events): a subscriber with an old version is about to read or to be told.
THEOREM OutdatedAreToldAlways == Spec => []OutdatedAreTold
<1>1. IInv => OutdatedAreTold
  <2> SUFFICES ASSUME IInv PROVE OutdatedAreTold
    OBVIOUS
  <2>1. TypeOK
    <3>1. \A s \in Sessions : cursor[s] \in 0 .. Len(log)
      BY LenProperties DEF IInv, Typed
    <3>2. ASSUME NEW s \in Sessions
          PROVE  /\ client[s].known \in [Uris -> Nat] /\ client[s].stale \subseteq client[s].follows
                 /\ client[s].listing \subseteq resources
      BY TypedFacts DEF IInv, ClientInv, ClientOk, Clients
    <3>3. QED BY <3>1, <3>2 DEF TypeOK, IInv, Typed
  <2>2. ASSUME NEW s \in Sessions \ lost, NEW u \in client[s].follows
        PROVE  \/ setting.again = "yes"
               \/ client[s].known[u] = contents[u]
               \/ Reading(s, u) \/ Coming(s, "updated", u)
               \/ up[s] = Frame("unsubscribe", u)
               \/ \E i \in DOMAIN down[s] : down[s][i] = Frame("unsubscribed", u)
    <3>1. Told(s, u)
      BY DEF IInv, UpdateInv
    <3>2. QED BY <3>1, AnnouncedIsComing DEF Told, Reading, OnWay
  <2>3. QED BY <2>1, <2>2 DEF OutdatedAreTold
<1>2. QED BY SpecIInv, <1>1, PTL

\* AnnouncedIsReadable (ohmcpd/src/tools.rs, add_resource): the announcement comes after
\* the list and the contents.
THEOREM AnnouncedIsReadableAlways == Spec => []AnnouncedIsReadable
<1>1. IInv => AnnouncedIsReadable
  BY LogFacts DEF IInv, HostInv, AnnouncedIsReadable
<1>2. QED BY SpecIInv, <1>1, PTL

\* NewIsListed (ohmcpd/src/tools.rs, add_resource and list_resources): a client that has
\* not seen a readable resource listed is about to list anew or to be told.
THEOREM NewIsListedAlways == Spec => []NewIsListed
<1>1. IInv => NewIsListed
  <2> SUFFICES ASSUME IInv, NEW s \in setting.sessions \ lost, NEW u \in Uris,
                      contents[u] # 0, u \notin client[s].listing
               PROVE  \/ client[s].relist = "yes" \/ up[s].type = "list" \/ Coming(s, "list_changed", u)
                      \/ \E i \in DOMAIN down[s] : u \in down[s][i].listing
    BY DEF NewIsListed
  <2>1. Shown(s, u) /\ s \in Sessions
    BY RegistryAssumption DEF IInv, ListInv, Typed, IsSetting
  <2>2. QED BY <2>1, AnnouncedIsComing DEF Shown, OnWay
<1>2. QED BY SpecIInv, <1>1, PTL
=============================================================================

------------------------ MODULE ServerSessionProofs -------------------------
(***************************************************************************)
(* A session answers every request once and in order, holds nothing back,  *)
(* says nothing to strangers and pushes to subscribers only, for any       *)
(* number of frames, resources and events and any batching of them.        *)
(***************************************************************************)
EXTENDS ServerSession, SequenceTheorems, TLAPS

-----------------------------------------------------------------------------
\* The inductive invariant

Kinds == {"good_auth", "bad_auth", "plain", "malformed", "unexpected",
          "subscribe", "unsubscribe", "cancel", "call", "call_with_progress"}
Refusals == {"unauthenticated", "rejected"}
Finals == Refusals \cup {"accepted", "result", "subscribed", "not_found", "unsubscribed", "cancelled"}
Notes == {"progress", "updated", "list_changed"}

Arguments == Nat \cup Uris
Requests == [kind : Kinds \cup {"none"}, id : Nat, arg : Arguments]
Responses == [type : Finals \cup Notes, id : Nat, arg : Arguments]
Events == [type : {"updated", "list_changed"}, uri : Uris]

Typed ==
    /\ setting \in Settings
    /\ socket \in Seq(Requests) /\ buf \in Seq(Requests) /\ handled \in Seq(Requests)
    /\ frame \in Requests /\ pc \in {"loop", "handle", "wait"} \cup Ended
    /\ authenticated \in {"yes", "no"} /\ subscribed \in SUBSET Uris
    /\ cancelled \subseteq 1 .. setting.sends
    /\ out \in Seq(Responses) /\ wire \in Seq(Responses)
    /\ events \in Seq(Events) /\ Len(events) <= EventCap /\ lagged \in {"yes", "no"}
    /\ resources \subseteq Uris /\ raised \in Nat
    /\ sent \in Nat /\ sent <= setting.sends

In(q) == {q[i] : i \in DOMAIN q}
Before(F, G) == \A f \in F, g \in G : f.id < g.id

\* The frames that were sent and are not in hand yet, and the one that is.
Coming == buf \o socket
InHand == IF pc = "handle" THEN {frame} ELSE {}
Proper(f) ==
    /\ f.kind \in setting.kinds /\ f.id \in 1 .. sent
    /\ f.kind \in {"subscribe", "unsubscribe"} => f.arg \in Uris
    /\ f.kind = "cancel" => f.arg \in 1 .. setting.sends

\* Frames are taken in the order in which they were sent.
FrameInv ==
    /\ \A f \in In(handled) \cup InHand \cup In(Coming) : Proper(f)
    /\ Ascending(handled) /\ Ascending(Coming)
    /\ Before(In(handled), InHand \cup In(Coming)) /\ Before(InHand, In(Coming))

\* The session waits only when it has handled and answered what it has read.
BatchInv ==
    /\ pc = "wait" => buf = <<>>
    /\ pc \in {"wait", "closed", "shut_down"} => out = <<>>

\* What responses say of the session's authentication and subscriptions.
Accepted(p) == \E i \in DOMAIN p : p[i].type = "accepted"
SilentIn(p) ==
    \A i \in DOMAIN p :
        \/ p[i].type \in {"unauthenticated", "rejected", "accepted"}
        \/ \E j \in 1 .. i - 1 : p[j].type = "accepted"
Ends(r, u) == r.type = "unsubscribed" /\ r.arg = u
Follows(p, u) ==
    \E j \in DOMAIN p :
        /\ p[j].type = "subscribed" /\ p[j].arg = u
        /\ \A k \in j .. Len(p) : ~Ends(p[k], u)
FollowsIn(p) ==
    \A i \in DOMAIN p : p[i].type = "updated" =>
        \E j \in 1 .. i - 1 :
            /\ p[j].type = "subscribed" /\ p[j].arg = p[i].arg
            /\ \A k \in j .. i : ~Ends(p[k], p[i].arg)

\* The session remembers what it has said.
Remembered ==
    /\ subscribed # {} => authenticated = "yes"
    /\ setting.token = "yes" /\ authenticated = "yes" => Accepted(Produced)
    /\ \A u \in subscribed : Follows(Produced, u)
TalkInv ==
    /\ setting.token = "no" => authenticated = "yes"
    /\ setting.token = "yes" => SilentIn(Produced)
    /\ FollowsIn(Produced)
    /\ pc \notin Ended => Remembered

\* Answers and the requests they answer.
Clear == setting.token = "no" \/ setting.kinds \cap Silent = {}
Answers(p) == {r \in In(p) : IsFinal(r)}
Asked == {f \in In(handled) : f.kind \notin Silent}
Calls == {"call", "call_with_progress"}
OrderedIn(p) ==
    \A i, j \in DOMAIN p : IsFinal(p[i]) /\ IsFinal(p[j]) /\ i < j => p[i].id < p[j].id
\* A call was refused, or is going to be, just when it was cancelled in time.
Cancelled(n) == \E f \in In(handled) : f.kind = "cancel" /\ f.arg = n
AllAnswered == {r.id : r \in Answers(Produced)} = {f.id : f \in Asked}
CallsAnswered ==
    \A f \in Asked : \A r \in Answers(Produced) :
        f.id = r.id /\ f.kind \in Calls => (r.type = "cancelled") = CancelledBefore(f)
CancelsKept ==
    \A n \in Nat : (\A f \in In(handled) : f.id < n) => (n \in cancelled <=> Cancelled(n))
AnswerInv == Clear => OrderedIn(Produced) /\ AllAnswered /\ CallsAnswered /\ CancelsKept

IInv == Typed /\ FrameInv /\ BatchInv /\ TalkInv /\ AnswerInv

-----------------------------------------------------------------------------
\* Sequences that grow at the end and shrink at the front

LEMMA Appended ==
    ASSUME NEW S, NEW q \in Seq(S), NEW e \in S
    PROVE  /\ Append(q, e) \in Seq(S) /\ q \o <<e>> = Append(q, e)
           /\ Len(Append(q, e)) = Len(q) + 1 /\ Len(q) \in Nat
           /\ DOMAIN q = 1 .. Len(q) /\ DOMAIN Append(q, e) = 1 .. Len(q) + 1
           /\ \A i \in 1 .. Len(q) : Append(q, e)[i] = q[i]
           /\ Append(q, e)[Len(q) + 1] = e
           /\ In(Append(q, e)) = In(q) \cup {e}
<1>1. Append(q, e) \in Seq(S) /\ Len(Append(q, e)) = Len(q) + 1 /\ Len(q) \in Nat
      /\ \A i \in 1 .. Len(q) : Append(q, e)[i] = q[i]
      /\ Append(q, e)[Len(q) + 1] = e
  BY AppendProperties, LenProperties
<1>2. q \o <<e>> = Append(q, e)
  BY AppendIsConcat
<1>3. DOMAIN q = 1 .. Len(q) /\ DOMAIN Append(q, e) = 1 .. Len(q) + 1
  BY <1>1, LenProperties
<1>4. In(Append(q, e)) = In(q) \cup {e}
  <2>1. 1 .. Len(q) + 1 = (1 .. Len(q)) \cup {Len(q) + 1}
    BY <1>1
  <2>2. QED BY <1>1, <1>3, <2>1 DEF In
<1>5. QED BY <1>1, <1>2, <1>3, <1>4

LEMMA Shortened ==
    ASSUME NEW S, NEW q \in Seq(S), q # <<>>
    PROVE  /\ Tail(q) \in Seq(S) /\ Head(q) = q[1] /\ Head(q) \in S
           /\ DOMAIN q = 1 .. Len(q) /\ Len(q) \in Nat \ {0} /\ DOMAIN Tail(q) = 1 .. Len(q) - 1
           /\ \A i \in 1 .. Len(q) - 1 : Tail(q)[i] = q[i + 1]
           /\ In(q) = {Head(q)} \cup In(Tail(q))
<1>1. /\ Tail(q) \in Seq(S) /\ Len(Tail(q)) = Len(q) - 1 /\ Len(q) \in Nat \ {0} /\ Head(q) \in S
      /\ \A i \in 1 .. Len(q) - 1 : Tail(q)[i] = q[i + 1]
  BY HeadTailProperties, EmptySeq, LenProperties
<1>2. DOMAIN q = 1 .. Len(q) /\ DOMAIN Tail(q) = 1 .. Len(q) - 1
  BY <1>1, LenProperties
<1>3. Head(q) = q[1]
  OBVIOUS
<1>4. In(q) = {Head(q)} \cup In(Tail(q))
  <2>1. ASSUME NEW i \in 1 .. Len(q)
        PROVE  q[i] = Head(q) \/ \E j \in 1 .. Len(q) - 1 : q[i] = Tail(q)[j]
    <3>1. CASE i = 1
      BY <1>3, <3>1
    <3>2. CASE i # 1
      <4>1. i - 1 \in 1 .. Len(q) - 1 /\ (i - 1) + 1 = i
        BY <1>1, <3>2
      <4>2. QED BY <1>1, <4>1
    <3>3. QED BY <3>1, <3>2
  <2>2. 1 \in 1 .. Len(q) /\ \A j \in 1 .. Len(q) - 1 : j + 1 \in 1 .. Len(q)
    BY <1>1
  <2>3. In(q) \subseteq {Head(q)} \cup In(Tail(q))
    BY <1>2, <2>1 DEF In
  <2>4. {Head(q)} \cup In(Tail(q)) \subseteq In(q)
    BY <1>1, <1>2, <1>3, <2>2 DEF In
  <2>5. QED BY <2>3, <2>4
<1>5. QED BY <1>1, <1>2, <1>3, <1>4

LEMMA InSeq == ASSUME NEW S, NEW q \in Seq(S) PROVE In(q) \subseteq S
  BY ElementOfSeq, LenProperties DEF In

LEMMA HeadTailOfConcat ==
    ASSUME NEW S, NEW p \in Seq(S), NEW q \in Seq(S), p # <<>>
    PROVE  p \o q # <<>> /\ Head(p \o q) = Head(p) /\ Tail(p \o q) = Tail(p) \o q
<1> DEFINE g == p \o q
           t == Tail(p) \o q
<1>1. /\ Len(p) \in Nat \ {0} /\ Len(q) \in Nat /\ Tail(p) \in Seq(S) /\ Len(Tail(p)) = Len(p) - 1
      /\ \A i \in 1 .. Len(p) - 1 : Tail(p)[i] = p[i + 1]
  BY HeadTailProperties, EmptySeq, LenProperties
<1>2. /\ g \in Seq(S) /\ Len(g) = Len(p) + Len(q)
      /\ \A i \in 1 .. Len(p) + Len(q) : g[i] = IF i <= Len(p) THEN p[i] ELSE q[i - Len(p)]
  BY ConcatProperties
<1>3. /\ t \in Seq(S) /\ Len(t) = Len(p) - 1 + Len(q)
      /\ \A i \in 1 .. Len(p) - 1 + Len(q) :
            t[i] = IF i <= Len(p) - 1 THEN Tail(p)[i] ELSE q[i - (Len(p) - 1)]
  BY <1>1, ConcatProperties
<1> HIDE DEF g, t
<1>4. g # <<>>
  BY <1>1, <1>2, EmptySeq
<1>5. /\ Tail(g) \in Seq(S) /\ Len(Tail(g)) = Len(g) - 1
      /\ \A i \in 1 .. Len(g) - 1 : Tail(g)[i] = g[i + 1]
  BY <1>2, <1>4, HeadTailProperties
<1>6. ASSUME NEW i \in 1 .. Len(g) - 1
      PROVE  Tail(g)[i] = t[i]
  <2>1. i \in 1 .. Len(p) - 1 + Len(q) /\ i + 1 \in 1 .. Len(p) + Len(q) /\ Tail(g)[i] = g[i + 1]
    BY <1>1, <1>2, <1>5, <1>6
  <2>2. CASE i <= Len(p) - 1
    BY <1>1, <1>2, <1>3, <2>1, <2>2
  <2>3. CASE ~(i <= Len(p) - 1)
    <3>1. t[i] = q[i - (Len(p) - 1)]
      BY <1>3, <2>1, <2>3
    <3>2. g[i + 1] = q[(i + 1) - Len(p)]
      BY <1>1, <1>2, <2>1, <2>3
    <3>3. i - (Len(p) - 1) = (i + 1) - Len(p)
      BY <1>1, <2>1
    <3>4. QED BY <2>1, <3>1, <3>2, <3>3
  <2>4. QED BY <2>2, <2>3
<1>7. Tail(g) = t
  <2>1. Len(Tail(g)) = Len(t) /\ Len(t) = Len(g) - 1
    BY <1>1, <1>2, <1>3, <1>5
  <2>2. QED BY <1>3, <1>5, <1>6, <2>1, SeqEqual
<1>8. Head(g) = Head(p)
  <2>1. 1 \in 1 .. Len(p) + Len(q) /\ 1 <= Len(p)
    BY <1>1
  <2>2. g[1] = p[1]
    BY <1>2, <2>1
  <2>3. Head(g) = g[1] /\ Head(p) = p[1]
    OBVIOUS
  <2>4. QED BY <2>2, <2>3
<1>9. QED BY <1>4, <1>7, <1>8 DEF g, t

LEMMA AscendingAppended ==
    ASSUME NEW q \in Seq(Requests), NEW e \in Requests, Ascending(q), \A f \in In(q) : f.id < e.id
    PROVE  Ascending(Append(q, e))
<1>1. /\ DOMAIN q = 1 .. Len(q) /\ DOMAIN Append(q, e) = 1 .. Len(q) + 1 /\ Len(q) \in Nat
      /\ \A i \in 1 .. Len(q) : Append(q, e)[i] = q[i]
      /\ Append(q, e)[Len(q) + 1] = e
  BY Appended
<1>2. ASSUME NEW i \in 1 .. Len(q) + 1, NEW j \in 1 .. Len(q) + 1, i < j
      PROVE  Append(q, e)[i].id < Append(q, e)[j].id
  <2>1. i \in 1 .. Len(q) /\ Append(q, e)[i] = q[i] /\ q[i] \in In(q)
    BY <1>1, <1>2 DEF In
  <2>2. CASE j = Len(q) + 1
    BY <1>1, <2>1, <2>2
  <2>3. CASE j # Len(q) + 1
    <3>1. j \in 1 .. Len(q)
      BY <1>1, <2>3
    <3>2. QED BY <1>1, <1>2, <2>1, <3>1 DEF Ascending
  <2>4. QED BY <2>2, <2>3
<1>3. QED BY <1>1, <1>2 DEF Ascending

LEMMA AscendingShortened ==
    ASSUME NEW q \in Seq(Requests), q # <<>>, Ascending(q)
    PROVE  Ascending(Tail(q)) /\ \A f \in In(Tail(q)) : Head(q).id < f.id
<1>1. /\ Head(q) = q[1] /\ DOMAIN q = 1 .. Len(q) /\ Len(q) \in Nat \ {0}
      /\ DOMAIN Tail(q) = 1 .. Len(q) - 1 /\ \A i \in 1 .. Len(q) - 1 : Tail(q)[i] = q[i + 1]
  BY Shortened
<1>2. \A i \in 1 .. Len(q) - 1 : i + 1 \in 1 .. Len(q) /\ 1 \in 1 .. Len(q) /\ 1 < i + 1
  BY <1>1
<1>3. ASSUME NEW i \in 1 .. Len(q) - 1, NEW j \in 1 .. Len(q) - 1, i < j
      PROVE  Tail(q)[i].id < Tail(q)[j].id
  <2>1. i + 1 < j + 1
    BY <1>1, <1>3
  <2>2. QED BY <1>1, <1>2, <2>1 DEF Ascending
<1>4. \A i \in 1 .. Len(q) - 1 : Head(q).id < Tail(q)[i].id
  BY <1>1, <1>2 DEF Ascending
<1>5. QED BY <1>1, <1>3, <1>4 DEF Ascending, In

-----------------------------------------------------------------------------
\* One more response

LEMMA OneMore ==
    ASSUME NEW p \in Seq(Responses), NEW r \in Responses
    PROVE  /\ SilentIn(p) /\ (Accepted(p) \/ r.type \in Refusals \cup {"accepted"}) => SilentIn(Append(p, r))
           /\ Accepted(p) \/ r.type = "accepted" => Accepted(Append(p, r))
           /\ FollowsIn(p) /\ (r.type = "updated" => Follows(p, r.arg)) => FollowsIn(Append(p, r))
           /\ \A u : Follows(p, u) /\ ~Ends(r, u) => Follows(Append(p, r), u)
           /\ r.type = "subscribed" => Follows(Append(p, r), r.arg)
           /\ OrderedIn(p) /\ (IsFinal(r) => \A x \in Answers(p) : x.id < r.id) => OrderedIn(Append(p, r))
           /\ Answers(Append(p, r)) = Answers(p) \cup (IF IsFinal(r) THEN {r} ELSE {})
<1> DEFINE n == Len(p)
           g == Append(p, r)
<1>1. /\ DOMAIN p = 1 .. n /\ DOMAIN g = 1 .. n + 1 /\ n \in Nat /\ Len(g) = n + 1
      /\ (\A i \in 1 .. n : g[i] = p[i]) /\ g[n + 1] = r
      /\ In(g) = In(p) \cup {r}
  BY Appended
<1>2. \A i \in 1 .. n : i \in 1 .. n + 1 /\ i \in 1 .. (n + 1) - 1
  BY <1>1
<1>3. \A i \in 1 .. n + 1 : i \in 1 .. n \/ i = n + 1
  BY <1>1
<1>4. \A i \in 1 .. n : \A j \in 1 .. i - 1 : j \in 1 .. n /\ \A k \in j .. i : k \in 1 .. n
  BY <1>1
<1> HIDE DEF n, g
<1>5. ASSUME SilentIn(p), Accepted(p) \/ r.type \in Refusals \cup {"accepted"}
      PROVE  SilentIn(g)
  <2>1. \A i \in 1 .. n : \/ g[i].type \in {"unauthenticated", "rejected", "accepted"}
                         \/ \E j \in 1 .. i - 1 : g[j].type = "accepted"
    BY <1>1, <1>4, <1>5 DEF SilentIn
  <2>2. \/ g[n + 1].type \in {"unauthenticated", "rejected", "accepted"}
        \/ \E j \in 1 .. (n + 1) - 1 : g[j].type = "accepted"
    BY <1>1, <1>2, <1>5 DEF Accepted, Refusals
  <2>3. QED BY <1>1, <1>3, <2>1, <2>2 DEF SilentIn
<1>6. Accepted(p) \/ r.type = "accepted" => Accepted(g)
  BY <1>1, <1>2 DEF Accepted
<1>7. ASSUME FollowsIn(p), r.type = "updated" => Follows(p, r.arg)
      PROVE  FollowsIn(g)
  <2>1. ASSUME NEW i \in 1 .. n, g[i].type = "updated"
        PROVE  \E j \in 1 .. i - 1 : /\ g[j].type = "subscribed" /\ g[j].arg = g[i].arg
                                  /\ \A k \in j .. i : ~Ends(g[k], g[i].arg)
    <3>1. g[i] = p[i]
      BY <1>1
    <3>2. PICK j \in 1 .. i - 1 : /\ p[j].type = "subscribed" /\ p[j].arg = p[i].arg
                                /\ \A k \in j .. i : ~Ends(p[k], p[i].arg)
      BY <1>1, <1>7, <2>1, <3>1 DEF FollowsIn
    <3>3. g[j] = p[j] /\ \A k \in j .. i : g[k] = p[k]
      BY <1>1, <1>4
    <3>4. QED BY <3>1, <3>2, <3>3
  <2>2. ASSUME r.type = "updated"
        PROVE  \E j \in 1 .. (n + 1) - 1 : /\ g[j].type = "subscribed" /\ g[j].arg = r.arg
                                       /\ \A k \in j .. n + 1 : ~Ends(g[k], r.arg)
    <3>1. PICK j \in 1 .. n : /\ p[j].type = "subscribed" /\ p[j].arg = r.arg
                             /\ \A k \in j .. n : ~Ends(p[k], r.arg)
      BY <1>1, <1>7, <2>2 DEF Follows, n
    <3>2. \A k \in j .. n + 1 : (k \in j .. n /\ g[k] = p[k]) \/ (k = n + 1 /\ g[k] = r)
      BY <1>1
    <3>3. ~Ends(r, r.arg)
      BY <2>2 DEF Ends
    <3>4. \A k \in j .. n + 1 : ~Ends(g[k], r.arg)
      BY <3>1, <3>2, <3>3
    <3>5. QED BY <1>1, <1>2, <3>1, <3>4
  <2>3. QED BY <1>1, <1>3, <2>1, <2>2 DEF FollowsIn
<1>8. ASSUME NEW u, Follows(p, u), ~Ends(r, u)
      PROVE  Follows(g, u)
  <2>1. PICK j \in 1 .. n : /\ p[j].type = "subscribed" /\ p[j].arg = u
                           /\ \A k \in j .. n : ~Ends(p[k], u)
    BY <1>1, <1>8 DEF Follows, n
  <2>2. \A k \in j .. n + 1 : (k \in j .. n /\ g[k] = p[k]) \/ (k = n + 1 /\ g[k] = r)
    BY <1>1
  <2>3. \A k \in j .. n + 1 : ~Ends(g[k], u)
    BY <1>8, <2>1, <2>2
  <2>4. QED BY <1>1, <1>2, <2>1, <2>3 DEF Follows
<1>9. r.type = "subscribed" => Follows(g, r.arg)
  <2>1. \A k \in n + 1 .. n + 1 : k = n + 1
    BY <1>1
  <2>2. n + 1 \in 1 .. n + 1
    BY <1>1
  <2>3. QED BY <1>1, <2>1, <2>2 DEF Follows, Ends
<1>10. ASSUME OrderedIn(p), IsFinal(r) => \A x \in Answers(p) : x.id < r.id
       PROVE  OrderedIn(g)
  <2>1. ASSUME NEW i \in 1 .. n + 1, NEW j \in 1 .. n + 1, IsFinal(g[i]), IsFinal(g[j]), i < j
        PROVE  g[i].id < g[j].id
    <3>1. i \in 1 .. n /\ g[i] = p[i]
      BY <1>1, <2>1
    <3>2. CASE j = n + 1
      BY <1>1, <1>10, <2>1, <3>1, <3>2 DEF Answers, In
    <3>3. CASE j # n + 1
      BY <1>1, <1>3, <1>10, <2>1, <3>1, <3>3 DEF OrderedIn
    <3>4. QED BY <3>2, <3>3
  <2>2. QED BY <1>1, <2>1 DEF OrderedIn
<1>11. Answers(g) = Answers(p) \cup (IF IsFinal(r) THEN {r} ELSE {})
  BY <1>1 DEF Answers
<1>12. QED BY <1>5, <1>6, <1>7, <1>8, <1>9, <1>10, <1>11 DEF g

LEMMA SettingFacts ==
    ASSUME Typed
    PROVE  /\ setting.token \in {"yes", "no"} /\ setting.kinds \subseteq Kinds
           /\ setting.resources \subseteq Uris /\ setting.sends \in Nat /\ setting.events \in Nat
  BY SessionAssumption DEF Typed, IsSetting, Kinds

\* What Queue puts into the writer's buffer.
LEMMA ResponseFacts ==
    ASSUME Typed, NEW y \in Finals \cup Notes
    PROVE  /\ Response(y) \in Responses /\ Response(y).type = y
           /\ Response(y).id = frame.id /\ Response(y).arg = frame.arg
  BY DEF Response, Responses, Requests, Typed

LEMMA QueuedOne ==
    ASSUME Typed, NEW y \in Finals \cup Notes, Queue(<<y>>), wire' = wire
    PROVE  out' \in Seq(Responses) /\ Produced' = Append(Produced, Response(y))
<1>1. [i \in DOMAIN <<y>> |-> Response(<<y>>[i])] = <<Response(y)>>
  OBVIOUS
<1>2. Response(y) \in Responses /\ out \in Seq(Responses) /\ wire \in Seq(Responses)
  BY ResponseFacts DEF Typed
<1>3. out' = Append(out, Response(y))
  BY <1>1, <1>2, Appended DEF Queue
<1>4. wire \o Append(out, Response(y)) = Append(wire \o out, Response(y))
  <2>1. <<Response(y)>> \in Seq(Responses)
    BY <1>2
  <2>2. Append(out, Response(y)) = out \o <<Response(y)>>
    BY <1>2, Appended
  <2>3. wire \o out \in Seq(Responses)
    BY <1>2, ConcatProperties
  <2>4. Append(wire \o out, Response(y)) = (wire \o out) \o <<Response(y)>>
    BY <1>2, <2>3, Appended
  <2>5. QED BY <1>2, <2>1, <2>2, <2>4, ConcatAssociative
<1>5. QED BY <1>2, <1>3, <1>4, Appended DEF Produced

LEMMA QueuedTwo ==
    ASSUME Typed, NEW y \in Finals \cup Notes, NEW z \in Finals \cup Notes, Queue(<<y, z>>), wire' = wire
    PROVE  /\ out' \in Seq(Responses)
           /\ Produced' = Append(Append(Produced, Response(y)), Response(z))
<1>1. [i \in DOMAIN <<y, z>> |-> Response(<<y, z>>[i])] = <<Response(y), Response(z)>>
  OBVIOUS
<1>2. /\ Response(y) \in Responses /\ Response(z) \in Responses
      /\ out \in Seq(Responses) /\ wire \in Seq(Responses)
  BY ResponseFacts DEF Typed
<1> DEFINE a == Response(y)
           b == Response(z)
<1> HIDE DEF a, b
<1>3. <<a, b>> = <<a>> \o <<b>> /\ <<a>> \in Seq(Responses) /\ <<b>> \in Seq(Responses)
  BY <1>2 DEF a, b
<1>4. out' = out \o <<a, b>>
  BY <1>1 DEF Queue, a, b
<1>5. wire \o out \in Seq(Responses) /\ (wire \o out) \o <<a>> \in Seq(Responses)
      /\ <<a>> \o <<b>> \in Seq(Responses) /\ out \o (<<a>> \o <<b>>) \in Seq(Responses)
  BY <1>2, <1>3, ConcatProperties
<1>6. wire \o (out \o (<<a>> \o <<b>>)) = ((wire \o out) \o <<a>>) \o <<b>>
  <2>1. wire \o (out \o (<<a>> \o <<b>>)) = (wire \o out) \o (<<a>> \o <<b>>)
    BY <1>2, <1>3, <1>5, ConcatAssociative
  <2>2. (wire \o out) \o (<<a>> \o <<b>>) = ((wire \o out) \o <<a>>) \o <<b>>
    BY <1>3, <1>5, ConcatAssociative
  <2>3. QED BY <2>1, <2>2
<1>7. (wire \o out) \o <<a>> = Append(wire \o out, a)
      /\ ((wire \o out) \o <<a>>) \o <<b>> = Append((wire \o out) \o <<a>>, b)
  BY <1>2, <1>5, Appended DEF a, b
<1>8. Produced' = Append(Append(Produced, a), b)
  BY <1>3, <1>4, <1>6, <1>7 DEF Produced
<1>9. QED BY <1>3, <1>4, <1>5, <1>8 DEF a, b

LEMMA QueuedNone ==
    ASSUME Typed, Queue(<<>>), wire' = wire
    PROVE  out' = out /\ Produced' = Produced
<1>1. [i \in DOMAIN <<>> |-> Response(<<>>[i])] = <<>>
  OBVIOUS
<1>2. out \o <<>> = out
  BY ConcatEmptySeq DEF Typed
<1>3. QED BY <1>1, <1>2 DEF Queue, Produced

LEMMA ProducedSeq == Typed => Produced \in Seq(Responses)
  BY ConcatProperties DEF Typed, Produced

-----------------------------------------------------------------------------
\* Initial states

LEMMA InitIInv == Init => IInv
<1> SUFFICES ASSUME Init PROVE IInv
  OBVIOUS
<1> USE DEF Init
<1>1. setting \in Settings /\ IsSetting(setting)
  BY SessionAssumption
<1>2. Typed
  <2>1. frame \in Requests
    BY DEF Requests, Arguments
  <2>2. <<>> \in Seq(Requests) /\ <<>> \in Seq(Responses) /\ <<>> \in Seq(Events) /\ Len(events) = 0
    BY EmptySeq
  <2>3. QED BY <1>1, <2>1, <2>2, SessionAssumption DEF Typed, IsSetting
<1>3. Produced = <<>> /\ Coming = <<>>
  BY ConcatEmptySeq, EmptySeq DEF Produced, Coming
<1>4. DOMAIN Produced = {} /\ DOMAIN Coming = {} /\ DOMAIN handled = {} /\ InHand = {}
  BY <1>3, EmptySeq DEF InHand
<1>5. In(Produced) = {} /\ In(Coming) = {} /\ In(handled) = {}
  BY <1>4 DEF In
<1>6. FrameInv
  BY <1>4, <1>5 DEF FrameInv, Before, Ascending
<1>7. BatchInv
  BY DEF BatchInv
<1>8. TalkInv
  <2>1. SilentIn(Produced) /\ FollowsIn(Produced)
    BY <1>4 DEF SilentIn, FollowsIn
  <2>2. setting.token = "no" => authenticated = "yes"
    OBVIOUS
  <2>3. setting.token = "yes" => authenticated = "no"
    OBVIOUS
  <2>4. QED BY <2>1, <2>2, <2>3 DEF TalkInv, Remembered
<1>9. AnswerInv
  BY <1>4, <1>5 DEF AnswerInv, OrderedIn, AllAnswered, CallsAnswered, CancelsKept, Answers, Asked, Cancelled
<1>10. QED BY <1>2, <1>6, <1>7, <1>8, <1>9 DEF IInv

-----------------------------------------------------------------------------
\* Frames on their way to the handlers

LEMMA FrameFacts ==
    ASSUME Typed
    PROVE  /\ Coming \in Seq(Requests) /\ In(Coming) \subseteq Requests
           /\ In(handled) \subseteq Requests /\ InHand \subseteq Requests
<1>1. Coming \in Seq(Requests)
  BY ConcatProperties DEF Typed, Coming
<1>2. QED BY <1>1, InSeq DEF Typed, InHand

\* The oldest frame that is not in hand is taken in hand.
LEMMA FrameTaken ==
    ASSUME IInv, pc # "handle", pc' = "handle", Coming # <<>>,
           frame' = Head(Coming), Coming' = Tail(Coming), UNCHANGED <<setting, handled, sent>>
    PROVE  FrameInv'
<1>1. /\ Coming \in Seq(Requests) /\ Ascending(Coming) /\ Ascending(handled)
      /\ \A f \in In(handled) \cup In(Coming) : Proper(f)
      /\ Before(In(handled), In(Coming))
  BY FrameFacts DEF IInv, FrameInv, Before
<1>2. /\ In(Coming) = {frame'} \cup In(Coming') /\ Ascending(Coming')
      /\ \A f \in In(Coming') : frame'.id < f.id
  BY <1>1, Shortened, AscendingShortened
<1>3. InHand' = {frame'}
  BY DEF InHand
<1>4. \A f \in In(handled) \cup InHand' \cup In(Coming') : Proper(f)'
  BY <1>1, <1>2, <1>3 DEF Proper
<1>5. Before(In(handled), InHand' \cup In(Coming')) /\ Before(InHand', In(Coming'))
  BY <1>1, <1>2, <1>3 DEF Before
<1>6. In(handled)' = In(handled) /\ In(Coming)' = In(Coming')
  OBVIOUS
<1>7. QED BY <1>1, <1>2, <1>3, <1>4, <1>5, <1>6 DEF FrameInv, Before

\* Nothing moves.
LEMMA FramesStay ==
    ASSUME IInv, UNCHANGED <<setting, handled, socket, buf, frame, sent>>, InHand' = InHand
    PROVE  FrameInv'
  BY DEF IInv, FrameInv, Coming, Before, Proper, Ascending, In

\* Nothing is said that answers a request.
LEMMA AnswersStay ==
    ASSUME IInv, Answers(Produced') = Answers(Produced), OrderedIn(Produced) => OrderedIn(Produced'),
           UNCHANGED <<setting, cancelled, handled>>
    PROVE  AnswerInv'
<1>1. UNCHANGED <<Clear, Asked, In(handled), cancelled>> /\ Answers(Produced)' = Answers(Produced)
      /\ (OrderedIn(Produced) => OrderedIn(Produced)')
  BY DEF Clear, Answers, OrderedIn, Asked, In
<1>2. (\A f : CancelledBefore(f)' <=> CancelledBefore(f)) /\ \A n : Cancelled(n)' <=> Cancelled(n)
  BY DEF In, Cancelled, CancelledBefore
<1>3. AllAnswered => AllAnswered'
  BY <1>1 DEF AllAnswered
<1>4. ASSUME CallsAnswered PROVE CallsAnswered'
  <2>1. ASSUME NEW f \in Asked, NEW r \in Answers(Produced), f.id = r.id, f.kind \in Calls
        PROVE  (r.type = "cancelled") = CancelledBefore(f)'
    <3>1. (r.type = "cancelled") = CancelledBefore(f)
      BY <1>4, <2>1 DEF CallsAnswered
    <3>2. CancelledBefore(f)' = CancelledBefore(f)
      BY DEF CancelledBefore
    <3>3. QED BY <3>1, <3>2
  <2>2. QED BY <1>1, <2>1 DEF CallsAnswered
<1>5. CancelsKept => CancelsKept'
  BY <1>1, <1>2 DEF CancelsKept
<1>6. QED BY <1>1, <1>3, <1>4, <1>5 DEF IInv, AnswerInv

\* Nothing is said at all.
LEMMA TalkStays ==
    ASSUME IInv, Produced' = Produced, UNCHANGED <<setting, session, handled>>,
           pc \in Ended => pc' \in Ended
    PROVE  TalkInv' /\ AnswerInv'
<1>1. TalkInv'
  BY DEF IInv, TalkInv, Remembered, session
<1>2. AnswerInv'
  BY AnswersStay DEF session
<1>3. QED BY <1>1, <1>2

LEMMA TakeBufferedStep ==
    ASSUME IInv, TakeBuffered
    PROVE  IInv'
<1>1. /\ Typed /\ pc = "loop" /\ buf # <<>> /\ frame' = Head(buf) /\ buf' = Tail(buf) /\ pc' = "handle"
      /\ UNCHANGED <<setting, socket, session, out, wire, registry, client, handled>>
  BY DEF IInv, TakeBuffered
<1>2. buf \in Seq(Requests) /\ socket \in Seq(Requests) /\ Tail(buf) \in Seq(Requests) /\ Head(buf) \in Requests
  BY <1>1, Shortened DEF Typed
<1>3. Typed'
  BY <1>1, <1>2 DEF Typed, session, registry, client
<1>4. Coming # <<>> /\ Head(Coming) = Head(buf) /\ Tail(Coming) = Tail(buf) \o socket
  BY <1>1, <1>2, HeadTailOfConcat DEF Coming
<1>5. FrameInv'
  BY <1>1, <1>4, FrameTaken DEF Coming, client
<1>6. BatchInv'
  BY <1>1 DEF BatchInv
<1>7. TalkInv' /\ AnswerInv'
  BY <1>1, TalkStays DEF Produced, Ended
<1>8. QED BY <1>3, <1>5, <1>6, <1>7 DEF IInv

LEMMA FlushStep ==
    ASSUME IInv, Flush
    PROVE  IInv'
<1>1. /\ Typed /\ pc = "loop" /\ buf = <<>> /\ pc' \in {"failed", "wait"}
      /\ pc' = "failed" => wire' = wire /\ out' = out
      /\ pc' = "wait" => wire' = wire \o out /\ out' = <<>>
      /\ UNCHANGED <<reading, session, registry, client, handled>>
  BY DEF IInv, Flush
<1>2. Produced' = Produced /\ wire' \in Seq(Responses) /\ out' \in Seq(Responses)
  <2>1. wire \o out \in Seq(Responses) /\ (wire \o out) \o <<>> = wire \o out /\ <<>> \in Seq(Responses)
    BY <1>1, ConcatEmptySeq, ConcatProperties, EmptySeq DEF Typed
  <2>2. CASE pc' = "failed"
    BY <1>1, <2>2 DEF Produced, Typed
  <2>3. CASE pc' = "wait"
    BY <1>1, <2>1, <2>3 DEF Produced
  <2>4. QED BY <1>1, <2>2, <2>3
<1>3. Typed'
  BY <1>1, <1>2 DEF Typed, reading, session, registry, client, Ended
<1>4. FrameInv'
  BY <1>1, FramesStay DEF reading, client, InHand
<1>5. BatchInv'
  BY <1>1 DEF BatchInv, reading
<1>6. TalkInv' /\ AnswerInv'
  BY <1>1, <1>2, TalkStays DEF reading, Ended
<1>7. QED BY <1>3, <1>4, <1>5, <1>6 DEF IInv

LEMMA WaitFrameStep ==
    ASSUME IInv, WaitFrame
    PROVE  IInv'
<1>1. PICK n \in 1 .. Len(socket) :
        /\ frame' = Head(socket) /\ buf' = SubSeq(socket, 2, n)
        /\ socket' = SubSeq(socket, n + 1, Len(socket))
  BY DEF WaitFrame
<1>2. /\ Typed /\ pc = "wait" /\ socket # <<>> /\ buf = <<>> /\ pc' = "handle"
      /\ UNCHANGED <<setting, session, out, wire, registry, client, handled>>
  BY DEF IInv, BatchInv, WaitFrame
<1>3. socket \in Seq(Requests) /\ Len(socket) \in Nat \ {0} /\ Head(socket) \in Requests
      /\ \A i \in 1 .. Len(socket) : socket[i] \in Requests
  BY <1>2, Shortened, ElementOfSeq DEF Typed
<1>4. n \in Nat /\ 1 <= n /\ n <= Len(socket)
  BY <1>1, <1>3
<1>5. SubSeq(socket, 2, n) \in Seq(Requests) /\ SubSeq(socket, n + 1, Len(socket)) \in Seq(Requests)
  <2>1. \A i \in 2 .. n : socket[i] \in Requests
    BY <1>3, <1>4
  <2>2. \A i \in n + 1 .. Len(socket) : socket[i] \in Requests
    BY <1>3, <1>4
  <2>3. QED BY <1>3, <1>4, <2>1, <2>2, SubSeqProperties
<1>6. SubSeq(socket, 2, n) \o SubSeq(socket, n + 1, Len(socket)) = Tail(socket)
  <2>1. SubSeq(socket, 2, n) \o SubSeq(socket, n + 1, Len(socket)) = SubSeq(socket, 2, Len(socket))
    <3>1. 2 \in 1 .. Len(socket) + 1 /\ n \in 2 - 1 .. Len(socket) /\ Len(socket) \in n .. Len(socket)
      BY <1>3, <1>4
    <3>2. QED BY <1>3, <3>1, ConcatAdjacentSubSeq
  <2>2. Tail(socket) = SubSeq(socket, 2, Len(socket))
    BY <1>2, <1>3, TailIsSubSeq
  <2>3. QED BY <2>1, <2>2
<1>7. Coming = socket
  BY <1>2, <1>3, ConcatEmptySeq DEF Coming
<1>8. Typed'
  BY <1>1, <1>2, <1>3, <1>5 DEF Typed, session, registry, client
<1>9. FrameInv'
  BY <1>1, <1>2, <1>6, <1>7, FrameTaken DEF Coming, client
<1>10. BatchInv'
  BY <1>2 DEF BatchInv
<1>11. TalkInv' /\ AnswerInv'
  BY <1>2, TalkStays DEF Produced, Ended
<1>12. QED BY <1>8, <1>9, <1>10, <1>11 DEF IInv

\* The ends of a session that waits: there is nothing left to flush.
LEMMA EndStep ==
    ASSUME IInv, pc = "wait", NEW how \in {"closed", "shut_down"}, End(how)
    PROVE  IInv'
<1>1. /\ Typed /\ out = <<>> /\ out' = <<>> /\ pc' = how
      /\ wire' = IF "hangup" \in signals THEN wire ELSE wire \o out
      /\ UNCHANGED <<reading, session, registry, client, handled>>
  BY DEF IInv, BatchInv, End
<1>2. wire' = wire /\ Produced' = Produced
  BY <1>1, ConcatEmptySeq DEF Produced, Typed
<1>3. Typed'
  BY <1>1, <1>2 DEF Typed, reading, session, registry, client, Ended
<1>4. FrameInv'
  BY <1>1, FramesStay DEF reading, client, InHand
<1>5. BatchInv'
  BY <1>1 DEF BatchInv
<1>6. TalkInv' /\ AnswerInv'
  BY <1>1, <1>2, TalkStays DEF reading, Ended
<1>7. QED BY <1>3, <1>4, <1>5, <1>6 DEF IInv

-----------------------------------------------------------------------------
\* Events, signals and the client

LEMMA WaitLaggedStep ==
    ASSUME IInv, WaitLagged
    PROVE  IInv'
<1>1. /\ Typed /\ lagged' = "no"
      /\ UNCHANGED <<pc, reading, session, out, wire, events, resources, raised, client, handled>>
  BY DEF IInv, WaitLagged
<1>2. Typed'
  BY <1>1 DEF Typed, reading, session, client
<1>3. FrameInv' /\ BatchInv'
  BY <1>1, FramesStay DEF IInv, BatchInv, reading, client, InHand
<1>4. TalkInv' /\ AnswerInv'
  BY <1>1, TalkStays DEF reading, Produced
<1>5. QED BY <1>2, <1>3, <1>4 DEF IInv

\* A push: its session may push it, and its client may be told.
LEMMA PushFacts ==
    ASSUME Typed, events # <<>>
    PROVE  \/ Pushed(Head(events)) = <<>>
           \/ \E r \in Responses :
                 /\ Pushed(Head(events)) = <<r>> /\ ~IsFinal(r) /\ r.type \in {"updated", "list_changed"}
                 /\ r.type = "updated" => r.arg \in subscribed
                 /\ r.type = "list_changed" => authenticated = "yes"
<1> DEFINE e == Head(events)
<1>1. e \in Events
  BY Shortened DEF Typed
<1>2. e.type \in {"updated", "list_changed"} /\ e.uri \in Uris
  BY <1>1 DEF Events
<1>3. CASE e.type = "updated" /\ e.uri \in subscribed
  <2> DEFINE r == [type |-> "updated", id |-> 0, arg |-> e.uri]
  <2>1. Pushed(e) = <<r>> /\ r \in Responses
    BY <1>2, <1>3 DEF Pushed, Responses, Notes, Arguments
  <2>2. ~IsFinal(r)
    BY DEF IsFinal
  <2>3. QED BY <1>3, <2>1, <2>2
<1>4. CASE e.type = "list_changed" /\ authenticated = "yes"
  <2> DEFINE r == [type |-> "list_changed", id |-> 0, arg |-> 0]
  <2>1. Pushed(e) = <<r>> /\ r \in Responses
    BY <1>2, <1>4 DEF Pushed, Responses, Notes, Arguments
  <2>2. ~IsFinal(r)
    BY DEF IsFinal
  <2>3. QED BY <1>4, <2>1, <2>2
<1>5. CASE ~(e.type = "updated" /\ e.uri \in subscribed) /\ ~(e.type = "list_changed" /\ authenticated = "yes")
  BY <1>5 DEF Pushed
<1>6. QED BY <1>3, <1>4, <1>5

LEMMA WaitEventStep ==
    ASSUME IInv, WaitEvent
    PROVE  IInv'
<1> DEFINE push == Pushed(Head(events))
<1>1. /\ Typed /\ pc = "wait" /\ events # <<>> /\ out = <<>> /\ buf = <<>>
      /\ \/ pc' = "failed" /\ out' = push /\ wire' = wire
         \/ wire' = wire \o push /\ pc' = pc /\ out' = out
      /\ events' = Tail(events)
      /\ UNCHANGED <<reading, session, lagged, resources, raised, client, handled>>
  BY DEF IInv, BatchInv, WaitEvent
<1>2. push \in Seq(Responses)
  <2>1. <<>> \in Seq(Responses) /\ \A r \in Responses : <<r>> \in Seq(Responses)
    BY EmptySeq
  <2>2. QED BY <1>1, <2>1, PushFacts
<1>3. /\ wire \in Seq(Responses) /\ wire \o push \in Seq(Responses)
      /\ Produced = wire /\ Produced' = wire \o push
      /\ out' \in Seq(Responses) /\ wire' \in Seq(Responses)
  <2>1. wire \in Seq(Responses) /\ wire \o push \in Seq(Responses)
        /\ wire \o <<>> = wire /\ (wire \o push) \o <<>> = wire \o push
    BY <1>1, <1>2, ConcatProperties, ConcatEmptySeq DEF Typed
  <2>2. QED BY <1>1, <1>2, <2>1, EmptySeq DEF Produced
<1>4. Typed'
  <2>1. events' \in Seq(Events) /\ Len(events') <= EventCap
    <3>1. Tail(events) \in Seq(Events) /\ Len(Tail(events)) = Len(events) - 1 /\ Len(events) \in Nat
      BY <1>1, HeadTailProperties, LenProperties DEF Typed
    <3>2. QED BY <1>1, <3>1, SessionAssumption DEF Typed
  <2>2. QED BY <1>1, <1>3, <2>1 DEF Typed, reading, session, client, Ended
<1>5. FrameInv'
  BY <1>1, FramesStay DEF reading, client, InHand
<1>6. BatchInv'
  BY <1>1 DEF BatchInv, reading
<1>7. CASE push = <<>>
  <2>1. Produced' = Produced
    BY <1>3, <1>7, ConcatEmptySeq
  <2>2. TalkInv' /\ AnswerInv'
    BY <1>1, <2>1, TalkStays DEF reading, Ended
  <2>3. QED BY <1>4, <1>5, <1>6, <2>2 DEF IInv
<1>8. ASSUME NEW r \in Responses, push = <<r>>, ~IsFinal(r), r.type \in {"updated", "list_changed"},
             r.type = "updated" => r.arg \in subscribed,
             r.type = "list_changed" => authenticated = "yes"
      PROVE  IInv'
  <2>1. Produced \in Seq(Responses) /\ Produced' = Append(Produced, r)
    <3>1. wire \o <<r>> = Append(wire, r)
      BY <1>3, <1>8, Appended
    <3>2. QED BY <1>3, <1>8, <3>1
  <2>2. UNCHANGED <<setting, authenticated, subscribed, cancelled, handled>>
    BY <1>1 DEF reading, session
  <2>3. Remembered
    BY <1>1 DEF IInv, TalkInv, Ended
  <2>4. TalkInv'
    <3>1. setting.token = "yes" => Accepted(Produced)
      BY <1>8, <2>3 DEF Remembered
    <3>2. setting.token = "yes" => SilentIn(Produced')
      BY <2>1, <3>1, OneMore DEF IInv, TalkInv
    <3>3. FollowsIn(Produced')
      BY <1>8, <2>1, <2>3, OneMore DEF IInv, TalkInv, Remembered
    <3>4. \A u \in subscribed : Follows(Produced', u)
      <4>1. \A u : ~Ends(r, u)
        BY <1>8 DEF Ends
      <4>2. QED BY <2>1, <2>3, <4>1, OneMore DEF Remembered
    <3>5. Accepted(Produced) => Accepted(Produced')
      BY <2>1, OneMore
    <3>6. Remembered'
      BY <2>2, <2>3, <3>4, <3>5 DEF Remembered
    <3>7. QED BY <2>2, <3>2, <3>3, <3>6 DEF IInv, TalkInv
  <2>5. AnswerInv'
    <3>1. Answers(Produced') = Answers(Produced) /\ (OrderedIn(Produced) => OrderedIn(Produced'))
      BY <1>8, <2>1, OneMore
    <3>2. QED BY <2>2, <3>1, AnswersStay
  <2>6. QED BY <1>4, <1>5, <1>6, <2>4, <2>5 DEF IInv
<1>9. QED BY <1>1, <1>7, <1>8, PushFacts

LEMMA SendStep ==
    ASSUME IInv, Send
    PROVE  IInv'
<1>1. PICK kind \in setting.kinds : \E arg \in Args(kind) :
        socket' = Append(socket, [kind |-> kind, id |-> sent + 1, arg |-> arg])
  BY DEF Send
<1>2. PICK arg \in Args(kind) : socket' = Append(socket, [kind |-> kind, id |-> sent + 1, arg |-> arg])
  BY <1>1
<1>3. /\ Typed /\ sent < setting.sends /\ sent' = sent + 1
      /\ UNCHANGED <<setting, pc, buf, frame, session, out, wire, registry, signals, handled>>
      /\ sent \in Nat /\ setting.sends \in Nat /\ kind \in Kinds
  BY SettingFacts DEF IInv, Send, Typed
<1>4. /\ kind \in {"subscribe", "unsubscribe"} => arg \in Uris
      /\ kind = "cancel" => arg \in 1 .. setting.sends
      /\ arg \in Arguments
  BY <1>3 DEF Args, Arguments
<1>5. PICK f \in Requests : f.id = sent + 1 /\ f.kind = kind /\ f.arg = arg /\ socket' = Append(socket, f)
  BY <1>2, <1>3, <1>4 DEF Requests
<1>6. socket \in Seq(Requests) /\ socket' \in Seq(Requests) /\ Coming' = Append(Coming, f)
  <2>1. socket \in Seq(Requests) /\ buf \in Seq(Requests) /\ <<f>> \in Seq(Requests)
    BY <1>3, <1>5 DEF Typed
  <2>2. Append(socket, f) = socket \o <<f>> /\ Append(socket, f) \in Seq(Requests)
    BY <1>5, <2>1, Appended
  <2>3. buf \o (socket \o <<f>>) = (buf \o socket) \o <<f>> /\ buf \o socket \in Seq(Requests)
    BY <2>1, ConcatAssociative, ConcatProperties
  <2>4. (buf \o socket) \o <<f>> = Append(buf \o socket, f)
    BY <1>5, <2>3, Appended
  <2>5. QED BY <1>3, <1>5, <2>1, <2>2, <2>3, <2>4 DEF Coming
<1>7. Typed'
  BY <1>3, <1>6 DEF Typed, session, registry
<1>8. FrameInv'
  <2>1. \A g \in In(handled) \cup InHand \cup In(Coming) : Proper(g) /\ Proper(g)' /\ g.id < f.id
    <3>1. \A g \in In(handled) \cup InHand \cup In(Coming) : Proper(g)
      BY DEF IInv, FrameInv
    <3>2. QED BY <1>3, <1>5, <3>1 DEF Proper
  <2>2. Proper(f)'
    BY <1>3, <1>4, <1>5 DEF Proper
  <2>3. In(Coming') = In(Coming) \cup {f} /\ Ascending(Coming')
    BY <1>3, <1>5, <1>6, <2>1, FrameFacts, Appended, AscendingAppended DEF IInv, FrameInv
  <2>4. InHand' = InHand /\ In(handled') = In(handled) /\ Ascending(handled')
    BY <1>3 DEF InHand, IInv, FrameInv
  <2>5. \A g \in In(handled') \cup InHand' \cup In(Coming') : Proper(g)'
    BY <2>1, <2>2, <2>3, <2>4
  <2>6. Before(In(handled'), InHand' \cup In(Coming')) /\ Before(InHand', In(Coming'))
    BY <2>1, <2>3, <2>4 DEF IInv, FrameInv, Before
  <2>7. QED BY <2>3, <2>4, <2>5, <2>6 DEF FrameInv, In, Before, Ascending
<1>9. BatchInv'
  BY <1>3 DEF IInv, BatchInv
<1>10. TalkInv' /\ AnswerInv'
  BY <1>3, TalkStays DEF Produced
<1>11. QED BY <1>7, <1>8, <1>9, <1>10 DEF IInv

LEMMA SignalStep ==
    ASSUME IInv, Signal
    PROVE  IInv'
<1>1. Typed /\ UNCHANGED <<pc, reading, session, out, wire, registry, sent, handled>>
  BY DEF IInv, Signal
<1>2. Typed'
  BY <1>1 DEF Typed, reading, session, registry
<1>3. FrameInv' /\ BatchInv'
  BY <1>1, FramesStay DEF IInv, BatchInv, reading, InHand
<1>4. TalkInv' /\ AnswerInv'
  BY <1>1, TalkStays DEF reading, Produced
<1>5. QED BY <1>2, <1>3, <1>4 DEF IInv

LEMMA BroadcastStep ==
    ASSUME IInv, NEW e \in Events, Broadcast(e), resources' \subseteq Uris
    PROVE  IInv'
<1>1. /\ Typed /\ raised' = raised + 1
      /\ UNCHANGED <<pc, reading, session, out, wire, client, handled>>
      /\ \/ /\ Len(events) = EventCap /\ events' = Append(Tail(events), e) /\ lagged' = "yes"
         \/ /\ Len(events) # EventCap /\ events' = Append(events, e) /\ lagged' = lagged
  BY DEF IInv, Broadcast
<1>2. events \in Seq(Events) /\ Len(events) \in Nat /\ Len(events) <= EventCap /\ EventCap \in Nat \ {0}
  BY <1>1, LenProperties, SessionAssumption DEF Typed
<1>3. events' \in Seq(Events) /\ Len(events') <= EventCap
  <2>1. CASE Len(events) = EventCap
    <3>1. events # <<>>
      BY <1>2, <2>1, EmptySeq
    <3>2. Tail(events) \in Seq(Events) /\ Len(Tail(events)) = Len(events) - 1
      BY <1>2, <3>1, HeadTailProperties
    <3>3. QED BY <1>1, <1>2, <2>1, <3>2, Appended
  <2>2. CASE Len(events) # EventCap
    BY <1>1, <1>2, <2>2, Appended
  <2>3. QED BY <2>1, <2>2
<1>4. Typed'
  BY <1>1, <1>3 DEF Typed, reading, session, client
<1>5. FrameInv' /\ BatchInv'
  BY <1>1, FramesStay DEF IInv, BatchInv, reading, client, InHand
<1>6. TalkInv' /\ AnswerInv'
  BY <1>1, TalkStays DEF reading, Produced
<1>7. QED BY <1>4, <1>5, <1>6 DEF IInv

-----------------------------------------------------------------------------
\* Handlers

\* What every handler does: the frame in hand goes into the history.
Handling ==
    /\ pc = "handle" /\ pc' \in {"loop", "rejected", "failed"}
    /\ handled' = Append(handled, frame)
    /\ UNCHANGED <<reading, wire, registry, client>>

LEMMA HandledFacts ==
    ASSUME IInv, Handling
    PROVE  /\ handled' \in Seq(Requests) /\ In(handled') = In(handled) \cup {frame}
           /\ Proper(frame) /\ frame \in Requests /\ frame \notin In(handled)
           /\ \A f \in In(handled) : Proper(f) /\ f \in Requests /\ f.id < frame.id
           /\ FrameInv' /\ BatchInv'
<1>1. handled \in Seq(Requests) /\ frame \in Requests /\ InHand = {frame} /\ InHand' = {}
  BY DEF IInv, Typed, Handling, InHand
<1>2. /\ Ascending(handled) /\ Ascending(Coming) /\ Proper(frame)
      /\ \A f \in In(handled) \cup {frame} \cup In(Coming) : Proper(f)
      /\ Before(In(handled), {frame} \cup In(Coming)) /\ Before({frame}, In(Coming))
  BY <1>1 DEF IInv, FrameInv
<1>3. /\ handled' \in Seq(Requests) /\ In(handled') = In(handled) \cup {frame}
      /\ In(handled) \subseteq Requests
  BY <1>1, Appended, InSeq DEF Handling
<1>4. \A f \in In(handled) : f.id < frame.id
  BY <1>2 DEF Before
<1>5. frame \notin In(handled)
  BY <1>1, <1>4 DEF Requests
<1>6. Ascending(handled')
  BY <1>1, <1>2, <1>4, AscendingAppended DEF Handling
<1>7. FrameInv'
  <2>1. Coming' = Coming /\ In(Coming') = In(Coming) /\ Ascending(Coming')
    BY <1>2 DEF Handling, reading, Coming
  <2>2. \A f \in In(handled') \cup InHand' \cup In(Coming') : Proper(f)'
    BY <1>1, <1>2, <1>3, <2>1 DEF Handling, reading, client, Proper
  <2>3. Before(In(handled'), InHand' \cup In(Coming')) /\ Before(InHand', In(Coming'))
    BY <1>1, <1>2, <1>3, <2>1 DEF Before
  <2>4. In(handled)' = In(handled') /\ In(Coming)' = In(Coming') /\ Ascending(handled)' = Ascending(handled')
    OBVIOUS
  <2>5. QED BY <1>6, <2>1, <2>2, <2>3, <2>4 DEF FrameInv, Before
<1>8. BatchInv'
  BY DEF Handling, BatchInv
<1>9. QED BY <1>1, <1>2, <1>3, <1>4, <1>5, <1>7, <1>8

\* A frame is cancelled before it, by what was handled when it is.
LEMMA CancelledFacts ==
    ASSUME IInv, Handling
    PROVE  /\ \A f \in In(handled) : CancelledBefore(f)' <=> CancelledBefore(f)
           /\ CancelledBefore(frame)' <=> Cancelled(frame.id)
<1> DEFINE n == Len(handled)
           g == Append(handled, frame)
<1>1. /\ handled' = g /\ DOMAIN handled = 1 .. n /\ DOMAIN g = 1 .. n + 1 /\ n \in Nat
      /\ (\A i \in 1 .. n : g[i] = handled[i]) /\ g[n + 1] = frame
  BY Appended DEF IInv, Typed, Handling
<1>2. \A i \in 1 .. n : g[i] # frame
  BY <1>1, HandledFacts DEF In
<1>3. UNCHANGED frame
  BY DEF Handling, reading
<1> HIDE DEF n, g
<1>4. \A i, j \in 1 .. n + 1 : i < j => i \in 1 .. n /\ (j \in 1 .. n \/ j = n + 1)
  BY <1>1
<1>5. \A i \in 1 .. n : i \in 1 .. n + 1 /\ i < n + 1 /\ n + 1 \in 1 .. n + 1
  BY <1>1
<1>6. ASSUME NEW f \in In(handled)
      PROVE  CancelledBefore(f)' <=> CancelledBefore(f)
  <2>1. f # frame
    BY HandledFacts
  <2>2. QED BY <1>1, <1>4, <1>5, <2>1 DEF CancelledBefore
<1>7. CancelledBefore(frame)' <=> Cancelled(frame.id)
  <2>1. ASSUME CancelledBefore(frame)' PROVE Cancelled(frame.id)
    BY <1>1, <1>3, <1>4, <2>1 DEF CancelledBefore, Cancelled, In
  <2>2. ASSUME Cancelled(frame.id) PROVE CancelledBefore(frame)'
    <3>1. PICK i \in 1 .. n : handled[i].kind = "cancel" /\ handled[i].arg = frame.id
      BY <1>1, <2>2 DEF Cancelled, In
    <3>2. g[i] = handled[i] /\ g[n + 1] = frame /\ i < n + 1 /\ i \in 1 .. n + 1 /\ n + 1 \in 1 .. n + 1
      BY <1>1, <1>5
    <3>3. QED BY <1>1, <1>3, <3>1, <3>2 DEF CancelledBefore
  <2>3. QED BY <2>1, <2>2
<1>8. QED BY <1>6, <1>7

\* A request is answered; a call with "cancelled" just when it was cancelled.
LEMMA AnsweredStep ==
    ASSUME IInv, Handling, NEW r, r.id = frame.id, frame.kind \notin Silent,
           Answers(Produced') = Answers(Produced) \cup {r},
           OrderedIn(Produced) /\ (\A x \in Answers(Produced) : x.id < frame.id) => OrderedIn(Produced'),
           Clear /\ frame.kind \in Calls => (r.type = "cancelled") = Cancelled(frame.id),
           \A n \in Nat : n # frame.id => (n \in cancelled' <=> n \in cancelled)
    PROVE  AnswerInv'
<1> SUFFICES ASSUME Clear PROVE (OrderedIn(Produced) /\ AllAnswered /\ CallsAnswered /\ CancelsKept)'
  BY DEF AnswerInv, Clear, Handling, reading
<1>1. OrderedIn(Produced) /\ AllAnswered /\ CallsAnswered /\ CancelsKept
  BY DEF IInv, AnswerInv
<1>2. /\ In(handled') = In(handled) \cup {frame} /\ frame \in Requests /\ frame \notin In(handled)
      /\ \A f \in In(handled) : f.id < frame.id /\ f \in Requests
  BY HandledFacts
<1>3. Asked' = Asked \cup {frame} /\ Asked \subseteq In(handled)
  BY <1>2 DEF Asked
<1>4. \A x \in Answers(Produced) : x.id < frame.id
  BY <1>1, <1>2, <1>3 DEF AllAnswered
<1>5. OrderedIn(Produced)'
  BY <1>1, <1>4
<1>6. AllAnswered'
  BY <1>1, <1>3 DEF AllAnswered
<1>7. CallsAnswered'
  <2>1. ASSUME NEW f \in Asked', NEW x \in Answers(Produced'), f.id = x.id, f.kind \in Calls
        PROVE  (x.type = "cancelled") = CancelledBefore(f)'
    <3>1. CASE f = frame
      <4>1. x = r
        BY <1>2, <1>4, <2>1, <3>1 DEF Requests
      <4>2. CancelledBefore(f)' = Cancelled(frame.id)
        BY <3>1, CancelledFacts DEF Handling, reading, CancelledBefore, Cancelled
      <4>3. QED BY <2>1, <3>1, <4>1, <4>2
    <3>2. CASE f # frame
      <4>1. f \in Asked /\ x \in Answers(Produced)
        BY <1>2, <1>3, <2>1, <3>2 DEF Requests
      <4>2. (x.type = "cancelled") = CancelledBefore(f)
        BY <1>1, <2>1, <4>1 DEF CallsAnswered
      <4>3. CancelledBefore(f)' = CancelledBefore(f)
        BY <1>3, <4>1, CancelledFacts DEF CancelledBefore
      <4>4. QED BY <4>2, <4>3
    <3>3. QED BY <3>1, <3>2
  <2>2. Answers(Produced)' = Answers(Produced')
    BY DEF Answers
  <2>3. QED BY <2>1, <2>2 DEF CallsAnswered
<1>8. CancelsKept'
  <2>1. \A n : Cancelled(n)' <=> Cancelled(n)
    BY <1>2 DEF Cancelled, Silent
  <2>2. In(handled)' = In(handled')
    OBVIOUS
  <2>3. ASSUME NEW n \in Nat, \A f \in In(handled') : f.id < n
        PROVE  n \in cancelled' <=> Cancelled(n)
    <3>1. n # frame.id /\ \A f \in In(handled) : f.id < n
      BY <1>2, <2>3 DEF Requests
    <3>2. QED BY <1>1, <3>1 DEF CancelsKept
  <2>4. QED BY <2>1, <2>2, <2>3 DEF CancelsKept
<1>9. QED BY <1>5, <1>6, <1>7, <1>8

\* A frame that gets no answer; a Cancel is remembered.
LEMMA SilentStep ==
    ASSUME IInv, Handling, Produced' = Produced, frame.kind \in Silent,
           cancelled' = IF frame.kind = "cancel" THEN cancelled \cup {frame.arg} ELSE cancelled
    PROVE  AnswerInv'
<1> SUFFICES ASSUME Clear PROVE (OrderedIn(Produced) /\ AllAnswered /\ CallsAnswered /\ CancelsKept)'
  BY DEF AnswerInv, Clear, Handling, reading
<1>1. OrderedIn(Produced) /\ AllAnswered /\ CallsAnswered /\ CancelsKept
  BY DEF IInv, AnswerInv
<1>2. /\ In(handled') = In(handled) \cup {frame}
      /\ \A f \in In(handled) : f.id < frame.id
  BY HandledFacts
<1>3. Asked' = Asked /\ Asked \subseteq In(handled) /\ Answers(Produced)' = Answers(Produced)
  BY <1>2 DEF Asked, Answers
<1>4. OrderedIn(Produced)' /\ AllAnswered'
  BY <1>1, <1>3 DEF AllAnswered, OrderedIn
<1>5. CallsAnswered'
  <2>1. ASSUME NEW f \in Asked, NEW x \in Answers(Produced), f.id = x.id, f.kind \in Calls
        PROVE  (x.type = "cancelled") = CancelledBefore(f)'
    <3>1. (x.type = "cancelled") = CancelledBefore(f)
      BY <1>1, <2>1 DEF CallsAnswered
    <3>2. CancelledBefore(f)' = CancelledBefore(f)
      BY <1>3, <2>1, CancelledFacts DEF CancelledBefore
    <3>3. QED BY <3>1, <3>2
  <2>2. QED BY <1>3, <2>1 DEF CallsAnswered
<1>6. CancelsKept'
  <2>1. \A n : Cancelled(n)' <=> Cancelled(n) \/ (frame.kind = "cancel" /\ frame.arg = n)
    BY <1>2 DEF Cancelled
  <2>2. In(handled)' = In(handled')
    OBVIOUS
  <2>3. ASSUME NEW n \in Nat, \A f \in In(handled') : f.id < n
        PROVE  n \in cancelled' <=> (Cancelled(n) \/ (frame.kind = "cancel" /\ frame.arg = n))
    <3>1. n \in cancelled <=> Cancelled(n)
      BY <1>1, <1>2, <2>3 DEF CancelsKept
    <3>2. QED BY <3>1
  <2>4. QED BY <2>1, <2>2, <2>3 DEF CancelsKept
<1>7. QED BY <1>4, <1>5, <1>6

\* A handler that answers, and what it may do to the session with which answer.
LEMMA AnswerSaid ==
    ASSUME IInv, Handling, NEW y \in Finals, Queue(<<y>>),
           authenticated = "yes" \/ y \in Refusals \cup {"accepted"},
           authenticated' = "yes" => authenticated = "yes" \/ y = "accepted",
           authenticated = "yes" => authenticated' = "yes",
           subscribed' \subseteq subscribed \cup (IF y = "subscribed" THEN {frame.arg} ELSE {}),
           y = "unsubscribed" => frame.arg \notin subscribed'
    PROVE  /\ out' \in Seq(Responses) /\ TalkInv'
           /\ \E r : /\ r.id = frame.id /\ r.type = y
                     /\ Answers(Produced') = Answers(Produced) \cup {r}
                     /\ OrderedIn(Produced) /\ (\A x \in Answers(Produced) : x.id < frame.id)
                           => OrderedIn(Produced')
<1>1. Typed /\ Remembered /\ wire' = wire /\ setting' = setting /\ TalkInv
  BY DEF IInv, TalkInv, Handling, reading, Ended
<1>2. PICK r \in Responses : r = Response(y)
  BY <1>1, ResponseFacts
<1>3. /\ r.type = y /\ r.id = frame.id /\ r.arg = frame.arg /\ IsFinal(r)
      /\ out' \in Seq(Responses) /\ Produced' = Append(Produced, r) /\ Produced \in Seq(Responses)
  <2>1. y \in Finals \cup Notes /\ y \notin {"progress", "updated", "list_changed"}
    BY DEF Finals, Refusals
  <2>2. r.type = y /\ r.id = frame.id /\ r.arg = frame.arg
    BY <1>1, <1>2, <2>1, ResponseFacts
  <2>3. QED BY <1>1, <1>2, <2>1, <2>2, QueuedOne, ProducedSeq DEF IsFinal
<1>4. setting.token = "yes" => SilentIn(Produced')
  <2>1. setting.token = "yes" => Accepted(Produced) \/ r.type \in Refusals \cup {"accepted"}
    BY <1>1, <1>3 DEF Remembered
  <2>2. QED BY <1>1, <1>3, <2>1, OneMore DEF TalkInv
<1>5. FollowsIn(Produced')
  <2>1. r.type # "updated"
    BY <1>3 DEF IsFinal
  <2>2. QED BY <1>1, <1>3, <2>1, OneMore DEF TalkInv
<1>6. Remembered'
  <2>1. subscribed' # {} => authenticated' = "yes"
    <3>1. y = "subscribed" => authenticated = "yes"
      BY DEF Refusals
    <3>2. QED BY <1>1, <3>1 DEF Remembered
  <2>2. setting.token = "yes" /\ authenticated' = "yes" => Accepted(Produced')
    BY <1>1, <1>3, OneMore DEF Remembered
  <2>3. ASSUME NEW u \in subscribed' PROVE Follows(Produced', u)
    <3>1. CASE u \in subscribed
      <4>1. ~Ends(r, u)
        BY <1>3, <2>3 DEF Ends
      <4>2. QED BY <1>1, <1>3, <3>1, <4>1, OneMore DEF Remembered
    <3>2. CASE u \notin subscribed
      BY <1>3, <2>3, <3>2, OneMore
    <3>3. QED BY <3>1, <3>2
  <2>4. QED BY <1>1, <2>1, <2>2, <2>3 DEF Remembered
<1>7. TalkInv'
  BY <1>1, <1>4, <1>5, <1>6 DEF TalkInv
<1>8. /\ Answers(Produced') = Answers(Produced) \cup {r}
      /\ OrderedIn(Produced) /\ (\A x \in Answers(Produced) : x.id < frame.id) => OrderedIn(Produced')
  BY <1>3, OneMore
<1>9. QED BY <1>3, <1>7, <1>8

\* Nothing is said; TalkInv and the types stay.
LEMMA NothingSaid ==
    ASSUME IInv, Handling, Produced' = Produced, UNCHANGED <<authenticated, subscribed>>
    PROVE  TalkInv'
  BY DEF IInv, TalkInv, Remembered, Handling, reading, Ended

LEMMA HandlingTyped ==
    ASSUME IInv, Handling, out' \in Seq(Responses), authenticated' \in {"yes", "no"},
           subscribed' \subseteq Uris, cancelled' \subseteq 1 .. setting.sends
    PROVE  Typed'
  BY HandledFacts DEF IInv, Typed, Handling, reading, registry, client, Ended

LEMMA AuthStep ==
    ASSUME IInv, Handling, GoodAuth \/ BadAuth \/ Unauthenticated
    PROVE  IInv'
<1>1. Typed /\ TalkInv /\ FrameInv' /\ BatchInv' /\ Proper(frame)
  BY HandledFacts DEF IInv
<1>2. PICK y \in Refusals \cup {"accepted"} :
        /\ Queue(<<y>>)
        /\ y = "accepted" => authenticated' = "yes"
        /\ y # "accepted" => authenticated' = authenticated
        /\ y \in {"rejected", "accepted"} => frame.kind \in {"good_auth", "bad_auth"}
        /\ y = "unauthenticated" => authenticated = "no"
        /\ UNCHANGED <<subscribed, cancelled>>
  BY DEF GoodAuth, BadAuth, Unauthenticated, Answer, Refusals, session
<1>3. y \in Finals /\ y \notin {"subscribed", "unsubscribed", "cancelled"}
  BY DEF Finals, Refusals
<1>4. authenticated' \in {"yes", "no"} /\ (authenticated = "yes" => authenticated' = "yes")
  <2>1. CASE y = "accepted"
    BY <1>2, <2>1
  <2>2. CASE y # "accepted"
    BY <1>1, <1>2, <2>2 DEF Typed
  <2>3. QED BY <2>1, <2>2
<1>5. PICK r : /\ r.id = frame.id /\ r.type = y /\ out' \in Seq(Responses) /\ TalkInv'
               /\ Answers(Produced') = Answers(Produced) \cup {r}
               /\ OrderedIn(Produced) /\ (\A x \in Answers(Produced) : x.id < frame.id)
                     => OrderedIn(Produced')
  <2>1. /\ authenticated = "yes" \/ y \in Refusals \cup {"accepted"}
        /\ authenticated' = "yes" => authenticated = "yes" \/ y = "accepted"
        /\ subscribed' \subseteq subscribed \cup (IF y = "subscribed" THEN {frame.arg} ELSE {})
        /\ y = "unsubscribed" => frame.arg \notin subscribed'
    BY <1>2, <1>3
  <2>2. QED BY <1>2, <1>3, <1>4, <2>1, AnswerSaid
<1>6. Typed'
  BY <1>1, <1>2, <1>4, <1>5, HandlingTyped DEF Typed
<1>7. AnswerInv'
  <2>1. CASE ~Clear
    BY <2>1 DEF AnswerInv, Clear, Handling, reading
  <2>2. CASE Clear
    <3>1. frame.kind \notin Silent
      <4>1. CASE y = "unauthenticated"
        BY <1>1, <1>2, <2>2, <4>1 DEF Clear, TalkInv, Proper
      <4>2. CASE y # "unauthenticated"
        BY <1>2, <4>2 DEF Silent, Refusals
      <4>3. QED BY <4>1, <4>2
    <3>2. frame.kind \in Calls => ~Cancelled(frame.id)
      <4>1. CASE y = "unauthenticated"
        <5>1. setting.kinds \cap Silent = {}
          BY <1>1, <1>2, <2>2, <4>1 DEF Clear, TalkInv
        <5>2. \A f \in In(handled) : f.kind \notin Silent
          BY <5>1, HandledFacts DEF Proper
        <5>3. QED BY <5>2 DEF Cancelled, Silent
      <4>2. CASE y # "unauthenticated"
        BY <1>2, <4>2 DEF Calls, Refusals
      <4>3. QED BY <4>1, <4>2
    <3>3. QED BY <1>2, <1>3, <1>5, <3>1, <3>2, AnsweredStep DEF Cancelled
  <2>3. QED BY <2>1, <2>2
<1>8. QED BY <1>1, <1>5, <1>6, <1>7 DEF IInv

\* Requests that are answered with one response and leave the cancellations alone.
LEMMA RequestStep ==
    ASSUME IInv, Handling, Plain \/ Subscribe \/ Unsubscribe
    PROVE  IInv'
<1>1. Typed /\ FrameInv' /\ BatchInv' /\ Proper(frame) /\ authenticated = "yes"
      /\ frame.kind \in {"plain", "subscribe", "unsubscribe"}
  BY HandledFacts DEF IInv, Plain, Subscribe, Unsubscribe, Allowed
<1>2. PICK y \in {"result", "subscribed", "not_found", "unsubscribed"} :
        /\ Queue(<<y>>) /\ UNCHANGED <<authenticated, cancelled>>
        /\ y = "subscribed" => subscribed' = subscribed \cup {frame.arg} /\ frame.arg \in resources
        /\ y = "unsubscribed" => subscribed' = subscribed \ {frame.arg}
        /\ y \notin {"subscribed", "unsubscribed"} => subscribed' = subscribed
  <2>1. CASE Plain
    BY <2>1 DEF Plain, Answer, session
  <2>2. CASE Subscribe
    BY <2>2 DEF Subscribe, Answer
  <2>3. CASE Unsubscribe
    BY <2>3 DEF Unsubscribe, Answer
  <2>4. QED BY <2>1, <2>2, <2>3
<1>3. y \in Finals /\ y # "cancelled" /\ frame.kind \notin Silent /\ frame.kind \notin Calls
  BY <1>1 DEF Finals, Refusals, Silent, Calls
<1>4. subscribed' \subseteq Uris
  BY <1>1, <1>2 DEF Typed
<1>5. PICK r : /\ r.id = frame.id /\ r.type = y /\ out' \in Seq(Responses) /\ TalkInv'
               /\ Answers(Produced') = Answers(Produced) \cup {r}
               /\ OrderedIn(Produced) /\ (\A x \in Answers(Produced) : x.id < frame.id)
                     => OrderedIn(Produced')
  <2>1. subscribed' \subseteq subscribed \cup (IF y = "subscribed" THEN {frame.arg} ELSE {})
    BY <1>2
  <2>2. y = "unsubscribed" => frame.arg \notin subscribed'
    BY <1>2
  <2>3. QED BY <1>1, <1>2, <1>3, <2>1, <2>2, AnswerSaid
<1>6. Typed'
  BY <1>1, <1>2, <1>4, <1>5, HandlingTyped DEF Typed
<1>7. AnswerInv'
  BY <1>2, <1>3, <1>5, AnsweredStep
<1>8. QED BY <1>1, <1>5, <1>6, <1>7 DEF IInv

\* What gets no answer; a body that does not decrypt ends the session.
LEMMA QuietStep ==
    ASSUME IInv, Handling, Malformed \/ Unexpected \/ Cancel
    PROVE  IInv'
<1>1. /\ Typed /\ FrameInv' /\ BatchInv' /\ Proper(frame) /\ frame.kind \in Silent
      /\ wire' = wire /\ UNCHANGED <<authenticated, subscribed>>
  BY HandledFacts
     DEF IInv, Malformed, Unexpected, Cancel, Allowed, Silent, session, Handling
<1>2. out' = out /\ Produced' = Produced
  <2>1. CASE Malformed
    BY <1>1, <2>1 DEF Malformed, Produced
  <2>2. CASE Unexpected \/ Cancel
    BY <1>1, <2>2, QueuedNone DEF Unexpected, Cancel, Answer
  <2>3. QED BY <2>1, <2>2
<1>3. /\ cancelled' = IF frame.kind = "cancel" THEN cancelled \cup {frame.arg} ELSE cancelled
      /\ cancelled' \subseteq 1 .. setting.sends
  <2>1. CASE Cancel
    BY <1>1, <2>1 DEF Cancel, Allowed, Proper, Typed
  <2>2. CASE Malformed \/ Unexpected
    BY <1>1, <2>2 DEF Malformed, Unexpected, Allowed, session, Typed
  <2>3. QED BY <2>1, <2>2
<1>4. Typed'
  BY <1>1, <1>2, <1>3, HandlingTyped DEF Typed
<1>5. TalkInv' /\ AnswerInv'
  BY <1>1, <1>2, <1>3, NothingSaid, SilentStep
<1>6. QED BY <1>1, <1>4, <1>5 DEF IInv

\* A call that is run: its progress, if asked for, and then its result.
LEMMA RunStep ==
    ASSUME IInv, Handling, Call, frame.id \notin cancelled
    PROVE  IInv'
<1>1. /\ Typed /\ TalkInv /\ FrameInv' /\ BatchInv' /\ authenticated = "yes" /\ wire' = wire
      /\ frame.kind \in Calls /\ frame.kind \notin Silent
      /\ UNCHANGED <<authenticated, subscribed, cancelled>>
      /\ Queue(<<"result">>) \/ Queue(<<"progress", "result">>)
  BY HandledFacts DEF IInv, Call, Allowed, Answer, Calls, Silent, Handling
<1>2. /\ Clear => (("result" = "cancelled") = Cancelled(frame.id))
      /\ \A n \in Nat : n \in cancelled' <=> n \in cancelled
  <2>1. Clear => ~Cancelled(frame.id)
    BY <1>1, HandledFacts DEF IInv, AnswerInv, CancelsKept, Typed, Requests
  <2>2. QED BY <1>1, <2>1 DEF Cancelled
<1>3. CASE Queue(<<"result">>)
  <2>1. ("result" \in Finals /\ authenticated = "yes") \/ "result" \in Refusals \cup {"accepted"}
    BY <1>1 DEF Finals
  <2>2. subscribed' \subseteq subscribed \cup (IF "result" = "subscribed" THEN {frame.arg} ELSE {})
    BY <1>1
  <2>3. PICK r : /\ r.id = frame.id /\ r.type = "result" /\ out' \in Seq(Responses) /\ TalkInv'
                 /\ Answers(Produced') = Answers(Produced) \cup {r}
                 /\ OrderedIn(Produced) /\ (\A x \in Answers(Produced) : x.id < frame.id)
                       => OrderedIn(Produced')
    BY <1>1, <1>3, <2>1, <2>2, AnswerSaid DEF Finals
  <2>4. Typed'
    BY <1>1, <2>3, HandlingTyped DEF Typed
  <2>5. AnswerInv'
    BY <1>1, <1>2, <2>3, AnsweredStep
  <2>6. QED BY <1>1, <2>3, <2>4, <2>5 DEF IInv
<1>4. CASE Queue(<<"progress", "result">>)
  <2>1. "progress" \in Finals \cup Notes /\ "result" \in Finals \cup Notes
    BY DEF Finals, Notes
  <2>2. PICK b \in Responses, r \in Responses : b = Response("progress") /\ r = Response("result")
    BY <1>1, <2>1, ResponseFacts
  <2>3. /\ out' \in Seq(Responses) /\ Produced' = Append(Append(Produced, b), r)
        /\ b.type = "progress" /\ r.type = "result" /\ r.id = frame.id /\ IsFinal(r) /\ ~IsFinal(b)
    <3>1. b.type = "progress" /\ r.type = "result" /\ r.id = frame.id
      BY <1>1, <2>1, <2>2, ResponseFacts
    <3>2. QED BY <1>1, <1>4, <2>1, <2>2, <3>1, QueuedTwo DEF IsFinal
  <2>4. PICK p : p = Append(Produced, b)
    OBVIOUS
  <2>5. Produced \in Seq(Responses) /\ p \in Seq(Responses) /\ Produced' = Append(p, r)
    BY <1>1, <2>3, <2>4, ProducedSeq, Appended
  <2>6. Remembered
    BY <1>1 DEF TalkInv, Handling, Ended
  <2>7. /\ setting.token = "yes" => SilentIn(p) /\ Accepted(p)
        /\ FollowsIn(p) /\ \A u \in subscribed : Follows(p, u)
        /\ OrderedIn(Produced) => OrderedIn(p)
        /\ Answers(p) = Answers(Produced)
    <3>1. \A u : ~Ends(b, u)
      BY <2>3 DEF Ends
    <3>2. setting.token = "yes" => SilentIn(Produced) /\ Accepted(Produced)
      BY <1>1, <2>6 DEF TalkInv, Remembered
    <3>3. FollowsIn(Produced) /\ \A u \in subscribed : Follows(Produced, u)
      BY <1>1, <2>6 DEF TalkInv, Remembered
    <3>4. setting.token = "yes" => SilentIn(p) /\ Accepted(p)
      BY <2>4, <2>5, <3>2, OneMore
    <3>5. FollowsIn(p)
      BY <2>3, <2>4, <2>5, <3>3, OneMore
    <3>6. \A u \in subscribed : Follows(p, u)
      BY <2>4, <2>5, <3>1, <3>3, OneMore
    <3>7. OrderedIn(Produced) => OrderedIn(p)
      BY <2>3, <2>4, <2>5, OneMore
    <3>8. Answers(p) = Answers(Produced)
      <4>1. Answers(p) = Answers(Produced) \cup (IF IsFinal(b) THEN {b} ELSE {})
        BY <2>4, <2>5, OneMore
      <4>2. QED BY <2>3, <4>1
    <3>9. QED BY <3>4, <3>5, <3>6, <3>7, <3>8
  <2>8. /\ setting.token = "yes" => SilentIn(Produced') /\ Accepted(Produced')
        /\ FollowsIn(Produced') /\ \A u \in subscribed : Follows(Produced', u)
        /\ OrderedIn(p) /\ (\A x \in Answers(p) : x.id < frame.id) => OrderedIn(Produced')
        /\ Answers(Produced') = Answers(p) \cup {r}
    <3>1. \A u : ~Ends(r, u)
      BY <2>3 DEF Ends
    <3>2. QED BY <2>3, <2>5, <2>7, <3>1, OneMore
  <2>9. TalkInv'
    <3>1. setting' = setting
      BY DEF Handling, reading
    <3>2. Remembered'
      BY <1>1, <2>6, <2>8, <3>1 DEF Remembered
    <3>3. QED BY <1>1, <2>8, <3>1, <3>2 DEF TalkInv
  <2>10. Typed'
    BY <1>1, <2>3, HandlingTyped DEF Typed
  <2>11. AnswerInv'
    <3>1. Answers(Produced') = Answers(Produced) \cup {r}
      BY <2>7, <2>8
    <3>2. OrderedIn(Produced) /\ (\A x \in Answers(Produced) : x.id < frame.id) => OrderedIn(Produced')
      BY <2>7, <2>8
    <3>3. QED BY <1>1, <1>2, <2>3, <3>1, <3>2, AnsweredStep
  <2>12. QED BY <1>1, <2>9, <2>10, <2>11 DEF IInv
<1>5. QED BY <1>1, <1>3, <1>4

\* A call that was cancelled is answered so, and its cancellation is used up.
LEMMA SkipStep ==
    ASSUME IInv, Handling, Call, frame.id \in cancelled
    PROVE  IInv'
<1>1. /\ Typed /\ FrameInv' /\ BatchInv' /\ authenticated = "yes"
      /\ frame.kind \in Calls /\ frame.kind \notin Silent
      /\ UNCHANGED <<authenticated, subscribed>> /\ cancelled' = cancelled \ {frame.id}
      /\ Queue(<<"cancelled">>)
  BY HandledFacts DEF IInv, Call, Allowed, Answer, Calls, Silent
<1>2. Clear => Cancelled(frame.id)
  BY <1>1, HandledFacts DEF IInv, AnswerInv, CancelsKept, Typed, Requests
<1>3. "cancelled" \in Finals
  BY DEF Finals
<1>4. subscribed' \subseteq subscribed \cup (IF "cancelled" = "subscribed" THEN {frame.arg} ELSE {})
  BY <1>1
<1>5. PICK r : /\ r.id = frame.id /\ r.type = "cancelled" /\ out' \in Seq(Responses) /\ TalkInv'
               /\ Answers(Produced') = Answers(Produced) \cup {r}
               /\ OrderedIn(Produced) /\ (\A x \in Answers(Produced) : x.id < frame.id)
                     => OrderedIn(Produced')
  BY <1>1, <1>3, <1>4, AnswerSaid
<1>6. Typed'
  BY <1>1, <1>5, HandlingTyped DEF Typed
<1>7. \A n \in Nat : n # frame.id => (n \in cancelled' <=> n \in cancelled)
  BY <1>1
<1>8. AnswerInv'
  BY <1>1, <1>2, <1>5, <1>7, AnsweredStep
<1>9. QED BY <1>1, <1>5, <1>6, <1>8 DEF IInv

LEMMA HandleStep ==
    ASSUME IInv, Handle
    PROVE  IInv'
<1>1. Handling
  BY DEF Handle, Handling, GoodAuth, BadAuth, Unauthenticated, Malformed, Plain, Unexpected,
         Subscribe, Unsubscribe, Cancel, Call, Answer
<1>2. CASE GoodAuth \/ BadAuth \/ Unauthenticated
  BY <1>1, <1>2, AuthStep
<1>3. CASE Plain \/ Subscribe \/ Unsubscribe
  BY <1>1, <1>3, RequestStep
<1>4. CASE Malformed \/ Unexpected \/ Cancel
  BY <1>1, <1>4, QuietStep
<1>5. CASE Call
  BY <1>1, <1>5, RunStep, SkipStep
<1>6. QED BY <1>2, <1>3, <1>4, <1>5 DEF Handle

-----------------------------------------------------------------------------
\* The invariant, and what it gives

LEMMA NextIInv ==
    ASSUME IInv, [Next]_vars
    PROVE  IInv'
<1>1. CASE TakeBuffered
  BY <1>1, TakeBufferedStep
<1>2. CASE Flush
  BY <1>2, FlushStep
<1>3. CASE Handle
  BY <1>3, HandleStep
<1>4. CASE WaitFrame
  BY <1>4, WaitFrameStep
<1>5. CASE WaitClosed \/ WaitShutdown
  BY <1>5, EndStep DEF WaitClosed, WaitShutdown
<1>6. CASE WaitLagged
  BY <1>6, WaitLaggedStep
<1>7. CASE WaitEvent
  BY <1>7, WaitEventStep
<1>8. CASE Send
  BY <1>8, SendStep
<1>9. CASE Signal
  BY <1>9, SignalStep
<1>10. CASE UpdateResource
  <2>1. PICK u \in resources : Broadcast([type |-> "updated", uri |-> u]) /\ UNCHANGED resources
    BY <1>10 DEF UpdateResource
  <2>2. resources \subseteq Uris
    BY DEF IInv, Typed
  <2>3. PICK e \in Events : e = [type |-> "updated", uri |-> u]
    BY <2>2 DEF Events
  <2>4. QED BY <2>1, <2>2, <2>3, BroadcastStep
<1>11. CASE AddResource
  <2>1. PICK u \in Uris \ resources :
          Broadcast([type |-> "list_changed", uri |-> u]) /\ resources' = resources \cup {u}
    BY <1>11 DEF AddResource
  <2>2. resources' \subseteq Uris
    BY <2>1 DEF IInv, Typed
  <2>3. PICK e \in Events : e = [type |-> "list_changed", uri |-> u]
    BY DEF Events
  <2>4. QED BY <2>1, <2>2, <2>3, BroadcastStep
<1>12. CASE UNCHANGED vars
  <2>1. Typed'
    BY <1>12 DEF IInv, Typed, vars, reading, session, registry, client
  <2>2. FrameInv' /\ BatchInv'
    BY <1>12, FramesStay DEF IInv, BatchInv, vars, reading, client, InHand
  <2>3. TalkInv' /\ AnswerInv'
    BY <1>12, TalkStays DEF vars, reading, Produced
  <2>4. QED BY <2>1, <2>2, <2>3 DEF IInv
<1>13. QED BY <1>1, <1>2, <1>3, <1>4, <1>5, <1>6, <1>7, <1>8, <1>9, <1>10, <1>11, <1>12
           DEF Next, Session

\* Whatever the session does, its state is as IInv says.
THEOREM SessionInductive == Spec => []IInv
  BY InitIInv, NextIInv, PTL DEF Spec

\* A session flushes before it waits, however its frames were batched (handle_conn).
THEOREM NothingHeldBackAlways == Spec => []NothingHeldBack
<1>1. IInv => NothingHeldBack
  BY DEF IInv, BatchInv, NothingHeldBack
<1>2. QED BY <1>1, SessionInductive, PTL

\* Nothing but refusals before the Auth frame was accepted (handle_conn's check of
\* `authenticated` before each handler and each push).
THEOREM SilentUntilAcceptedAlways == Spec => []SilentUntilAccepted
<1>1. IInv => SilentUntilAccepted
  BY DEF IInv, TalkInv, SilentIn, SilentUntilAccepted
<1>2. QED BY <1>1, SessionInductive, PTL

\* Pushes lie between the answers to a subscribe and an unsubscribe (handle_conn
\* looks into `subscriptions` when an event comes, not when it was raised).
THEOREM PushesFollowSubscriptionAlways == Spec => []PushesFollowSubscription
<1>1. IInv => PushesFollowSubscription
  BY DEF IInv, TalkInv, FollowsIn, Ends, PushesFollowSubscription
<1>2. QED BY <1>1, SessionInductive, PTL

\* Every request gets one answer, in order, and a call is skipped just when its
\* Cancel was handled before it (handle_conn's dispatch and `cancelled`).
THEOREM AnswersInOrderAlways == Spec => []AnswersInOrder
<1>1. ASSUME IInv PROVE AnswersInOrder
  <2>1. TypeOK
    BY <1>1 DEF IInv, Typed, TypeOK
  <2>2. ASSUME Clear
        PROVE  /\ Ascending(handled) /\ OrderedIn(Produced) /\ AllAnswered /\ CallsAnswered
    BY <1>1, <2>2 DEF IInv, FrameInv, AnswerInv
  <2>3. ASSUME AllAnswered
        PROVE  {Produced[i].id : i \in {i \in DOMAIN Produced : IsFinal(Produced[i])}}
                  = {handled[i].id : i \in {i \in DOMAIN handled : handled[i].kind \notin Silent}}
    BY <2>3 DEF AllAnswered, Answers, Asked, In
  <2>4. ASSUME CallsAnswered,
               NEW i \in DOMAIN handled, handled[i].kind \notin Silent,
               NEW j \in DOMAIN Produced, IsFinal(Produced[j]),
               handled[i].id = Produced[j].id, handled[i].kind \in Calls
        PROVE  (Produced[j].type = "cancelled") = CancelledBefore(handled[i])
    <3>1. handled[i] \in Asked /\ Produced[j] \in Answers(Produced)
      BY <2>4 DEF Asked, Answers, In
    <3>2. QED BY <2>4, <3>1 DEF CallsAnswered
  <2>5. QED BY <2>1, <2>2, <2>3, <2>4 DEF AnswersInOrder, Clear, OrderedIn, Calls
<1>2. QED BY <1>1, SessionInductive, PTL
=============================================================================

--------------------------- MODULE ServerSession ----------------------------
(***************************************************************************)
(* handle_conn (ohmcpd/src/server.rs): one session of the daemon.  Frames  *)
(* that are already in the read buffer are handled one after another with  *)
(* their responses only queued; when it has run dry the session flushes    *)
(* once and waits for a frame, a resource event or the shutdown signal.    *)
(*                                                                         *)
(* Requests whose handler answers and changes nothing (Initialize, List*,  *)
(* ReadResource, GetPrompt, Ping) are "plain".  Tool calls are answered by *)
(* their id; the cache is CacheRef's subject.  The tool ACL never refuses: *)
(* run_with grants everything to whoever may get as far as CallTool.       *)
(* Resource events come through a broadcast channel of EventCap events     *)
(* that forgets its oldest when a receiver lags.                           *)
(*                                                                         *)
(* FlushNothing, WaitShutdownBreaksWait, PushedToAll, WaitEventQueued,     *)
(* UnsubscribeNothing and CallAnyway are plausible mistakes, used by no    *)
(* action.                                                                 *)
(***************************************************************************)
EXTENDS Integers, Sequences

CONSTANTS Uris,      \* the resources there may be
          EventCap,  \* capacity of the broadcast channel (64)
          Settings   \* the daemons and the clients considered, see below

\* One daemon and what its client may do:
\*   token      is authentication enabled?  "yes" or "no"
\*   resources  registered at the start
\*   kinds      the kinds of frames the client sends
\*   ahead      may it cancel an id before using it?  (raw clients)
\*   sends      bound: frames of the client
\*   events     bound: resource events
IsSetting(s) ==
    /\ {s.token, s.ahead} \subseteq {"yes", "no"} /\ s.resources \subseteq Uris
    /\ s.kinds \subseteq {"good_auth", "bad_auth", "plain", "malformed", "unexpected",
                          "subscribe", "unsubscribe", "cancel", "call", "call_with_progress"}
    /\ s.sends \in Nat /\ s.events \in Nat

ASSUME SessionAssumption == EventCap \in Nat \ {0} /\ \A s \in Settings : IsSetting(s)

VARIABLES setting,       \* the setting of this behaviour, fixed
          socket,        \* frames the client sent and the session has not read
          buf,           \* FrameReader's buffer: frames read and not yet taken
          pc,            \* "loop", "handle", "wait", or how the session ended
          frame,         \* the frame in hand
          authenticated, subscribed, cancelled,
          out,           \* FrameWriter's buffer
          wire,          \* frames flushed to the client
          events,        \* the session's part of the broadcast channel
          lagged,        \* has it lost events since its last recv?
          resources,     \* registered uris
          signals,       \* "shutdown" and "hangup" (client closed) when given
          sent, raised,  \* number of frames sent, of events raised
          handled        \* history: frames handled, in order

reading == <<setting, socket, buf, frame>>
session == <<authenticated, subscribed, cancelled>>
registry == <<events, lagged, resources, raised>>
client == <<sent, signals>>
vars == <<pc, reading, session, out, wire, registry, client, handled>>

Ended == {"rejected", "failed", "closed", "shut_down"}

Init ==
    /\ setting \in Settings
    /\ socket = <<>> /\ buf = <<>> /\ pc = "loop" /\ frame = [kind |-> "none", id |-> 0, arg |-> 0]
    /\ authenticated = IF setting.token = "yes" THEN "no" ELSE "yes"
    /\ subscribed = {} /\ cancelled = {}
    /\ out = <<>> /\ wire = <<>>
    /\ events = <<>> /\ lagged = "no"
    /\ resources = setting.resources
    /\ signals = {} /\ sent = 0 /\ raised = 0
    /\ handled = <<>>

-----------------------------------------------------------------------------
\* The loop

\* next_buffered finds a frame: no flush while there is more to do.
TakeBuffered ==
    /\ pc = "loop" /\ buf # <<>>
    /\ frame' = Head(buf) /\ buf' = Tail(buf) /\ pc' = "handle"
    /\ UNCHANGED <<setting, socket, session, out, wire, registry, client, handled>>

FlushNothing ==
    /\ pc = "loop" /\ buf = <<>>
    /\ pc' = "wait"
    /\ UNCHANGED <<reading, session, out, wire, registry, client, handled>>

\* The buffer has run dry: one flush, which fails when the client has closed.
Flush ==
    /\ pc = "loop" /\ buf = <<>>
    /\ IF "hangup" \in signals /\ out # <<>> THEN pc' = "failed" /\ UNCHANGED <<out, wire>>
       ELSE pc' = "wait" /\ wire' = wire \o out /\ out' = <<>>
    /\ UNCHANGED <<reading, session, registry, client, handled>>

\* next_frame: one read may bring any number of whole frames.
WaitFrame ==
    /\ pc = "wait" /\ socket # <<>>
    /\ \E n \in 1 .. Len(socket) :
          /\ frame' = Head(socket)
          /\ buf' = SubSeq(socket, 2, n)
          /\ socket' = SubSeq(socket, n + 1, Len(socket))
    /\ pc' = "handle"
    /\ UNCHANGED <<setting, session, out, wire, registry, client, handled>>

\* Leaving the loop: queued responses are flushed, if the client is still there.
End(how) ==
    /\ pc' = how /\ out' = <<>>
    /\ wire' = IF "hangup" \in signals THEN wire ELSE wire \o out
    /\ UNCHANGED <<reading, session, registry, client, handled>>

WaitClosed == pc = "wait" /\ socket = <<>> /\ "hangup" \in signals /\ End("closed")
WaitShutdownBreaksWait ==
    /\ pc = "wait" /\ "shutdown" \in signals /\ pc' = "loop"
    /\ UNCHANGED <<reading, session, out, wire, registry, client, handled>>
WaitShutdown == pc = "wait" /\ "shutdown" \in signals /\ End("shut_down")

PushedToAll(e) == <<[type |-> e.type, id |-> 0, arg |-> e.uri]>>
\* What a resource event makes the session push, if anything.
Pushed(e) ==
    IF e.type = "updated" /\ e.uri \in subscribed
    THEN <<[type |-> "updated", id |-> 0, arg |-> e.uri]>>
    ELSE IF e.type = "list_changed" /\ authenticated = "yes"
         THEN <<[type |-> "list_changed", id |-> 0, arg |-> 0]>>
         ELSE <<>>
\* recv returns Lagged once, and then the oldest event the channel still has.
WaitLagged ==
    /\ pc = "wait" /\ lagged = "yes" /\ lagged' = "no"
    /\ UNCHANGED <<pc, reading, session, out, wire, events, resources, raised, client, handled>>

WaitEventQueued ==
    /\ pc = "wait" /\ lagged = "no" /\ events # <<>>
    /\ out' = out \o Pushed(Head(events)) /\ events' = Tail(events)
    /\ UNCHANGED <<pc, reading, session, wire, lagged, resources, raised, client, handled>>
WaitEvent ==
    /\ pc = "wait" /\ lagged = "no" /\ events # <<>>
    /\ LET push == Pushed(Head(events))
       IN  IF push # <<>> /\ "hangup" \in signals
           THEN pc' = "failed" /\ out' = push /\ UNCHANGED wire
           ELSE wire' = wire \o push /\ UNCHANGED <<pc, out>>
    /\ events' = Tail(events)
    /\ UNCHANGED <<reading, session, lagged, resources, raised, client, handled>>

-----------------------------------------------------------------------------
\* Handlers

Response(type) == [type |-> type, id |-> frame.id, arg |-> frame.arg]
Queue(types) == out' = out \o [i \in DOMAIN types |-> Response(types[i])]
Answer(types) == pc' = "loop" /\ Queue(types)
Allowed(kinds) == frame.kind \in kinds /\ authenticated = "yes"

GoodAuth ==
    /\ frame.kind = "good_auth" /\ setting.token = "yes"
    /\ authenticated' = "yes"
    /\ Answer(<<"accepted">>)
    /\ UNCHANGED <<subscribed, cancelled>>

\* The refusal is queued, and the session returns past its final flush.
BadAuth ==
    /\ \/ frame.kind = "bad_auth"
       \/ frame.kind = "good_auth" /\ setting.token = "no"
    /\ pc' = "rejected" /\ Queue(<<"rejected">>)
    /\ UNCHANGED session

Unauthenticated ==
    /\ frame.kind \notin {"good_auth", "bad_auth"} /\ authenticated = "no"
    /\ Answer(<<"unauthenticated">>)
    /\ UNCHANGED session

\* A body that does not decrypt or parse ends the session, queue and all.
Malformed ==
    /\ Allowed({"malformed"})
    /\ pc' = "failed"
    /\ UNCHANGED <<session, out>>

Plain ==
    /\ Allowed({"plain"})
    /\ Answer(<<"result">>)
    /\ UNCHANGED session

Unexpected ==
    /\ Allowed({"unexpected"})
    /\ Answer(<<>>)
    /\ UNCHANGED session

Subscribe ==
    /\ Allowed({"subscribe"})
    /\ IF frame.arg \in resources
       THEN subscribed' = subscribed \cup {frame.arg} /\ Answer(<<"subscribed">>)
       ELSE Answer(<<"not_found">>) /\ UNCHANGED subscribed
    /\ UNCHANGED <<authenticated, cancelled>>

UnsubscribeNothing ==
    /\ Allowed({"unsubscribe"})
    /\ Answer(<<"unsubscribed">>)
    /\ UNCHANGED session
\* Any uri may be given up.
Unsubscribe ==
    /\ Allowed({"unsubscribe"})
    /\ subscribed' = subscribed \ {frame.arg}
    /\ Answer(<<"unsubscribed">>)
    /\ UNCHANGED <<authenticated, cancelled>>

Cancel ==
    /\ Allowed({"cancel"})
    /\ cancelled' = cancelled \cup {frame.arg}
    /\ Answer(<<>>)
    /\ UNCHANGED <<authenticated, subscribed>>

CallAnyway ==
    /\ Allowed({"call", "call_with_progress"})
    /\ IF frame.id \in cancelled
       THEN cancelled' = cancelled \ {frame.id} /\ Answer(<<"cancelled", "result">>)
       ELSE /\ Answer(IF frame.kind = "call" THEN <<"result">> ELSE <<"progress", "result">>)
            /\ UNCHANGED cancelled
    /\ UNCHANGED <<authenticated, subscribed>>
\* A cancelled call is answered with -32800 and forgotten; it is not run.
Call ==
    /\ Allowed({"call", "call_with_progress"})
    /\ IF frame.id \in cancelled
       THEN cancelled' = cancelled \ {frame.id} /\ Answer(<<"cancelled">>)
       ELSE /\ Answer(IF frame.kind = "call" THEN <<"result">> ELSE <<"progress", "result">>)
            /\ UNCHANGED cancelled
    /\ UNCHANGED <<authenticated, subscribed>>

Handle ==
    /\ pc = "handle"
    /\ \/ GoodAuth \/ BadAuth \/ Unauthenticated \/ Malformed \/ Plain \/ Unexpected
       \/ Subscribe \/ Unsubscribe \/ Cancel \/ Call
    /\ handled' = Append(handled, frame)
    /\ UNCHANGED <<reading, wire, registry, client>>

-----------------------------------------------------------------------------
\* The client, the registry's owner and run_with

Args(kind) ==
    IF kind \in {"subscribe", "unsubscribe"} THEN Uris
    ELSE IF kind = "cancel" THEN IF setting.ahead = "yes" THEN 1 .. setting.sends ELSE 1 .. sent
    ELSE {0}

Send ==
    /\ sent < setting.sends /\ "hangup" \notin signals /\ pc \notin Ended
    /\ \E kind \in setting.kinds : \E arg \in Args(kind) :
          /\ socket' = Append(socket, [kind |-> kind, id |-> sent + 1, arg |-> arg])
    /\ sent' = sent + 1
    /\ UNCHANGED <<setting, pc, buf, frame, session, out, wire, registry, signals, handled>>

Signal ==
    /\ pc \notin Ended
    /\ \E s \in {"hangup", "shutdown"} \ signals : signals' = signals \cup {s}
    /\ UNCHANGED <<pc, reading, session, out, wire, registry, sent, handled>>

Broadcast(e) ==
    /\ raised < setting.events /\ pc \notin Ended
    /\ raised' = raised + 1
    /\ IF Len(events) = EventCap
       THEN events' = Append(Tail(events), e) /\ lagged' = "yes"
       ELSE events' = Append(events, e) /\ UNCHANGED lagged
    /\ UNCHANGED <<pc, reading, session, out, wire, client, handled>>

\* update_resource and ResourceUpdater::update
UpdateResource ==
    \E u \in resources :
        /\ Broadcast([type |-> "updated", uri |-> u])
        /\ UNCHANGED resources

AddResource ==
    \E u \in Uris \ resources :
        /\ Broadcast([type |-> "list_changed", uri |-> u])
        /\ resources' = resources \cup {u}
    
Session ==
    \/ TakeBuffered \/ Flush \/ Handle
    \/ WaitFrame \/ WaitClosed \/ WaitShutdown \/ WaitLagged \/ WaitEvent

Next == Session \/ Send \/ Signal \/ UpdateResource \/ AddResource
Spec == Init /\ [][Next]_vars

\* The runtime polls the session's task whenever something has woken it.
FairSpec == Spec /\ WF_vars(Session)

-----------------------------------------------------------------------------
\* Properties

Produced == wire \o out
TypeOK ==
    /\ pc \in {"loop", "handle", "wait"} \cup Ended
    /\ subscribed \subseteq Uris /\ resources \subseteq Uris
    /\ Len(events) <= EventCap /\ lagged \in {"yes", "no"}
    /\ cancelled \subseteq 1 .. setting.sends

Silent == {"cancel", "unexpected", "malformed"}
IsFinal(r) == r.type \notin {"progress", "updated", "list_changed"}

Ascending(q) == \A i, j \in DOMAIN q : i < j => q[i].id < q[j].id
CancelledBefore(f) ==
    \E i, j \in DOMAIN handled :
        i < j /\ handled[i].kind = "cancel" /\ handled[i].arg = f.id /\ handled[j] = f

\* Every handled request is answered once, in the order of the requests (their ids
\* ascend), and nothing else is: batching, cancellation and pushes lose and repeat
\* nothing.  A call is skipped just when a Cancel of it was handled before it.
\* (Kinds without an answer get one where a token is still missing.)
AnswersInOrder ==
    LET answered == {i \in DOMAIN Produced : IsFinal(Produced[i])}
        asked == {i \in DOMAIN handled : handled[i].kind \notin Silent}
    IN  /\ TypeOK
        /\ setting.token = "no" \/ setting.kinds \cap Silent = {} =>
              /\ Ascending(handled)
              /\ \A i, j \in answered : i < j => Produced[i].id < Produced[j].id
              /\ {Produced[i].id : i \in answered} = {handled[i].id : i \in asked}
              /\ \A i \in asked, j \in answered :
                    handled[i].id = Produced[j].id /\ handled[i].kind \in {"call", "call_with_progress"} =>
                        (Produced[j].type = "cancelled") = CancelledBefore(handled[i])

\* A session that waits, or that has ended because its client or the daemon did,
\* holds no response back: batching delays nothing beyond the batch.
NothingHeldBack == pc \in {"wait", "closed", "shut_down"} => out = <<>>

\* Before it has accepted the client's token a session says nothing but refusals.
SilentUntilAccepted ==
    setting.token = "yes" =>
        \A i \in DOMAIN Produced :
            \/ Produced[i].type \in {"unauthenticated", "rejected", "accepted"}
            \/ \E j \in 1 .. i - 1 : Produced[j].type = "accepted"

\* A ResourceUpdated reaches the client only between the answers to its subscribe
\* and its unsubscribe, although events queue up and answers are batched.
PushesFollowSubscription ==
    \A i \in DOMAIN Produced : Produced[i].type = "updated" =>
        \E j \in 1 .. i - 1 :
            /\ Produced[j].type = "subscribed" /\ Produced[j].arg = Produced[i].arg
            /\ \A k \in j .. i : ~(Produced[k].type = "unsubscribed" /\ Produced[k].arg = Produced[i].arg)

\* What docs/design.md says of Cancel: a call the daemon has not come to yet is
\* skipped.  Here the Cancel is in the session's own buffer when the call's turn
\* comes.  Frames are handled in the order they were sent: the Cancel is seen too late.
CancelInHandSkips ==
    pc = "handle" /\ frame.kind \in {"call", "call_with_progress"} /\ authenticated = "yes" =>
        \A i \in DOMAIN buf : buf[i].kind = "cancel" /\ buf[i].arg = frame.id => frame.id \in cancelled

\* Whatever a client has sent is handled and answered, or its session ends.
EveryBatchEnds ==
    sent > 0 ~> \/ pc = "wait" /\ socket = <<>> /\ buf = <<>> /\ out = <<>>
                \/ pc \in Ended

\* The shutdown signal ends the session, although it looks only while it waits.
ShutdownEnds == "shutdown" \in signals ~> pc \in Ended
=============================================================================

-------------------------- MODULE ResourceRegistry --------------------------
(***************************************************************************)
(* The resources of ToolRegistry and ResourceUpdater (ohmcpd/src/tools.rs) *)
(* with several threads of the host that update and add them, and several  *)
(* sessions whose clients want to stay up to date.  An update writes the   *)
(* contents under their lock and broadcasts after it; an addition takes    *)
(* the lock of the list, then the lock of the contents, then broadcasts.   *)
(* Each of these is a step.  Contents are known by their version, 0 where  *)
(* there are none.                                                         *)
(*                                                                         *)
(* A session answers its client's requests and passes events on as its     *)
(* select! happens to choose; ServerSession has the batches.  A client     *)
(* makes one call after another and sees a notification only while one of  *)
(* them waits (recv_response).  It reads a resource when it has subscribed *)
(* to it and when it is told of an update, lists the resources at first    *)
(* and when it is told of a change, and pings when it has nothing to do.   *)
(*                                                                         *)
(* AnnounceThenWrite and AnnounceThenAdd are plausible mistakes, used by   *)
(* no action.                                                              *)
(***************************************************************************)
EXTENDS Integers, Sequences

CONSTANTS Uris, Writers, Sessions, NoUri,
          EventCap,   \* capacity of the broadcast channel (64)
          Settings    \* the worlds considered, see below

\* One world:
\*   resources           registered before the daemon starts
\*   writers, sessions   that there are
\*   again               may a known uri be added?  "yes" or "no"
\*   changes             bound: updates and additions
\*   choices             bound: a client's subscriptions and their ends
IsSetting(s) ==
    /\ s.resources \subseteq Uris /\ s.writers \subseteq Writers /\ s.sessions \subseteq Sessions
    /\ s.again \in {"yes", "no"} /\ s.changes \in Nat /\ s.choices \in Nat

ASSUME RegistryAssumption ==
    NoUri \notin Uris /\ EventCap \in Nat \ {0} /\ \A s \in Settings : IsSetting(s)

VARIABLES setting,     \* the setting of this behaviour, fixed
          resources,   \* the uris of the list
          contents,    \* per uri: version
          writer,      \* per writer: the steps it has still to do, to which uri
          changes,     \* number of changes begun
          log,         \* every event broadcast
          cursor,      \* per session: events received
          lost,        \* sessions that have lagged
          subscribed,  \* per session: uris
          up, down,    \* per session: its client's request, frames to the client
          client       \* per session: what its client knows

shared == <<resources, contents>>
receivers == <<cursor, lost, subscribed>>
wires == <<up, down>>
vars == <<setting, shared, writer, changes, log, receivers, wires, client>>

Frame(type, u) == [type |-> type, uri |-> u, version |-> 0, listing |-> {}]
NoRequest == Frame("none", NoUri)
IdleWriter == [todo |-> <<>>, uri |-> NoUri]

\* A client:  known    per uri: version last read
\*            follows  uris it has subscribed to;   stale   uris it has to read
\*            listing  uris it has seen listed;     relist  has it to list them?
\*            choices  number of subscriptions and ends of subscriptions
NewClient == [known |-> [u \in Uris |-> 0], follows |-> {}, stale |-> {},
              listing |-> {}, relist |-> "yes", choices |-> 0]

Init ==
    /\ setting \in Settings
    /\ resources = setting.resources
    /\ contents = [u \in Uris |-> IF u \in setting.resources THEN 1 ELSE 0]
    /\ writer = [w \in Writers |-> IdleWriter] /\ changes = 0
    /\ log = <<>> /\ cursor = [s \in Sessions |-> 0] /\ lost = {}
    /\ subscribed = [s \in Sessions |-> {}]
    /\ up = [s \in Sessions |-> NoRequest] /\ down = [s \in Sessions |-> <<>>]
    /\ client = [s \in Sessions |-> NewClient]

-----------------------------------------------------------------------------
\* The host's threads

\* What a thread does, ending with the event it broadcasts.
AnnounceThenWrite == <<"updated", "write">>
\* update_resource and ResourceUpdater::update
UpdateSteps == <<"write", "updated">>
AnnounceThenAdd == <<"list_changed", "list", "insert">>
\* ResourceUpdater::add_resource
AddSteps == <<"list", "insert", "list_changed">>

Begun(u) == u \in resources \/ \E w \in Writers : writer[w] # IdleWriter /\ writer[w].uri = u

\* Any uri may be updated, even one that is unknown.  add_resource is for new ones:
\* for a known uri it replaces the contents, and tells no subscriber.
Begin(w, u) ==
    /\ w \in setting.writers /\ writer[w] = IdleWriter /\ changes < setting.changes
    /\ \E steps \in {UpdateSteps} \cup (IF setting.again = "no" /\ Begun(u) THEN {} ELSE {AddSteps}) :
          writer' = [writer EXCEPT ![w] = [todo |-> steps, uri |-> u]]
    /\ changes' = changes + 1
    /\ UNCHANGED <<setting, shared, log, receivers, wires, client>>

At(w, steps) == writer[w].todo # <<>> /\ Head(writer[w].todo) \in steps
Finish(w) == writer' = [writer EXCEPT ![w] = IdleWriter]
Done(w) ==
    IF Len(writer[w].todo) = 1 THEN Finish(w)
    ELSE writer' = [writer EXCEPT ![w].todo = Tail(@)]

PushToList(w) ==
    /\ At(w, {"list"})
    /\ resources' = resources \cup {writer[w].uri} /\ Done(w)
    /\ UNCHANGED <<setting, contents, changes, log, receivers, wires, client>>

NewVersion(u) == contents' = [contents EXCEPT ![u] = @ + 1]

\* A uri without contents is not updated, and nothing is announced.
WriteContents(w) ==
    /\ At(w, {"write"})
    /\ IF contents[writer[w].uri] = 0 THEN Finish(w) /\ UNCHANGED contents
       ELSE NewVersion(writer[w].uri) /\ Done(w)
    /\ UNCHANGED <<setting, resources, changes, log, receivers, wires, client>>

InsertContents(w) ==
    /\ At(w, {"insert"})
    /\ NewVersion(writer[w].uri) /\ Done(w)
    /\ UNCHANGED <<setting, resources, changes, log, receivers, wires, client>>

\* The event of a list change carries no uri; ours does, for the properties.
Tell(w) ==
    /\ At(w, {"updated", "list_changed"})
    /\ log' = Append(log, Frame(Head(writer[w].todo), writer[w].uri))
    /\ Done(w)
    /\ UNCHANGED <<setting, shared, changes, receivers, wires, client>>

Host(w) == PushToList(w) \/ WriteContents(w) \/ InsertContents(w) \/ Tell(w)

-----------------------------------------------------------------------------
\* Sessions (handle_conn)

Say(s, frames) == down' = [down EXCEPT ![s] = @ \o frames]

\* list_resources, read_resource and has_resource take one lock each.
Answer(s, r) ==
    LET found == contents[r.uri] # 0
    IN  CASE r.type = "list" -> [Frame("listing", NoUri) EXCEPT !.listing = resources]
          [] r.type = "read" /\ found -> [Frame("contents", r.uri) EXCEPT !.version = contents[r.uri]]
          [] r.type = "subscribe" /\ found -> Frame("subscribed", r.uri)
          [] r.type \in {"read", "subscribe"} /\ ~found -> Frame("not_found", r.uri)
          [] r.type = "unsubscribe" -> Frame("unsubscribed", r.uri)
          [] r.type = "ping" -> Frame("pong", NoUri)

Serve(s) ==
    /\ up[s] # NoRequest
    /\ LET r == up[s]
           a == Answer(s, r)
       IN  /\ Say(s, <<a>>)
           /\ subscribed' = CASE a.type = "subscribed" -> [subscribed EXCEPT ![s] = @ \cup {r.uri}]
                              [] a.type = "unsubscribed" -> [subscribed EXCEPT ![s] = @ \ {r.uri}]
                              [] OTHER -> subscribed
    /\ up' = [up EXCEPT ![s] = NoRequest]
    /\ UNCHANGED <<setting, shared, writer, changes, log, cursor, lost, client>>

Pushed(s, e) ==
    IF e.type = "list_changed" \/ e.uri \in subscribed[s] THEN <<e>> ELSE <<>>

Backlog(s) == Len(log) - cursor[s]

ReceiveEvent(s) ==
    /\ Backlog(s) \in 1 .. EventCap
    /\ Say(s, Pushed(s, log[cursor[s] + 1]))
    /\ cursor' = [cursor EXCEPT ![s] = @ + 1]
    /\ UNCHANGED <<setting, shared, writer, changes, log, lost, subscribed, up, client>>

\* RecvError::Lagged: on with the oldest event that the channel still has.
SkipLost(s) ==
    /\ Backlog(s) > EventCap
    /\ cursor' = [cursor EXCEPT ![s] = Len(log) - EventCap] /\ lost' = lost \cup {s}
    /\ UNCHANGED <<setting, shared, writer, changes, log, subscribed, wires, client>>

Receive(s) == ReceiveEvent(s) \/ SkipLost(s)

-----------------------------------------------------------------------------
\* Clients

InCall(s) == up[s] # NoRequest \/ \E i \in DOMAIN down[s] : down[s][i].type \notin {"updated", "list_changed"}

Call(s, type, u) ==
    /\ s \in setting.sessions /\ ~InCall(s)
    /\ up' = [up EXCEPT ![s] = Frame(type, u)]
    /\ UNCHANGED <<setting, shared, writer, changes, log, receivers, down>>

ReadStale(s) ==
    \E u \in client[s].stale :
        /\ Call(s, "read", u)
        /\ client' = [client EXCEPT ![s].stale = @ \ {u}]

ReList(s) ==
    /\ client[s].relist = "yes" /\ Call(s, "list", NoUri)
    /\ client' = [client EXCEPT ![s].relist = "no"]

Ping(s) ==
    /\ client[s].stale = {} /\ client[s].relist = "no"
    /\ Call(s, "ping", NoUri) /\ UNCHANGED client

Choose(s) ==
    /\ client[s].choices < setting.choices
    /\ \/ \E u \in client[s].listing \ client[s].follows : Call(s, "subscribe", u)
       \/ \E u \in client[s].follows : Call(s, "unsubscribe", u)
    /\ client' = [client EXCEPT ![s].choices = @ + 1]

\* recv_response: notifications to their callbacks, until the answer comes.
Hear(s) ==
    /\ InCall(s) /\ down[s] # <<>>
    /\ LET f == Head(down[s])
           c == client[s]
       IN  client' = [client EXCEPT ![s] =
             CASE f.type = "updated" -> [c EXCEPT !.stale = @ \cup ({f.uri} \cap c.follows)]
               [] f.type = "list_changed" -> [c EXCEPT !.relist = "yes"]
               [] f.type = "listing" -> [c EXCEPT !.listing = f.listing]
               [] f.type = "contents" -> [c EXCEPT !.known[f.uri] = f.version]
               [] f.type = "subscribed" -> [c EXCEPT !.follows = @ \cup {f.uri}, !.stale = @ \cup {f.uri}]
               [] f.type = "unsubscribed" -> [c EXCEPT !.follows = @ \ {f.uri}, !.stale = @ \ {f.uri}]
               [] OTHER -> c]
    /\ down' = [down EXCEPT ![s] = Tail(@)]
    /\ UNCHANGED <<setting, shared, writer, changes, log, receivers, up>>

Dutiful(s) == ReadStale(s) \/ ReList(s) \/ Ping(s) \/ Hear(s)

-----------------------------------------------------------------------------
Next ==
    \/ \E w \in Writers : Host(w) \/ \E u \in Uris : Begin(w, u)
    \/ \E s \in Sessions : Serve(s) \/ Receive(s) \/ Dutiful(s) \/ Choose(s)

Spec == Init /\ [][Next]_vars

\* A thread that has begun goes on, a session takes what is ready, and a client keeps
\* calling.
Fairness ==
    /\ \A w \in Writers : WF_vars(Host(w))
    /\ \A s \in Sessions : WF_vars(Serve(s)) /\ WF_vars(Receive(s)) /\ WF_vars(Dutiful(s))
FairSpec == Spec /\ Fairness

-----------------------------------------------------------------------------
\* Properties

TypeOK ==
    /\ resources \subseteq Uris /\ contents \in [Uris -> Nat]
    /\ lost \subseteq Sessions /\ subscribed \in [Sessions -> SUBSET Uris]
    /\ \A s \in Sessions : cursor[s] \in 0 .. Len(log)
    /\ \A s \in Sessions : client[s].known \in [Uris -> Nat]
    /\ \A s \in Sessions : client[s].stale \subseteq client[s].follows /\ client[s].listing \subseteq resources

\* An announcement is on its way: a thread is about to make it, the session's channel
\* has it, or it has been sent.
Coming(s, type, u) ==
    \/ \E w \in Writers : writer[w].uri = u /\ At(w, {type})
    \/ \E i \in cursor[s] + 1 .. Len(log) : log[i] = Frame(type, u)
    \/ \E i \in DOMAIN down[s] : down[s][i] = Frame(type, u)

Reading(s, u) ==
    \/ u \in client[s].stale \/ up[s] = Frame("read", u)
    \/ \E i \in DOMAIN down[s] :
          down[s][i].uri = u /\ down[s][i].type = "contents" /\ down[s][i].version = contents[u]

\* docs/design.md:68: a subscriber whose version of a resource is old is about to read
\* it, or about to be told, unless its session lagged: between the write, its
\* announcement, a subscription and a read by any threads, no update falls through.
\* (A known uri that is added again is replaced without an update.)
OutdatedAreTold ==
    TypeOK /\ \A s \in Sessions \ lost : \A u \in client[s].follows :
        \/ setting.again = "yes"
        \/ client[s].known[u] = contents[u]
        \/ Reading(s, u) \/ Coming(s, "updated", u)
        \/ up[s] = Frame("unsubscribe", u)
        \/ \E i \in DOMAIN down[s] : down[s][i] = Frame("unsubscribed", u)

\* docs/design.md:72: who lists the resources because of an announcement finds the one
\* it is about, and can read it and subscribe to it, although three steps add it.
AnnouncedIsReadable ==
    \A i \in DOMAIN log : log[i].type = "list_changed" =>
        log[i].uri \in resources /\ contents[log[i].uri] # 0

\* A client whose listing lacks a resource that can be read is about to list anew, or
\* about to be told, unless its session lagged.
NewIsListed ==
    \A s \in setting.sessions \ lost : \A u \in Uris :
        contents[u] # 0 /\ u \notin client[s].listing =>
            \/ client[s].relist = "yes" \/ up[s].type = "list" \/ Coming(s, "list_changed", u)
            \/ \E i \in DOMAIN down[s] : u \in down[s][i].listing

Fresh(s) ==
    /\ client[s].listing = resources
    /\ \A u \in client[s].follows : client[s].known[u] = contents[u]

\* Once the host changes nothing more, every client ends up with the listing and with
\* the contents it follows, unless its session lagged.
AllEndUpFresh == \A s \in Sessions : <>[](s \in setting.sessions \ lost => Fresh(s))
=============================================================================

------------------------------ MODULE CacheRef ------------------------------
(***************************************************************************)
(* The two symmetric caches and the CACHE_REF shortcut between them: the   *)
(* server's shared cache and each session's `delivered` set (server.rs),   *)
(* and the cache of each client (lib.rs, pipeline.rs).  The server replies *)
(* with a bare key when it thinks that the client has a complete copy; the *)
(* client then looks the key up in its own cache.                          *)
(*                                                                         *)
(* A session handles its frames one after another, sessions run in         *)
(* parallel; a lookup that misses, the tool's run and the put are two      *)
(* steps (two critical sections of the server's cache mutex).  On a        *)
(* client, whoever holds the reader lock puts frames in the mailboxes of   *)
(* their owners, which unwrap and remember them in steps of their own.     *)
(* The caches themselves are ResultCache's, reduced to what CachePromise   *)
(* says and to what a victim of evict_lru may be when the sample is small. *)
(*                                                                         *)
(* AliveForever, ExpectsAnything and RememberNothing are plausible         *)
(* mistakes, used by no action.                                            *)
(***************************************************************************)
EXTENDS Integers, FiniteSets, Sequences

CONSTANTS Conns, Tasks, Keys, Nothing,
          Settings,        \* how the tasks may use the connections, see below
          TTL,
          MaxTime          \* bound: the clock

\* One way of using them:
\*   conn    the connection of each task
\*   kinds   "plain": call_tool with arguments under 16 KiB;
\*           "keyless": call_tool_with_progress, or larger arguments
\*   drops   may callers drop a call (time out)?
\*   slow    may time pass while a call is under way?
\*   room    results that a client's cache holds
\*   store   results that the server's cache holds
\*   calls   bound: calls of each task
IsSetting(s) ==
    /\ s.conn \in [Tasks -> Conns] /\ s.kinds \subseteq {"plain", "keyless"}
    /\ {s.drops, s.slow} \subseteq {"yes", "no"}
    /\ {s.room, s.store} \subseteq Nat \ {0} /\ s.calls \in [Tasks -> Nat]

ASSUME RefAssumption ==
    /\ \A s \in Settings : IsSetting(s)
    /\ TTL \in Nat \ {0} /\ MaxTime \in Nat
    /\ IsFiniteSet(Keys) /\ Nothing \notin [content : [of : Keys, made : Nat], at : Nat]

VARIABLES setting,    \* the setting of this behaviour, fixed
          now,
          server,     \* the server's cache: key -> [content, at] or Nothing
          delivered,  \* per session: keys sent in full
          running,    \* per session: the call whose tool is about to run
          requests,   \* per connection: calls on their way to the server
          replies,    \* per connection: frames on their way to the client
          copies,     \* per client: its cache, as `server`
          evicted,    \* history, per client: keys that evict_lru took, not put since
          task,       \* per task: its call, and the frame in its mailbox
          result      \* per task: how its last call ended

vars == <<setting, now, server, delivered, running, requests, replies, copies,
          evicted, task, result>>

NoCall == [pc |-> "idle", key |-> Nothing, kind |-> Nothing, serial |-> 0, frame |-> Nothing]

Init ==
    /\ setting \in Settings
    /\ now = 0
    /\ server = [k \in Keys |-> Nothing]
    /\ delivered = [c \in Conns |-> {}]
    /\ running = [c \in Conns |-> Nothing]
    /\ requests = [c \in Conns |-> <<>>] /\ replies = [c \in Conns |-> <<>>]
    /\ copies = [c \in Conns |-> [k \in Keys |-> Nothing]]
    /\ evicted = [c \in Conns |-> {}]
    /\ task = [t \in Tasks |-> NoCall]
    /\ result = [t \in Tasks |-> Nothing]

\* What a run of a tool yields: known by its key and by when it ran.
Content(k, made) == [of |-> k, made |-> made]

-----------------------------------------------------------------------------
\* The caches

Present(cache) == {k \in Keys : cache[k] # Nothing}
AliveForever(cache, k) == cache[k] # Nothing
Alive(cache, k) == cache[k] # Nothing /\ now - cache[k].at <= TTL

\* get: an entry found too old is removed.
AfterGet(cache, k) == IF Alive(cache, k) THEN cache ELSE [cache EXCEPT ![k] = Nothing]

\* put: a full cache first loses an entry.
AfterPut(cache, k, content, capacity) ==
    LET full == Cardinality(Present(cache)) >= capacity /\ cache[k] = Nothing
        new == [content |-> content, at |-> now]
    IN  IF full
        THEN {[cache EXCEPT ![v] = Nothing, ![k] = new] : v \in Present(cache)}
        ELSE {[cache EXCEPT ![k] = new]}

-----------------------------------------------------------------------------
\* The client sends

\* call_tool and call_tool_with_progress, up to the frame in the socket.
Call(t, k, kind) ==
    LET call == [by |-> t, key |-> k, serial |-> task[t].serial + 1]
    IN  /\ task[t].pc = "idle" /\ task[t].serial < setting.calls[t]
        /\ task' = [task EXCEPT ![t] = [pc |-> "waiting", key |-> k, kind |-> kind,
                                        serial |-> call.serial, frame |-> Nothing]]
        /\ requests' = [requests EXCEPT ![setting.conn[t]] = Append(@, call)]
        /\ result' = [result EXCEPT ![t] = Nothing]
        /\ UNCHANGED <<setting, now, server, delivered, running, replies, copies, evicted>>

-----------------------------------------------------------------------------
\* The session: CallTool of a cacheable tool

\* A frame of kind "ref" carries the key only; its content is then a history
\* value, what the server meant by it.
Reply(c, kind, call, content) ==
    replies' = [replies EXCEPT ![c] =
                   Append(@, [kind |-> kind, to |-> call.by, serial |-> call.serial,
                              key |-> call.key, content |-> content])]

\* A first hit of the session sends the content, a later one the key.
ReplyKind(c, k) == IF k \in delivered[c] THEN "ref" ELSE "full"

HitOf(c, call) ==
    /\ Alive(server, call.key)
    /\ Reply(c, ReplyKind(c, call.key), call, server[call.key].content)
    /\ delivered' = [delivered EXCEPT ![c] = @ \cup {call.key}]
    /\ UNCHANGED <<server, running>>

MissOf(c, call) ==
    /\ ~Alive(server, call.key)
    /\ server' = AfterGet(server, call.key)
    /\ running' = [running EXCEPT ![c] = call]
    /\ UNCHANGED <<delivered, replies>>

Lookup(c) ==
    /\ running[c] = Nothing /\ requests[c] # <<>>
    /\ requests' = [requests EXCEPT ![c] = Tail(@)]
    /\ HitOf(c, Head(requests[c])) \/ MissOf(c, Head(requests[c]))
    /\ UNCHANGED <<setting, now, copies, evicted, task, result>>

\* The tool runs, its result is put in the cache and sent in full.
Execute(c) ==
    /\ running[c] # Nothing
    /\ LET k == running[c].key
       IN  /\ server' \in AfterPut(server, k, Content(k, now), setting.store)
           /\ Reply(c, "full", running[c], Content(k, now))
    /\ delivered' = [delivered EXCEPT ![c] = @ \cup {running[c].key}]
    /\ running' = [running EXCEPT ![c] = Nothing]
    /\ UNCHANGED <<setting, now, requests, copies, evicted, task, result>>

-----------------------------------------------------------------------------
\* The client receives

\* A request id that a later call of the task takes again.
ExpectsAnything(t, frame) == task[t].pc = "waiting"
Expects(t, frame) == task[t].pc = "waiting" /\ task[t].serial = frame.serial

\* A waiting task that holds the reader lock hands a frame to its owner; a frame
\* that nobody expects any more is lost.
Dispatch(c) ==
    /\ replies[c] # <<>> /\ \E t \in Tasks : setting.conn[t] = c /\ task[t].pc = "waiting"
    /\ LET frame == Head(replies[c])
       IN  task' = IF Expects(frame.to, frame)
                   THEN [task EXCEPT ![frame.to].pc = "mailbox", ![frame.to].frame = frame]
                   ELSE task
    /\ replies' = [replies EXCEPT ![c] = Tail(@)]
    /\ UNCHANGED <<setting, now, server, delivered, running, requests, copies, evicted,
                   result>>

Ended(t, how) ==
    /\ task' = [task EXCEPT ![t] = [NoCall EXCEPT !.serial = task[t].serial]]
    /\ result' = [result EXCEPT ![t] = how]
    /\ UNCHANGED <<setting, now, server, delivered, running, requests, replies>>

\* What the call ends with; whether the content it was meant to get has outlived
\* itself on the way; whether the client's cache had lost it.
Outcome(t, content) ==
    LET frame == task[t].frame
    IN  [asked |-> task[t].key, got |-> content, meant |-> frame.content,
         late |-> now - frame.content.made > TTL,
         lost |-> frame.key \in evicted[setting.conn[t]]]

\* unwrap of a reference, which fails with "cache ref miss".
FinishRef(t) ==
    /\ task[t].pc = "mailbox" /\ task[t].frame.kind = "ref"
    /\ LET c == setting.conn[t]
           k == task[t].frame.key
       IN  /\ copies' = [copies EXCEPT ![c] = AfterGet(@, k)]
           /\ Ended(t, Outcome(t, IF Alive(copies[c], k) THEN copies[c][k].content ELSE Nothing))
    /\ UNCHANGED evicted

\* What the client's cache may be after a complete reply: the reply is put under
\* the key of the request, when the request was given one.
RememberNothing(t) == {copies[setting.conn[t]]}
Remembered(t) ==
    IF task[t].kind = "plain"
    THEN AfterPut(copies[setting.conn[t]], task[t].key, task[t].frame.content, setting.room)
    ELSE {copies[setting.conn[t]]}

FinishFull(t) ==
    /\ task[t].pc = "mailbox" /\ task[t].frame.kind = "full"
    /\ LET c == setting.conn[t]
       IN  \E copy \in Remembered(t) :
              /\ copies' = [copies EXCEPT ![c] = copy]
              /\ evicted' = [evicted EXCEPT ![c] = (@ \cup Present(copies[c])) \ Present(copy)]
    /\ Ended(t, Outcome(t, task[t].frame.content))

\* The caller times out or drops the call: its reply will be nobody's.
Drop(t) ==
    /\ setting.drops = "yes" /\ task[t].pc \in {"waiting", "mailbox"}
    /\ Ended(t, Nothing)
    /\ UNCHANGED <<copies, evicted>>

-----------------------------------------------------------------------------
Quiet ==
    /\ \A c \in Conns : requests[c] = <<>> /\ running[c] = Nothing
    /\ \A t \in Tasks : task[t].pc = "idle"

Tick ==
    /\ now < MaxTime
    /\ setting.slow = "yes" \/ Quiet
    /\ now' = now + 1
    /\ UNCHANGED <<setting, server, delivered, running, requests, replies, copies, evicted,
                   task, result>>

Next ==
    \/ \E t \in Tasks, k \in Keys, kind \in setting.kinds : Call(t, k, kind)
    \/ \E c \in Conns : Lookup(c) \/ Execute(c) \/ Dispatch(c)
    \/ \E t \in Tasks : FinishRef(t) \/ FinishFull(t) \/ Drop(t)
    \/ Tick

Spec == Init /\ [][Next]_vars

-----------------------------------------------------------------------------
\* Properties

Contents == [of : Keys, made : 0 .. MaxTime]
Caches == [Keys -> {Nothing} \cup [content : Contents, at : 0 .. MaxTime]]
Frames == [kind : {"ref", "full"}, to : Tasks, serial : Nat \ {0},
           key : Keys, content : Contents]
TypeOK ==
    /\ now \in 0 .. MaxTime
    /\ server \in Caches /\ copies \in [Conns -> Caches]
    /\ Cardinality(Present(server)) <= setting.store
    /\ \A c \in Conns : Cardinality(Present(copies[c])) <= setting.room
    /\ delivered \in [Conns -> SUBSET Keys] /\ evicted \in [Conns -> SUBSET Keys]
    /\ \A c \in Conns : \A i \in DOMAIN replies[c] : replies[c][i] \in Frames
    /\ \A t \in Tasks : result[t] = Nothing \/ result[t].asked \in Keys

Ends == {t \in Tasks : result[t] # Nothing}
Successes == {t \in Ends : result[t].got # Nothing}

\* "Safe to send a CACHE_REF" (server.rs:162): the client a session sends a bare
\* key to finds the complete result in its own cache.
RefResolves == \A t \in Ends : result[t].got # Nothing

\* A call never ends with what another call returns, however late replies,
\* dropped calls, references and copies mix.
AnswersWhatWasAsked == TypeOK /\ \A t \in Successes : result[t].got.of = result[t].asked

\* One task makes every call, with a key each, and waits for each answer, however
\* long that takes; its client's cache may be smaller than the server's.
LoneCaller ==
    /\ setting.kinds = {"plain"} /\ setting.drops = "no"
    /\ \E o \in Tasks : \A t \in Tasks : setting.calls[t] > 0 <=> t = o

\* To such a caller a reference stands for the content the server has under its
\* key.  It is never restored as another run's result, although both caches expire
\* and evict; and it fails to be restored only if the client's cache has evicted the
\* copy, or the content has passed its TTL between the server's lookup and the
\* client's.
LoneRefsResolve ==
    LoneCaller => \A t \in Ends :
        \/ result[t].got = result[t].meant
        \/ result[t].got = Nothing /\ (result[t].late \/ result[t].lost)

\* The age of the content a call ends with, at the instant it ends.
Age(t) == now - result'[t].got.made
EndsWithin(limit) ==
    \A t \in Tasks :
        result'[t] # Nothing /\ result'[t] # result[t] /\ result'[t].got # Nothing
            => Age(t) <= limit

\* Nor does it ever get a result older than the TTL, if its answers take no time: the
\* client's copy, put later than the server's entry, does not make it live longer.
\* Whatever the clients and their tasks do, two lifetimes bound the age: one in the
\* server's cache, one in the client's (and the time spent in flight, which a setting
\* that is not slow leaves out).
AgeBounded ==
    [][/\ LoneCaller /\ setting.slow = "no" => EndsWithin(TTL)
       /\ setting.slow = "no" => EndsWithin(2 * TTL)]_vars
=============================================================================

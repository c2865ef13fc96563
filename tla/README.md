# ohmcp in TLA+

A verification development of ohmcp, a native Model Context Protocol stack: a
daemon (`ohmcpd`) that offers tools, resources and prompts to local agents over a
Unix socket, and the client library the agents use. The modules here model the
parts of it that are concurrent, stateful or distributed, TLC checks them on small
instances, and TLAPS proves the theorems in the eight `...Proofs` modules for every
value of the constants.

Contents: [inventory](#inventory), [modules](#modules-and-the-code),
[runs](#runs), [bounds](#bounds), [fairness](#fairness), [proofs](#proofs),
[findings](#findings), [not modelled](#what-is-not-modelled), [plan](#plan).

## Inventory

Paths are relative to `src/crates/`.

| Part | State it keeps | Operations | Talks to |
|---|---|---|---|
| Shared-memory ring `ohmcp-transport/src/shm.rs` | `head`, `tail`, the bytes, all in one memfd mapped by two processes | `create`, `from_fd`, `try_write`, `read_release` | session (writes downlink, reads uplink), client (the reverse) |
| Descriptor exchange, same file | none of its own | `send_fd_blocking`, `recv_fd_blocking`, `send_fd_decline`, `poll_wait` | the socket below the frame layer |
| Frame transport `ohmcp-transport/src/lib.rs` | read buffer, write buffer | `next_frame`, `next_buffered`, `queue`, `flush`, `send` | socket or soft-bus session |
| Result cache `ohmcp-cache/src/result_cache.rs` | map of entries with two instants each, counters | `get`, `put` with `evict_lru` | daemon (one, behind a mutex), client (one per connection) |
| Session `ohmcpd/src/server.rs`, `handle_conn` | authenticated?, `subscribed`, `cancelled`, `delivered`, rings, pipeline | one handler per message type; wait for frame, event or shutdown | client by frames, registry by events, other sessions through the cache |
| Life cycle, same file, `run_with` | connection permits, session tasks | accept, refuse, spawn, shut down | sessions through a watch channel |
| Registry `ohmcpd/src/tools.rs` | resources and contents under two locks, a broadcast channel of 64 events | `update_resource`, `update`, `add_resource`, lookups | sessions |
| Client `ohmcp-client/src/lib.rs` | `pending`, `progress`, reader and writer locks, next id | `connect_inner`, `request_with_id`, `recv_response`, `call_tool`, `call_tool_with_progress`, `cancel` | the session; its own tasks share it |
| Payload pipeline `ohmcp-client/src/pipeline.rs` | cipher, the client's cache | `wrap`, `wrap_cache_ref`, `unwrap`, `remember` | both ends |
| Security `ohmcp-security/` | ACL grants | HMAC, X25519, AEAD, `check` | session, client |
| Frame format `ohmcp-core/`, compression `ohmcp-cache/src/compress.rs` | none | pure functions | all |
| Soft-bus adapter `ohmcp-transport/src/softbus.rs` | rest of a chunk | `poll_read`, `poll_write` | the frame layer; so far only in its own tests |

How they interact: one connection is one session task at the daemon and any number
of tasks at the client. Requests and answers are frames on a socket. A payload of
16 KiB or more goes through a shared ring, its frame carrying only offset and
length. A result that the session has already delivered to this connection is
replaced by its cache key. Resource events reach all sessions over a broadcast
channel and are pushed between batches.

What is hard, and the property that makes each part right:

* **Ring.** Two processes copy to and from one memory with two cursors and no
  lock. No byte may be written while it can still be read; what comes out is what
  went in, in order; the ring drains; records never wrap.
* **Uplink ring.** The same ring, but its producers are all tasks of the client,
  and ring order and frame order are decided at different moments.
* **Cache.** Two clocks per entry, sampled eviction: bounded, and never a value
  other than the last one put, nor one past its TTL.
* **CACHE_REF.** The session keeps a record of what the client has, which is
  not told when the client's copy expires, is evicted or was never made. A
  reference must resolve, to what the server means; no answer may be stale beyond
  the lifetimes, nor another call's.
* **Client multiplexer.** Whoever holds the reader lock reads for all, timeouts and
  dropped futures included: every response reaches its caller, nobody waits
  without a reader, every call ends.
* **Session.** Batched answers, cancellations that arrive behind the call they
  name, events that race with subscriptions, early returns: every request answered
  once and in order, nothing held back, no push outside a subscription or before
  authentication.
* **Handshake.** Descriptors go around the frame reader on the same stream; both
  ends must agree on whether they use the rings, and connect must return.
* **Life cycle.** A permit travels into a task that may end by itself, fail, be told
  to stop, be aborted or be killed; the socket's file outlives its daemon. Permits
  must add up, a shutdown must reach every session, so that it ends by itself if it is
  given the time, and must end all the same if it is not, and the next daemon must get
  the path.
* **Registry.** Contents, list and announcement change in separate steps of several
  threads, while sessions read, subscribe and receive: nobody may stay out of date
  without having been told, and what is announced must be there.
* **Byte stream.** Writes and reads cut frames anywhere, a dropped caller leaves a
  frame half written, and both ends write without reading: what is decoded must be
  what was queued, and every call must end.

`PROJECT.json` lists the hazards one by one with their lines.

## Modules and the code

**ShmRing** (with **ShmChannel**, the abstract lossless FIFO channel it implements)
is the downlink ring. `head`, `tail` and `buf` are the header's atomics and the
bytes. `prod` and `cons` are where `try_write` and `read_release` are; both copies
are made a byte per step, so they interleave freely, and each step makes at most
one access to the other end's cursor. `Reserve` is `try_write` up to its one load
of `tail`, `Publish` the store of `head` with the frame queued behind it (both
happen before anything is flushed). `SendInline` is the fall-back of
`wrap_maybe_shm`. `TakeRef`, `CopyOut` and `Release` are `read_release`. The
memory is sequentially consistent in the model; the code's Acquire loads and
Release stores of the cursors order the copies in the same way. Cursors are
unbounded naturals: at 64 bits they do not wrap within any life of a connection.

**UplinkRing** is the ring from client to server. Every task of a client may be
inside `try_write`, whose accesses are steps of their own (`LoadHead`, `LoadTail`,
`CopyIn`, `Publish`); the frame is queued and flushed in later steps, under the writer
lock (`Queue`, `Flush`). A caller may drop its future at any await. `Drop` is one for
the lock or the response; `FlushDropped` is the one inside `write_all`: some frames are
in the socket, perhaps a piece of the next one too (`Torn`), and the buffer keeps all of
them for the next flush, so that whole frames go out again. The session resolves frames
in the order of the wire; it dies of a reference that `read_release` refuses and fails
at what follows a torn frame. A repeated reference is resolved and released once more,
which moves `tail` back; `freed`, a history variable, is the farthest it has been. The
subtraction of `tail` is the code's unsigned one: with `tail` ahead it is no room.
`served` keeps the first dispatch of each request: one whose frame comes again is
handled again, with whatever bytes are there then (see the findings).

**ResultCache** (with **CachePromise**) is `ResultCache`. The clock is a variable.
`HashMap` iterates in an unspecified order, so any `SampleSize` entries may be
`evict_lru`'s sample and ties are broken freely. `stored` and `answer` are history,
and the promise is stated on them alone. `CacheKey::compute` is taken to be
injective (SHA-256 over the name, a zero byte and the arguments).

**CacheRef** composes the daemon's cache, the sessions' `delivered` sets and the
clients' caches. A cacheable call is `Lookup` (one critical section of the cache
mutex) and on a miss `Execute` (tool, second critical section, reply): two sessions
may miss together. `Dispatch` is the lock holder putting a frame into its owner's
mailbox; `FinishRef` and `FinishFull` are `unwrap` and `remember` in the owner. A
"keyless" call is one for which the client computes no key: with progress, or with
arguments of 16 KiB and more. Contents are known by key and time of their making,
so that staleness and mix-ups show. A full cache may evict any entry: the real
samples are 8 of 4096 or 65536. `evicted` is history: what a client's cache has lost to
`evict_lru`; an outcome notes whether its key was among it (`lost`) and whether the
content outlived its TTL on the way (`late`). The sizes of both caches are part of the
setting (`room`, `store`).

**ClientMux** is `request_with_id` and `recv_response` over any number of tasks:
ids, `pending`, callbacks, the write buffer with its two paths, tokio's fair reader
lock with its queue, the biased `select!` as two polls, mailboxes, timeouts,
dropped futures and a server that closes. The session is its environment
(`Serve`, `Push`, `Close`).

**ServerSession** is `handle_conn`: the read buffer and the batch loop
(`TakeBuffered`, `Flush`), the wait (`WaitFrame`, `WaitClosed`, `WaitShutdown`,
`WaitLagged`, `WaitEvent`), the handlers, and the ways to end: "rejected" and
"failed" leave past the final flush, "closed" and "shut_down" through it. Handlers
that answer and change nothing are one action, `Plain`. The client sends any frames
in any order; `UpdateResource` and `AddResource` are the registry's owner.

Requests and answers have no size in it and its socket never fills up; **Connection**
has that part.

**ShmHandshake** is `connect_inner` against the session's `Auth`, `ShmSetup` and
`Initialize` handlers. The stream to the client is a sequence of whole flushes and
descriptor bytes, which the client reads either as frames (any number that has
arrived) or byte-wise as descriptors. Every step that can fail may fail; what did
is kept in `mishaps`.

**ServerLifecycle** is `run_with` with `reject_busy`, for one or more daemons that
share a path. `pc` is where `run_with` is, or how it ended; `RemoveOld` to `Drained`
are its statements in order. A session is reduced to what its life depends on
(waiting, busy, stuck in a flush, leaving, about to be dropped by the runtime). The
permit is the last parameter of `handle_conn`, so `Return` drops it after the stream
is closed. `GraceElapses` is the time-out of the drain: it may come at any moment and
aborts whatever is left, busy or idle; in a world whose grace is "endless" it does not
come. `AcceptFails` is the `?` behind `accept`, which drops the listener, the
shutdown sender and the JoinSet; `Die` is the end of the process, by itself or by a
kill. `overlapped` is history.

**ResourceRegistry** is the part of `tools.rs` that changes while the daemon runs,
with the sessions and the clients that follow it. A thread of the host does the
steps of `UpdateSteps` or `AddSteps` one by one, each one critical section or one
broadcast. The channel is the log of all events with a cursor for each session; one
that is more than `EventCap` behind skips. A session answers a request in one step,
as each handler takes one lock; it passes events on in others. The client is a
dutiful agent: it reads what it is told of, lists when told of a change and pings
otherwise, because the library hands notifications to callbacks only while a call
waits. `log` keeps the uri of a list change for the properties only; the event has
none.

**Connection** (with **FrameChannel**, the abstract channel of frames that each
direction implements) is `FrameReader` and `FrameWriter` at both ends of one stream,
between a client's tasks and a session's batch loop. A frame is a sequence of units
of which the first is its header; `Write` gets rid of any number of them that the
link takes, `Take` reads any number that are there, `Decoded` is `Frame::decode` on
whatever has accumulated. `Drop` in the middle of `Write` leaves the buffer as it
was, so that its frames are sent again from the start. A garbled frame contains
another frame's header and therefore never parses. The link is a socket with
`SocketCap` units of buffer, or the soft bus, whose chunks arrive one by one and
whose writes never wait. No program of the repository runs over the soft bus yet:
it is driven in the way the socket is.

Each `MC...` module extends its module with names and settings for TLC. In every module a
few operators stand next to a definition and are used by no action: they are the
definition with one plausible mistake (`HasRoomOneMore`, `FlushNothing`, ...), which
the mutation entries of `PROJECT.json` put in its place. The property named there
must then fail, which shows that it depends on that piece of the code.

## Runs

Passing runs, one for each module that has a specification of its own, but for ShmRing
and ResultCache, which share one; most take under a minute, the longest two.

| Run | What it shows |
|---|---|
| `ring_and_cache` | The two components that stand alone; each behaviour uses one of them. A ring of 5 bytes, four payloads of any length 0 to 6, byte-wise interleaving: `NoOverlap` (the two copies never touch a byte of one another), `ReadIntact`, `DrainedRingTakesHalf` (a record of up to half the ring always fits a drained ring), `RingInv` (the inductive invariant of the proof), `ImplementsChannel` (with liveness). The cache: `CacheInv` (bounded, and every entry the last value put), `EvictsOldOfSample`, `KeepsPromise` (a refinement of CachePromise) |
| `uplink_ring` | With one task writing large requests among another's small ones, and callers that drop theirs at any await, a flush's middle included: each request is first dispatched with its own bytes (`RequestIntact`); no reference is refused and no release, a repeated frame's included, gives back a record whose reference is still to come (`UplinkSound`); the ring is empty when every request was dispatched (`DrainedWhenIdle`). The record of a request that was dropped before it was queued is skipped by the next reference and corrupts nothing |
| `cache_ref` | In every setting `AnswersWhatWasAsked`; `AgeBounded` (where answers take no time: one lifetime for a lone plain caller, two for the others); for a lone plain caller also `LoneRefsResolve`: a bare key stands for what the server meant, and is a miss only if the client's cache evicted its copy or the content outlived its TTL between the two lookups. The settings: one caller, its answers slow or not, with one place or two in each of the two caches; two clients with dropped and keyless calls and caches of one entry; two tasks of one client whose answers may be slow |
| `client_mux` | `RoutedToOwner` (responses, and progress before them), `NoResponseLost`, `LockHandedOn`, `EveryCallEnds` (without the help of timeouts). The settings: three tasks that may drop their calls; two tasks with progress calls, timeouts, drops, notifications and a closing server; two that call again after a timeout or a drop |
| `server_session` | `AnswersInOrder` (also: a call is skipped just when its Cancel was handled before it), `NothingHeldBack`, `SilentUntilAccepted`, `PushesFollowSubscription`, and under fairness `EveryBatchEnds`, `ShutdownEnds`. The settings: calls, cancels and bad frames in any batching; two subscriptions against updates; a daemon with a token; more updates than the event channel holds. Hang-up and shutdown may come at any moment of each |
| `handshake` | All tokens, wishes and failures, with resources added meanwhile: `RingsAgreeUndisturbed`, `NoFdInBuffer`, `EntitledConnect`, `ConnectEnds` |
| `server_lifecycle` | `PermitsAccounted` (free permits and holders always add up), `RestartTakesOver` (the next daemon gets the path, whatever was left there), and under fairness `ToldSessionsEnd` (a session that is told ends by itself, if the grace period lets it, unless it is stuck), `ShutdownCompletes`, `SlotComesBack`. The settings: more connections than permits; one session stuck next to another that is not, with a grace period that ends at any moment and with one that does not; one permit and every mishap; one daemon after or beside another |
| `resource_registry` | `OutdatedAreTold` (whoever has an old version is about to read or to be told), `AnnouncedIsReadable`, `NewIsListed`, and under fairness `AllEndUpFresh`. The settings: two threads and one client; two clients; more events than the channel holds |
| `connection` | `ImplementsFrameChannel` (each direction refines FrameChannel), `StreamStaysSound`, and under fairness `EveryCallEnds`. The settings: answers larger than the buffer; requests larger than the buffer whose writes may be torn; the soft bus; a request over the limit |

A *setting* is a record chosen in `Init` and constant from then on (the constant
`Settings`, given in the MC module): the cases worth checking are different small
worlds, and one large world with all of them at once would not finish.

Violation runs: each checks one property that the repository's text claims and the
code does not keep. See [findings](#findings).

`SYMMETRY` is not used: nearly every run checks liveness.

`CHECK_DEADLOCK FALSE` is set throughout: every behaviour ends in a state without a
successor when its bounds (`MaxFrames`, `calls`, `sends`, ...) are used up or the
session has ended. That nothing blocks earlier is stated by the liveness properties
(`ImplementsChannel`, `EveryCallEnds` of ClientMux and of Connection,
`EveryBatchEnds`, `ConnectEnds`, `ShutdownCompletes`, `SlotComesBack`,
`AllEndUpFresh`) and by `LockHandedOn`.

## Bounds

* `ShmRing`: `Cap` 5 with lengths 0 to 6 contains every case of `try_write`: a
  record that ends exactly at the end of the ring, one that skips a lap's end with
  and without room, more than half, exactly all and more than all of the ring. Four
  frames make two laps.
* `UplinkRing`: `Cap` 4, four requests: two laps, dropped records between others that
  are served, and a reference that comes again when its bytes are another's. Only this
  run, with 4.4 million states, takes more than a minute and a half.
* `ResultCache`: four keys for three places, a sample of two, a TTL of 1 on a clock
  of 2: eviction, a sample smaller than the cache, expiry after a touch.
* `CacheRef`: two calls of each task suffice for fill, refresh by another client and
  reference, five of the lone caller for expiry and eviction in between; two keys for a
  cache of one or two entries on either side; the clock runs beyond two TTLs. Both
  excuses of `LoneRefsResolve` occur.
* `ClientMux`: three tasks are needed for a queue behind the reader lock with a
  holder that leaves; three requests give each a call, or one task several.
* `ServerSession`: two or three frames and up to three events; the broadcast channel
  has two places in place of 64, so that it overflows in one setting.
* `ShmHandshake`: all tokens, wishes and faults; two notifications.
* `ServerLifecycle`: three connections for two permits, or two for one, so that one
  is refused or waits; one batch of each client is enough to be stuck in; two
  daemons; a grace period that ends at any moment or never.
* `ResourceRegistry`: two changes by two threads overlap in every way; an
  `EventCap` of two, which three changes exceed; two resources, one of them added
  while the daemon runs. `again` is "no": only new uris are added (see the
  relatives below for the other case).
* `Connection`: a socket of three units and a limit of five, with frames of one to
  six: shorter than the buffer, longer, over the limit. In each setting of the passing
  run's sockets at least one direction's frames fit its buffer; the
  other case is among the relatives. Each of two tasks makes one call.

The proofs remove these bounds for all safety properties; for liveness they remain.

## Fairness

* `ShmRing`: weak fairness of the consumer's steps (a client that waits for a
  response keeps reading) and of a write in progress (there is no await inside
  `try_write`). The server need not send anything.
* `ClientMux.FairSpec`: weak fairness of each task's own steps (the runtime polls a
  task that was woken; a parked task is only enabled when it was) and of `Serve`.
  None for timeouts, drops, pushes or closing.
* `ServerSession.FairSpec`: weak fairness of the session as a whole, not of its
  alternatives: `select!` picks a ready branch at random and the model may pick
  the same one always. `ShutdownEnds` holds because a bounded client stops keeping
  the buffer filled. For a client that never pauses the code gives no such
  guarantee, as the loop looks at the other two sources only when the buffer is dry;
  this is a hazard in `PROJECT.json`.
* `ShmHandshake.HandshakeFairSpec`: weak fairness of the session's handlers and of the
  client. `ConnectEnds` does not rely on the 5 s time-out of the descriptor
  exchange: `GiveUp` by it may or may not happen, as TLC also checks the behaviours
  in which the session always goes on.
* `ServerLifecycle.FairSpec`: weak fairness of each `run_with` and of each
  connection's task. Clients, signals, kills and failures owe nothing. Time passes:
  where the grace period can elapse (`grace` "elapses") it is a step of `run_with`, and
  so is sure to come if the sessions do not end before, but it may come at once, in the
  middle of a tool call or a flush. `ToldSessionsEnd` is about the worlds where it does
  not come, as only those give every session the time it needs; `ShutdownCompletes` is
  about both. A tool call that outlasts the period is cut off: the code promises no more
  (docs/design.md:151), and no property does.
* `ResourceRegistry.FairSpec`: weak fairness of a thread that has begun, of a
  session's answers and of its events, and of the dutiful client. Nobody need change
  or subscribe to anything.
* `Connection.FairSpec`: weak fairness of the session, of each task of the client
  and of reading and delivering while a task waits. None for `Register`, `Drop`,
  `Push` and `Close`; the 30 s timeout is a `Drop`, so no call ends by its help.

## Proofs

Every safety property that a passing run checks is a theorem, and so is every refinement
as far as it is about safety. The proof modules assume only the named assumptions of
their modules: capacities, sample size and lifetimes positive or natural, `Nothing` not
a value (nor an entry of a cache), finitely many connections, tasks or keys where
something is counted, settings of the stated form. One set of theorems has a hypothesis of its own: those of UplinkRing
`OneProducer`, what shm.rs:110-111 demands of the callers of `try_write` (the violation
run shows what happens without).

All follow one pattern: an invariant that is inductive (`IInv`, or `RingInv`,
`CacheInv`, `HandshakeInv`, `ConnInv`), a lemma for every action, a theorem that the invariant
always holds, and from it each property. What has to be added to the properties is what
the code relies on and nowhere says:

**RingAndCacheProofs** is about the two components that stand alone. ShmRing: `RingInv`
is inductive (`InitRingInv`, `NextRingInv`, `RingCorrect`). What one wants is
`NoOverlap` and `NoBadRef`, which are not inductive: that a write stays clear of the
unread records needs that those lie in one piece between `tail` and `head`
(`RecordInv`), that `tail` is the end of the last record released, so they must be in
frame order (`OrderInv`), and that a drained ring has `tail = head` (`EndInv`); that the
reader sees its record needs the record's bytes, so the write in progress appears in
`ProdInv`, the read in `ConsInv`. The arithmetic is in lemmas of its own: two places
less than a lap apart are different physical bytes (`LessThanALapApart`), and a position
after skipping a lap's end is the start of the next lap (`NextLapStart`,
`WritePosFits`). Theorems: `TypeCorrect`, `WritesNeverOverlap`, `ReadsAreIntact`,
`RefsAreAccepted`, `HalfAlwaysFits`, `CursorsOnlyAdvance`, and `RingIsChannel`: the ring
with its fall-back implements the safety part of ShmChannel.

ResultCache (its specification is `CacheSpec`): `CacheInv` (types, size, entries are the
last puts) is inductive. `PutHasRoom` and `EvictionMakesRoom` are the facts about cardinality.
Theorems: `CacheCorrect` (`CacheInv` always holds), its parts `CacheTypeCorrect`,
`NeverOutgrows` and `KeepsLastPut`; `CacheKeepsPromise`, a refinement in which hits and
misses map to `Lookup`, puts to `Store`; and `EvictionsAreOld`, the action property on
`evict_lru`.

**UplinkRingProofs**: `UplinkSoundAlways`, `RequestIntactAlways`,
`DrainedWhenIdleAlways`. Everything is said against `freed`, the farthest that `tail`
has been, as `tail` itself moves back on a repeated frame. A reference on the way, in
the socket or in the buffer that is kept, has its record's bytes still there, or was
dispatched and given back (`RecordsOk`). References follow one another as their records
do, but for those that come again (`InOrder`). A step of the producer could disturb
this: so what it writes lies above `head` and less than a lap above what was given back,
and once published is the last record (`WriterOk`). A buffer that is kept was never sent
to its end, so its last frame is new (`LastUnsent`): this is why the last release of all
leaves `tail` where `head` is. A request dropped in between leaves a record that no
frame names; a request is one task's and nowhere else before it is queued
(`RequestInv`), and the last record published is lost, about to be queued, in the
buffer, on the wire or given back (`Owing`).

**CacheRefProofs**: `AnswersWhatWasAskedAlways`, `LoneRefsResolveAlways`,
`AgeBoundedAlways`. That a call ends with a result of its own key needs that calls and
replies under way are of their task's last call, with its key, or of an earlier one,
which `FinishRef` and `FinishFull` ignore (`KeyInv`). That a lone caller's references
resolve is about both caches at once: what the server has was delivered, and the client
has it with the same time or a later one (`HasIt`), has lost it by eviction or age
(`HasLost`), or is about to get it; and of a reference on its way the server's meaning
is remembered, whatever has become of the entry meanwhile (`LoneInv`). `LoneCaller` is
a setting in which exactly one task calls, plainly, and drops nothing; its answers may
take any time, and nothing bounds its calls or fixes the sizes of the caches. `AgeBounded` is an action property and
follows from the ages in `KeyInv`.

**ClientMuxProofs**: `RoutedToOwnerAlways`, `NoResponseLostAlways`,
`LockHandedOnAlways`. Every call has one place: in the write buffer, on the wire, in the
answer under way or in its mailbox, and while it is nowhere else it is registered
(`CallInv`, `WayInv`); ids are never given twice. The holder of the reader lock and its
queue are `LockInv`: whoever is queued is parked, whoever reads holds the lock, and
nobody queues behind an empty place.

**ServerSessionProofs**: `AnswersInOrderAlways`, `NothingHeldBackAlways`,
`SilentUntilAcceptedAlways`, `PushesFollowSubscriptionAlways`. Frames are handled in the
order of their ids (`FrameInv`), a session that waits has an empty read buffer and write
buffer (`BatchInv`), it remembers as authentication and subscriptions what it has said
(`TalkInv`, about what was produced, flushed or not), and `cancelled` holds just the ids
named by a Cancel for which no call has come (`AnswerInv`).

**ResourceRegistryProofs**: `OutdatedAreToldAlways`, `AnnouncedIsReadableAlways`,
`NewIsListedAlways`. The reason why nothing falls through is spread over the thread that
has written and still has to announce, the events a session has not received, the frames
on the way and the client's own intentions; `UpdateInv` and `ListInv` name them one by
one. They need that a client's knowledge never runs ahead of the registry, that what it
follows is subscribed or being unsubscribed (`ClientInv`), and that a client has one
call open (`CallInv`).

**ConnectionLifeProofs** has two parts. The life cycle: `PermitsNeverLost`
(`PermitsAccounted` for any number of daemons, connections and permits) and
`RestartAlwaysWorks` (`RestartTakesOver`). The equation of the permits is inductive together with `Typed`,
which gives `permits` no upper bound: that one follows from the equation, as a
cardinality is never negative (`PermitsBounded`). A step either leaves the holders of a
daemon alone (`SameHolders`), takes one in (`AcceptAccounts`), lets one go
(`OneReleased`) or all of them at once (`DieAccounts`). `RestartTakesOver` needs to be
strengthened by `PathInv`: a daemon that has not overlapped is the only one running, and
between its remove and its bind the path is free.

The handshake (ShmHandshake, whose specification is `HandshakeSpec`):
`NoFdInBufferAlways`, `RingsAgreeAlways`, `EntitledConnectAlways`. `HandshakeInv` says
for each place of `connect_inner` which request may be on the way (`OneRequest`), which
descriptors may be in the stream and that none is in the reader's buffer (`FdInv`); as
long as nothing was pushed, that a result on the way says what the session does and
nothing else is in front of it (`Agreeing`); and for a client for which nothing broke,
that the very next element of the stream is the one it waits for (`Coming`).

**ConnectionProofs**: `StreamSoundAlways` and the refinement `ConnectionIsChannels`, for
any lengths of frames, any limit and any `SocketCap`. The frames queued at one end, laid
out one behind the other (`Layout`), are one stream of units, and what was read and not
decoded, each chunk under way and the write buffer are consecutive pieces of it
(`Flow`). The write buffer begins where a frame begins, the read buffer where the first
frame begins that was not decoded; so what `Decoded` finds there is that frame or too
little of it (`SoundDecodes`). `FlowQueues`, `FlowWrites`, `FlowReads`, `FlowDecodes` and
`FlowEnds` say this of the values, `QueueEffect`, `WriteEffect`, `TakeEffect` and
`TakeFrameEffect` of the state. `FlowInv` claims it of the server's direction always and
of the client's until a write is torn or the session has failed. What the tasks
contribute is `ControlInv`: nothing of the write buffer is gone when nobody holds the
writer lock, so a call that is dropped elsewhere tears nothing; a session flushes or
waits only when its buffer holds no whole frame; after a close all calls are over.
`Flow` says that there is an infinite stream, which TLC cannot enumerate: of `ConnInv` it
checks what follows from it, the two properties.

Only model-checked: all liveness, which is beyond this prover. That includes the parts
of ShmChannel's specification which say that a frame arrives.

## Findings

Each of these is a run that TLC ends with a counterexample, and an entry of
`PROJECT.json` with the quotation.

| Run | What the code does |
|---|---|
| `uplink_two_producers` | Two tasks of one client enter `try_write`, a single-producer operation, together |
| `cache_ref_unresolved` | After a keyless call the session sends a reference to a result that the client never stored; the call fails with "cache ref miss" |
| `cancel_behind_call` | A Cancel travels behind its call on the same stream and is handled after it: even one that is in the session's read buffer when the call is begun does not stop it |

Relatives of these, met while modelling, which have no run of their own:

* With two tasks of large requests the uplink's frames may leave in another order
  than its records were written (the writer lock is taken later), and `tail` moves
  back. `UplinkSound` is checked with one such task.
* References also miss when the server's entry was refreshed by another client after
  this client's copy had expired; when a second task unwraps a reference before the
  first has remembered the result; and when the client's smaller cache (4096 against
  65536) has evicted its copy. And as the key is a hash of the request, a reference
  may restore an older result than the server's: hence the two lifetimes of
  `AgeBounded`.
* The id of a Cancel that came too late stays in `cancelled` for good. `AnswersInOrder`
  says what remains true of cancellation.
* The refusal of a token is queued and the session returns past the flush
  (server.rs:277, 295): the client reads the end of the stream and reports "connection
  closed during auth", not the reason that README.md:64 shows. In ServerSession that is
  every behaviour through `BadAuth`: no "rejected" ever comes into `wire`.
* A refusal by `reject_busy` may be lost, too: its client may meet EPIPE first, and the
  process may exit before the detached task has run.
* A notification behind the AuthResult is taken for the ShmSetupResult (client
  lib.rs:149; server.rs:209, 345-348; docs/design.md:96): the client connects without
  the rings that the session uses. `RingsAgreeUndisturbed` leaves this out.
* A notification may sit in the client's frame buffer while descriptors are received,
  which lib.rs:133 takes to be empty; without a token, `recv_fd_blocking` may even
  take the first byte of one and fail: hence the condition of `EntitledConnect`.
* Timed-out and dropped requests stay in `pending`; every later lone request takes
  the contended path.
* A session that lags behind the broadcast channel loses events without a word:
  hence `lost` in `OutdatedAreTold`, `NewIsListed` and `AllEndUpFresh`.
* Adding a resource under a known uri replaces its contents and lists it twice, and
  its subscribers are told of a list change, not of an update (tools.rs:193;
  docs/design.md:69-70). `OutdatedAreTold` is about the worlds where nobody does it.
* Clients see notifications only while a call of theirs waits; one that makes no
  calls stays out of date.
* A request over 64 MiB is sent in full, ends the session and so fails every other
  call of the connection.
* A caller that drops its request inside a flush that has written whole frames (client
  lib.rs:254, 257) leaves them in the write buffer (transport lib.rs:100), and they go
  out again. A small request is then executed twice. A reference comes to the session
  behind its cursor, against "frame arrival order, that is write order" of shm.rs:8-9:
  it is resolved to whatever the ring holds there by then, and moves the cursor back.
  UplinkRing has these steps, and its properties say what they leave sound.
* Session and client write without reading meanwhile. If what is under way exceeds the
  buffers in both directions, neither write ends, and the 30 s timeout does not cover
  the client's (lib.rs:252-259; against transport lib.rs:4-5 and docs/design.md:56). In
  Connection with the setting `Link("socket", 1, 5, 5, 1, 0, "no")`, one task with a
  large answer and one with a large request, `EveryCallEnds` fails in this way: the
  session writes the answer while one task flushes both requests and the other waits
  for the writer lock, so that nobody reads.
* A tool call that is still running when the grace period elapses is cut off, its
  client without an answer.
* Daemons that overlap remove each other's socket file, at start (server.rs:76) and
  at shutdown (server.rs:123): hence `overlapped` in `RestartTakesOver`.
* A client that does not read keeps its permit until it hangs up or the daemon shuts
  down: hence `SlotComesBack` is about clients that hang up.

## What is not modelled

* JSON, LZ4, HMAC, X25519, ChaCha20-Poly1305, SHA-256: pure functions or
  cryptography. Frames are records, keys are atoms. The cipher keeps no state that
  order could upset: its nonce is an atomic counter, sent along with each frame, and
  `decrypt` remembers nothing.
* The fields of the message types and their serde encoding; of the frame format the
  header's length, its limit and what incomplete or garbled input does are modelled
  (`Decoded`). `ohmcp-core/src/rpc.rs` is used by its own tests only.
* The tool ACL: `run_with` grants every tool to everyone who can get as far as
  `CallTool`, so its check never refuses.
* Tools and prompts are registered before the daemon starts, and their handlers are
  pure functions of the arguments; the benchmark, the demo and the command line.
* ServerSession, ClientMux and Connection each abstract a part of the other two:
  batches and handlers in the first, timeouts and the reader lock in the second, the
  cutting of the stream in the third. Their composition has not been checked.

## Plan

Written so far, in this order: ShmChannel, ShmRing; UplinkRing; CachePromise,
ResultCache; CacheRef; ClientMux; ServerSession; ShmHandshake; ServerLifecycle;
ResourceRegistry; FrameChannel and Connection; and the proofs of their safety. To come:

1. **Call**: ClientMux and ServerSession composed, with an abstract specification of
   a remote call (executed at most once, answered at most once, by its own result),
   both shown to implement their half of it.

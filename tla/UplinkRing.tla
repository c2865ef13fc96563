----------------------------- MODULE UplinkRing -----------------------------
(***************************************************************************)
(* The uplink shared-memory ring of a connection: the client's tasks write *)
(* large requests into it (request_with_id, ohmcp-client/src/lib.rs), the  *)
(* server's session task resolves them (handle_conn, ohmcpd/src/server.rs).*)
(*                                                                         *)
(* Unlike the downlink's, its producer is every task that has the client,  *)
(* and try_write runs before the writer lock is taken.  Each atomic access *)
(* of try_write is a step; its copy is one step.  Every byte of a request  *)
(* is the request's number.                                                *)
(*                                                                         *)
(* The writer keeps its buffer until a flush has written all of it: a      *)
(* future dropped inside leaves the buffer as it is, for the next flush to *)
(* send from its start again.  PublishPhysical, LoadTailUnchecked and      *)
(* ReleaseStart are plausible mistakes, used by no action.                 *)
(***************************************************************************)
EXTENDS Integers, Sequences, FiniteSets

CONSTANTS Cap,          \* bytes in the ring
          Tasks,        \* client tasks sharing the connection
          LargeTasks,   \* those whose requests reach SHM_THRESHOLD
          Droppable,    \* those whose caller may drop the request's future
          Lens,         \* lengths of large requests
          MaxRequests   \* bound: number of requests of a behaviour

ASSUME UplinkAssumption ==
    /\ Cap \in Nat \ {0} /\ Lens \subseteq Nat \ {0} /\ MaxRequests \in Nat
    /\ LargeTasks \subseteq Tasks /\ Droppable \subseteq Tasks

VARIABLES head, tail, buf,
          task,      \* [Tasks -> where the task is in request_with_id]
          count,     \* requests begun; the last one's number
          out,       \* frames in the writer's buffer
          wire,      \* frames in the socket
          served,    \* requests the session has dispatched, with their data
          session,   \* "read", "release", "dead" or "failed"
          freed      \* history: the farthest tail has been

ring == <<head, tail, buf, freed>>
vars == <<ring, task, count, out, wire, served, session>>

At(pc, req) == [pc |-> pc, req |-> req, len |-> 0, pos |-> 0]
NoRequest == At("idle", 0)
Phys(off) == off % Cap
Cells(off, len) == Phys(off) .. Phys(off) + len - 1

Init ==
    /\ head = 0 /\ tail = 0 /\ buf = [a \in 0 .. Cap - 1 |-> 0] /\ freed = 0
    /\ task = [t \in Tasks |-> NoRequest]
    /\ count = 0 /\ out = << >> /\ wire = << >> /\ served = {} /\ session = "read"

-----------------------------------------------------------------------------
\* A client task

Goto(t, pc) == task' = [task EXCEPT ![t].pc = pc]
Become(t, pc) == task' = [task EXCEPT ![t] = At(pc, task[t].req)]
Done(t) == task' = [task EXCEPT ![t] = NoRequest]

\* The request is begun; a small one is wrapped into its frame at once.
Begin(t, len) ==
    /\ task[t].pc = "idle" /\ count < MaxRequests
    /\ count' = count + 1
    /\ task' = [task EXCEPT ![t] =
           IF t \in LargeTasks THEN [At("load", count + 1) EXCEPT !.len = len]
                               ELSE At("inline", count + 1)]
    /\ UNCHANGED <<ring, out, wire, served, session>>

LoadHead(t) ==
    /\ task[t].pc = "load"
    /\ LET len == task[t].len
           pos == IF Phys(head) + len > Cap THEN head + (Cap - Phys(head)) ELSE head
       IN  task' = [task EXCEPT ![t].pc = "room", ![t].pos = pos]
    /\ UNCHANGED <<ring, count, out, wire, served, session>>

HasRoom(t) == task[t].len <= Cap /\ task[t].pos + task[t].len - tail \in 0 .. Cap
LoadTailIf(t, room) ==
    /\ task[t].pc = "room"
    /\ IF room THEN Goto(t, "copy") ELSE Become(t, "inline")
    /\ UNCHANGED <<ring, count, out, wire, served, session>>
LoadTailUnchecked(t) == LoadTailIf(t, task[t].len <= Cap)

\* The test of free space; the u64 subtraction wraps when tail is ahead.
LoadTail(t) == LoadTailIf(t, HasRoom(t))

CopyIn(t) ==
    /\ task[t].pc = "copy"
    /\ buf' = [a \in DOMAIN buf |->
                 IF a \in Cells(task[t].pos, task[t].len) THEN task[t].req ELSE buf[a]]
    /\ Goto(t, "publish")
    /\ UNCHANGED <<head, tail, freed, count, out, wire, served, session>>

PublishAt(t, end) ==
    /\ task[t].pc = "publish"
    /\ head' = end
    /\ Goto(t, "ref")
    /\ UNCHANGED <<tail, buf, freed, count, out, wire, served, session>>
PublishPhysical(t) == PublishAt(t, Phys(task[t].pos) + task[t].len)
Publish(t) == PublishAt(t, task[t].pos + task[t].len)

\* Under the writer lock the frame joins the buffer.  With another request
\* pending the lock is then let go for a while (the dropped request's entry
\* stays in pending, so this may be so at any time); without, the flush follows.
Queue(t) ==
    /\ task[t].pc \in {"inline", "ref"}
    /\ out' = Append(out, [req |-> task[t].req, kind |-> task[t].pc,
                           off |-> task[t].pos, len |-> task[t].len])
    /\ Become(t, "queued")
    /\ UNCHANGED <<ring, count, wire, served, session>>

\* write_all of the buffer, if another task has not done it already.  The lock is
\* held throughout and the session takes from the other end: one step.
Flush(t) ==
    /\ task[t].pc = "queued"
    /\ wire' = wire \o out /\ out' = << >>
    /\ Become(t, "wait")
    /\ UNCHANGED <<ring, count, served, session>>

Torn == [req |-> 0, kind |-> "torn", off |-> 0, len |-> 0]

\* The caller drops the future inside write_all: some frames are in the socket,
\* perhaps a piece of the next one too, and the buffer is not cleared.
FlushDropped(t, sent, rest) ==
    /\ t \in Droppable /\ task[t].pc = "queued"
    /\ sent < Len(out)
    /\ wire' = wire \o SubSeq(out, 1, sent) \o rest
    /\ Done(t)
    /\ UNCHANGED <<ring, count, out, served, session>>

\* It drops it at another await: for the writer lock, before or after its frame
\* was queued, or for the response (so does the 30 s timeout).
Drop(t) ==
    /\ t \in Droppable
    /\ task[t].pc \in {"inline", "ref", "queued", "wait"}
    /\ Done(t)
    /\ UNCHANGED <<ring, count, out, wire, served, session>>

-----------------------------------------------------------------------------
\* The session task

Dispatched == {s.req : s \in served}

\* The request is handled with these bytes.  A frame can come again: what is kept
\* of a request is its first dispatch.
Dispatch(f, data) ==
    served' = IF f.req \in Dispatched THEN served ELSE served \cup {[req |-> f.req, data |-> data]}

TakeInline ==
    /\ session = "read" /\ wire # << >> /\ Head(wire).kind = "inline"
    /\ Dispatch(Head(wire), {Head(wire).req})
    /\ wire' = Tail(wire)
    /\ UNCHANGED <<ring, task, count, out, session>>

Readable(f) ==
    /\ f.len \in 1 .. Cap /\ Phys(f.off) + f.len <= Cap
    /\ f.off + f.len <= head

\* read_release up to the copy; a refused reference ends the session.
TakeRef ==
    /\ session = "read" /\ wire # << >> /\ Head(wire).kind = "ref"
    /\ LET f == Head(wire)
       IN  IF Readable(f)
           THEN /\ Dispatch(f, {buf[a] : a \in Cells(f.off, f.len)})
                /\ session' = "release"
           ELSE /\ session' = "dead"
                /\ UNCHANGED served
    /\ UNCHANGED <<ring, task, count, out, wire>>

\* The store of tail; the request is then handled and answered.
ReleaseTo(end) ==
    /\ session = "release"
    /\ tail' = end /\ freed' = IF end > freed THEN end ELSE freed
    /\ wire' = Tail(wire)
    /\ session' = "read"
    /\ UNCHANGED <<head, buf, task, count, out, served>>
ReleaseStart == ReleaseTo(Head(wire).off)
Release == ReleaseTo(Head(wire).off + Head(wire).len)

\* What follows a piece of a frame is read as its rest: the session ends.
TakeTorn ==
    /\ session = "read" /\ Len(wire) > 1 /\ Head(wire).kind = "torn"
    /\ session' = "failed"
    /\ UNCHANGED <<ring, task, count, out, wire, served>>

\* The answer reaches its task.
Receive(t) ==
    /\ task[t].pc = "wait" /\ task[t].req \in Dispatched
    /\ ~ (session = "release" /\ Head(wire).req = task[t].req)
    /\ Done(t)
    /\ UNCHANGED <<ring, count, out, wire, served, session>>

-----------------------------------------------------------------------------
TaskNext(t) ==
    \/ \E len \in IF t \in LargeTasks THEN Lens ELSE {0} : Begin(t, len)
    \/ LoadHead(t) \/ LoadTail(t) \/ CopyIn(t) \/ Publish(t) \/ Queue(t) \/ Flush(t)
    \/ \E sent \in 0 .. Len(out), rest \in {<< >>, <<Torn>>} : FlushDropped(t, sent, rest)
    \/ Drop(t) \/ Receive(t)
SessionNext == TakeInline \/ TakeRef \/ Release \/ TakeTorn
Next == SessionNext \/ \E t \in Tasks : TaskNext(t)
Spec == Init /\ [][Next]_vars

-----------------------------------------------------------------------------
\* Properties

TaskPc == {"idle", "load", "room", "copy", "publish", "inline", "ref", "queued", "wait"}
Frames == [req : 0 .. MaxRequests, kind : {"inline", "ref", "torn"}, off : Nat, len : Nat]

\* Types, and the cursors' order: tail (read_release) never passes head.
TypeOK ==
    /\ head \in Nat /\ freed \in 0 .. head /\ tail \in 0 .. freed
    /\ buf \in [0 .. Cap - 1 -> 0 .. MaxRequests]
    /\ task \in [Tasks -> [pc : TaskPc, req : 0 .. MaxRequests, len : Nat, pos : Nat]]
    /\ count \in 0 .. MaxRequests
    /\ out \in Seq(Frames) /\ wire \in Seq(Frames)
    /\ served \subseteq [req : 0 .. MaxRequests, data : SUBSET (0 .. MaxRequests)]
    /\ session \in {"read", "release", "dead", "failed"}

\* try_write "may be called by a single producer only" (shm.rs:110-111): no
\* two tasks of a client are inside it at once.
SingleProducer ==
    Cardinality({t \in Tasks : task[t].pc \in {"load", "room", "copy", "publish"}}) <= 1

\* A reference that is new to the session, on its way or still in the client's
\* buffer.
IsNew(f) == f.kind = "ref" /\ f.req \notin Dispatched

\* Whatever requests are dropped and wherever, a flush's middle included:
\* read_release never refuses a whole reference ("invalid uplink shm ref" would end
\* the session), and none of its stores of tail, on a repeated reference or a new
\* one, ever gave back a byte of a record whose reference is still to come.
UplinkSound ==
    /\ TypeOK
    /\ session # "dead"
    /\ \A i \in DOMAIN wire : IsNew(wire[i]) => wire[i].off >= freed
    /\ \A i \in DOMAIN out : IsNew(out[i]) => out[i].off >= freed

\* The session dispatches each request first with the bytes its task wrote.  A
\* frame that comes again may find others in their place.
RequestIntact == \A s \in served : s.data = {s.req}

\* When every request begun has been dispatched and nothing is on its way, no byte
\* of the ring stays in use: only the record of a request that was never queued
\* would.
DrainedWhenIdle ==
    /\ wire = << >> /\ session = "read"
    /\ 1 .. count \subseteq Dispatched
    => tail = head
=============================================================================

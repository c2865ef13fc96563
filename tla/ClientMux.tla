----------------------------- MODULE ClientMux ------------------------------
(***************************************************************************)
(* OhmcpClient (ohmcp-client/src/lib.rs): many tasks share one connection. *)
(* A request registers a oneshot sender under its id, gets its frame into  *)
(* the shared write buffer and flushed, and then waits for its mailbox and *)
(* for the reader lock at once.  Whoever holds the lock reads the socket   *)
(* and hands the other tasks' responses to their mailboxes until its own   *)
(* one arrives ("connection combiner").                                    *)
(*                                                                         *)
(* recv_response's select! is biased and may be preempted between its two  *)
(* polls: PollMail and PollLock are two steps, and the lock may be won     *)
(* after the response was delivered.  tokio's Mutex is fair: release hands *)
(* it to the first of its queue.  A flush holds the writer lock until all  *)
(* is written and is one step.  The session at the other end is the        *)
(* environment: it answers requests in order (ServerSession).              *)
(*                                                                         *)
(* LeaveWithoutHandover, FlushOneFrame, DeliverToAnyone and RecheckNothing *)
(* are plausible mistakes, used by no action.                              *)
(***************************************************************************)
EXTENDS Integers, FiniteSets, Sequences

CONSTANTS Tasks, Nobody,
          Settings     \* how the connection may be used, see below

\* One way of using it:
\*   tasks    the tasks that make calls
\*   kinds    "plain" calls and "progress" calls
\*   upsets   "time_out": a wait may last 30 s; "drop": a caller may drop its
\*            call at an await; "close": the server may close the connection
\*   ids      bound: number of requests
\*   pushes   bound: notifications of the server
IsSetting(s) ==
    /\ s.tasks \subseteq Tasks /\ s.kinds \subseteq {"plain", "progress"}
    /\ s.upsets \subseteq {"time_out", "drop", "close"}
    /\ s.ids \in Nat /\ s.pushes \in Nat

ASSUME MuxAssumption == Nobody \notin Tasks /\ \A s \in Settings : IsSetting(s)

VARIABLES setting,   \* the setting of this behaviour, fixed
          next_id,
          task,      \* per task: pc, id, kind, path taken, mail, callbacks seen
          pending,   \* ids with a registered oneshot sender
          progress,  \* ids with a registered progress callback
          wbuf,      \* FrameWriter's buffer of queued requests
          reader,    \* whom the reader lock belongs to, or Nobody
          queue,     \* tasks queued for the reader lock
          wire,      \* requests on their way to the server
          inbound,   \* frames on their way to the client
          pushes,    \* notifications pushed so far
          closed,    \* has the server closed the connection?  "yes" or "no"
          result     \* history: per task, how its last call ended

vars == <<setting, next_id, task, pending, progress, wbuf, reader, queue, wire, inbound,
          pushes, closed, result>>
sending == <<next_id, pending, progress, wbuf, wire>>
receiving == <<reader, queue, inbound>>
server == <<setting, pushes, closed>>

Idle == [pc |-> "idle", id |-> 0, kind |-> "plain", mail |-> 0, seen |-> 0]
NoResult == [asked |-> 0, got |-> 0, kind |-> "plain", seen |-> 0]

Init ==
    /\ setting \in Settings
    /\ next_id = 1
    /\ task = [t \in Tasks |-> Idle] /\ result = [t \in Tasks |-> NoResult]
    /\ pending = {} /\ progress = {} /\ wbuf = <<>>
    /\ reader = Nobody /\ queue = <<>>
    /\ wire = <<>> /\ inbound = <<>>
    /\ pushes = 0 /\ closed = "no"

Goto(t, pc) == task' = [task EXCEPT ![t].pc = pc]
Frame(type, id) == [type |-> type, id |-> id]
Request(t) == [id |-> task[t].id, kind |-> task[t].kind]

-----------------------------------------------------------------------------
\* A call ends

\* A queue after t has given up its place in it, if it had one.
Without(q, t) ==
    IF \E i \in DOMAIN q : q[i] = t
    THEN LET place == CHOOSE i \in DOMAIN q : q[i] = t
         IN  [i \in 1 .. Len(q) - 1 |-> IF i < place THEN q[i] ELSE q[i + 1]]
    ELSE q

LeaveWithoutHandover(t) ==
    IF reader = t
    THEN reader' = Nobody /\ UNCHANGED queue
    ELSE queue' = Without(queue, t) /\ UNCHANGED reader

\* Whoever leaves gives up the reader lock, or its place in the queue for it.
Leave(t) ==
    IF reader = t
    THEN /\ reader' = IF queue = <<>> THEN Nobody ELSE Head(queue)
         /\ queue' = IF queue = <<>> THEN queue ELSE Tail(queue)
    ELSE queue' = Without(queue, t) /\ UNCHANGED reader

\* call_tool_with_progress removes its callback when request_with_id returns.
EndWith(t, got) ==
    /\ task' = [task EXCEPT ![t] = Idle]
    /\ result' = [result EXCEPT ![t] = [asked |-> task[t].id, got |-> got,
                                        kind |-> task[t].kind, seen |-> task[t].seen]]
    /\ progress' = progress \ {task[t].id}

-----------------------------------------------------------------------------
\* request_with_id up to the flush

\* The counter gives the id; a oneshot, and a progress callback, are registered under it.
Start(t, kind) ==
    /\ t \in setting.tasks /\ kind \in setting.kinds
    /\ task[t].pc = "idle" /\ next_id <= setting.ids
    /\ next_id' = next_id + 1
    /\ task' = [task EXCEPT ![t] = [Idle EXCEPT !.pc = "registered", !.id = next_id, !.kind = kind]]
    /\ pending' = pending \cup {next_id}
    /\ progress' = IF kind = "progress" THEN progress \cup {next_id} ELSE progress
    /\ UNCHANGED <<wbuf, wire, receiving, server, result>>

Contended == Cardinality(pending) > 1

ChoosePath(t) ==
    /\ task[t].pc = "registered"
    /\ Goto(t, IF Contended THEN "contended" ELSE "direct")
    /\ UNCHANGED <<sending, receiving, server, result>>

\* Queue under the writer lock, then let others queue theirs.
Enqueue(t) ==
    /\ task[t].pc = "contended"
    /\ wbuf' = Append(wbuf, Request(t))
    /\ Goto(t, "yielded")
    /\ UNCHANGED <<next_id, pending, progress, wire, receiving, server, result>>

\* A closed peer makes the write fail; the buffer keeps what it has.
WriteFails(t) ==
    /\ closed = "yes"
    /\ EndWith(t, 0)
    /\ UNCHANGED <<next_id, pending, wire, receiving, server>>

FlushOneFrame(t) ==
    /\ task[t].pc = "yielded"
    /\ wire' = IF wbuf = <<>> THEN wire ELSE Append(wire, Head(wbuf))
    /\ wbuf' = <<>>
    /\ Goto(t, "select")
    /\ UNCHANGED <<next_id, pending, progress, receiving, server, result>>

\* flush does nothing when another task has flushed the buffer.
Flush(t) ==
    /\ task[t].pc = "yielded"
    /\ IF wbuf # <<>> /\ closed = "yes" THEN WriteFails(t) /\ UNCHANGED wbuf
       ELSE /\ wire' = wire \o wbuf /\ wbuf' = <<>>
            /\ Goto(t, "select")
            /\ UNCHANGED <<next_id, pending, progress, receiving, server, result>>

\* send: queue and flush under one hold of the writer lock.
SendNow(t) ==
    /\ task[t].pc = "direct"
    /\ IF closed = "yes" THEN WriteFails(t) /\ wbuf' = Append(wbuf, Request(t))
       ELSE /\ wire' = wire \o Append(wbuf, Request(t)) /\ wbuf' = <<>>
            /\ Goto(t, "select")
            /\ UNCHANGED <<next_id, pending, progress, receiving, server, result>>

-----------------------------------------------------------------------------
\* recv_response

\* Poll the mailbox: first in the biased select!, when the task is first polled
\* and when it is woken by its mailbox or by the lock.
PollMail(t) ==
    /\ \/ task[t].pc = "select"
       \/ task[t].pc = "parked" /\ (task[t].mail # 0 \/ reader = t)
    /\ IF task[t].mail # 0 THEN EndWith(t, task[t].mail) /\ Leave(t)
       ELSE Goto(t, "polled") /\ UNCHANGED <<progress, reader, queue, result>>
    /\ UNCHANGED <<next_id, pending, wbuf, wire, inbound, server>>

PollLock(t) ==
    /\ task[t].pc = "polled"
    /\ IF reader \in {Nobody, t}
       THEN reader' = t /\ UNCHANGED queue /\ Goto(t, "recheck")
       ELSE queue' = Append(queue, t) /\ UNCHANGED reader /\ Goto(t, "parked")
    /\ UNCHANGED <<sending, inbound, server, result>>

\* try_recv: the previous holder may have delivered since the mailbox was polled.
RecheckNothing(t) ==
    /\ task[t].pc = "recheck"
    /\ Goto(t, "reading")
    /\ UNCHANGED <<sending, receiving, server, result>>
Recheck(t) ==
    /\ task[t].pc = "recheck"
    /\ IF task[t].mail # 0 THEN EndWith(t, task[t].mail) /\ Leave(t)
       ELSE Goto(t, "reading") /\ UNCHANGED <<progress, reader, queue, result>>
    /\ UNCHANGED <<next_id, pending, wbuf, wire, inbound, server>>

DeliverToAnyone(f) ==
    LET owners == {u \in Tasks : task[u].id # 0 /\ task[u].pc \in {"parked", "polled", "select"}}
    IN  /\ task' = [u \in Tasks |-> IF u \in owners THEN [task[u] EXCEPT !.mail = f.id] ELSE task[u]]
        /\ pending' = pending \ {f.id}
\* A frame for another task: to the mailbox of its request, if that still waits.
Deliver(f) ==
    LET owners == {u \in Tasks : f.id \in pending /\ task[u].id = f.id}
    IN  /\ task' = [u \in Tasks |-> IF u \in owners THEN [task[u] EXCEPT !.mail = f.id] ELSE task[u]]
        /\ pending' = pending \ {f.id}

ReadProgress(t, f) ==
    /\ f.type = "progress"
    /\ task' = [u \in Tasks |-> IF f.id \in progress /\ task[u].id = f.id
                                THEN [task[u] EXCEPT !.seen = @ + 1] ELSE task[u]]
    /\ UNCHANGED <<pending, progress, reader, queue, result>>

ReadPush(t, f) ==
    /\ f.type = "push"
    /\ UNCHANGED <<task, pending, progress, reader, queue, result>>

ReadOwn(t, f) ==
    /\ f.type = "result" /\ f.id = task[t].id
    /\ EndWith(t, f.id) /\ Leave(t)
    /\ pending' = pending \ {f.id}

ReadOther(t, f) ==
    /\ f.type = "result" /\ f.id # task[t].id
    /\ Deliver(f)
    /\ UNCHANGED <<progress, reader, queue, result>>

Read(t) ==
    /\ task[t].pc = "reading" /\ inbound # <<>>
    /\ LET f == Head(inbound)
       IN  ReadProgress(t, f) \/ ReadPush(t, f) \/ ReadOwn(t, f) \/ ReadOther(t, f)
    /\ inbound' = Tail(inbound)
    /\ UNCHANGED <<next_id, wbuf, wire, server>>

\* "connection closed": the next holder of the lock will find the same.
ReadEof(t) ==
    /\ task[t].pc = "reading" /\ inbound = <<>> /\ closed = "yes"
    /\ EndWith(t, 0) /\ Leave(t)
    /\ UNCHANGED <<next_id, pending, wbuf, wire, inbound, server>>

-----------------------------------------------------------------------------
Waiting(t) == task[t].pc \in {"select", "polled", "parked", "recheck", "reading"}

\* timeout around recv_response: the pending entry stays.
TimeOut(t) ==
    /\ "time_out" \in setting.upsets /\ task[t].pc \in {"parked", "reading"}
    /\ EndWith(t, 0) /\ Leave(t)
    /\ UNCHANGED <<next_id, pending, wbuf, wire, inbound, server>>

\* The caller drops the future at an await: nothing after it runs.
DropCall(t) ==
    /\ "drop" \in setting.upsets /\ task[t].pc \notin {"idle", "registered", "polled", "recheck"}
    /\ task' = [task EXCEPT ![t] = Idle]
    /\ result' = [result EXCEPT ![t] = NoResult]
    /\ Leave(t)
    /\ UNCHANGED <<sending, inbound, server>>

-----------------------------------------------------------------------------
\* The session at the other end

Serve ==
    /\ closed = "no" /\ wire # <<>>
    /\ LET r == Head(wire)
           answer == <<Frame("result", r.id)>>
       IN  inbound' = inbound \o (IF r.kind = "progress"
                                  THEN <<Frame("progress", r.id)>> \o answer ELSE answer)
    /\ wire' = Tail(wire)
    /\ UNCHANGED <<next_id, task, pending, progress, wbuf, reader, queue, server, result>>

Push ==
    /\ closed = "no" /\ pushes < setting.pushes
    /\ inbound' = Append(inbound, Frame("push", 0)) /\ pushes' = pushes + 1
    /\ UNCHANGED <<setting, sending, task, reader, queue, closed, result>>

Close ==
    /\ "close" \in setting.upsets /\ closed = "no"
    /\ closed' = "yes"
    /\ UNCHANGED <<setting, sending, receiving, task, pushes, result>>

-----------------------------------------------------------------------------
Step(t) ==
    \/ ChoosePath(t) \/ Enqueue(t) \/ Flush(t) \/ SendNow(t)
    \/ PollMail(t) \/ PollLock(t) \/ Recheck(t) \/ Read(t) \/ ReadEof(t)

Next ==
    \/ \E t \in Tasks : Step(t) \/ TimeOut(t) \/ DropCall(t)
    \/ \E t \in Tasks, kind \in {"plain", "progress"} : Start(t, kind)
    \/ Serve \/ Push \/ Close

Spec == Init /\ [][Next]_vars

\* The runtime polls every task that was woken, and the session serves.
Fairness == WF_vars(Serve) /\ \A t \in Tasks : WF_vars(Step(t))
FairSpec == Spec /\ Fairness

-----------------------------------------------------------------------------
\* Properties

InFlight == {t \in Tasks : task[t].pc # "idle"}
TypeOK ==
    /\ next_id \in 1 .. setting.ids + 1
    /\ pending \cup progress \subseteq 1 .. next_id - 1
    /\ reader \in Tasks \cup {Nobody} /\ \A i \in DOMAIN queue : queue[i] \in Tasks
    /\ \A t \in InFlight : task[t].id \in 1 .. next_id - 1

\* A call ends with the response to its own request, after all of its progress
\* callbacks have run, once each, or with an error: whoever read the frames.
RoutedToOwner ==
    \A t \in Tasks :
        /\ result[t].got \in {0, result[t].asked}
        /\ result[t].got # 0 => result[t].seen = IF result[t].kind = "progress" THEN 1 ELSE 0

In(seq, id) == \E i \in DOMAIN seq : seq[i].id = id
InResponses(id) == \E i \in DOMAIN inbound : inbound[i] = Frame("result", id)

\* The response a waiting task needs is on its way, or in its mailbox, once.
NoResponseLost ==
    \A t \in Tasks : Waiting(t) /\ closed = "no" =>
        LET id == task[t].id
        IN  /\ In(wire, id) \/ InResponses(id) \/ task[t].mail = id
            /\ ~(In(wire, id) /\ InResponses(id))
            /\ task[t].mail # 0 => ~In(wire, id) /\ ~InResponses(id)

\* One reader, and as long as anyone queues for the lock someone has it and will
\* read: the socket is never left unread with tasks parked behind it.
LockHandedOn ==
    /\ TypeOK
    /\ queue # <<>> => reader # Nobody
    /\ \A t \in Tasks : task[t].pc \in {"recheck", "reading"} => reader = t
    /\ \A t \in Tasks : task[t].pc = "parked" =>
          reader = t \/ Cardinality({i \in DOMAIN queue : queue[i] = t}) = 1
    /\ reader # Nobody => Waiting(reader)

\* Every call ends, with a response or an error: no task is left reading for
\* nothing, parked without a reader, or waiting behind an unflushed buffer.
EveryCallEnds == \A t \in Tasks : task[t].pc # "idle" ~> task[t].pc = "idle"
=============================================================================

----------------------------- MODULE Connection -----------------------------
(***************************************************************************)
(* One connection as a stream of bytes: FrameReader and FrameWriter        *)
(* (ohmcp-transport/src/lib.rs), Frame::encode and decode                  *)
(* (ohmcp-core/src/frame.rs), over a socket or over the soft bus           *)
(* (ohmcp-transport/src/softbus.rs), between the client's tasks that share *)
(* its write buffer (request_with_id) and a session (handle_conn).  The    *)
(* soft bus is driven the way these two drive a socket.                    *)
(*                                                                         *)
(* A frame is a few units of bytes, the first of which is its header.  A   *)
(* socket buffers SocketCap units, takes what fits of a write and gives    *)
(* any part of it to a read.  The soft bus takes a write whole, as one     *)
(* chunk, and a read gets no more than the rest of a chunk.  ClientMux has *)
(* the mailboxes, ids and the reader lock; here any task that waits reads, *)
(* and each task makes one call.  The write of a task may be dropped with  *)
(* its future; FrameWriter then still has all of its buffer.               *)
(*                                                                         *)
(* DecodedEarly, WriteOnce and TakeDroppingRest are plausible mistakes,    *)
(* used by no action.                                                      *)
(***************************************************************************)
EXTENDS Integers, Sequences

CONSTANTS Tasks, Nobody,
          SocketCap,   \* units in a socket's buffer
          MaxLen,      \* MAX_FRAME_LEN (64 MiB) in units
          Settings     \* the connections considered, see below

\* One connection:
\*   link      "socket" or "softbus"
\*   request   per task: units of its request, 0 if it makes none
\*   answer    per task: units of its response
\*   pushes    bound: notifications of the session, one unit each
\*   drop      may a task's call be dropped?  "yes" or "no"
IsSetting(s) ==
    /\ s.link \in {"socket", "softbus"} /\ s.drop \in {"yes", "no"} /\ s.pushes \in Nat
    /\ s.request \in [Tasks -> Nat] /\ s.answer \in [Tasks -> Nat \ {0}]

ASSUME ConnectionAssumption ==
    /\ Nobody \notin Tasks /\ SocketCap \in Nat \ {0} /\ MaxLen \in Nat
    /\ \A s \in Settings : IsSetting(s)

VARIABLES setting,   \* the setting of this behaviour, fixed
          task,      \* per task: where its call is
          lock,      \* the task that has the writer lock, or Nobody
          pending,   \* tasks with a registered sender
          mail,      \* tasks whose response was delivered
          session,   \* "loop", "flush", "wait"; "closed" when the client has gone,
                     \* "failed" when it has met a bad frame or half a frame
          closed,    \* has the client closed the connection?
          wbuf,      \* per end: FrameWriter's buffer
          written,   \* per end: units of it that write_all has got rid of
          pipe,      \* per writing end: chunks on their way
          rbuf,      \* per end: FrameReader's buffer
          pushes,    \* notifications pushed
          queued,    \* history, per writing end: frames queued
          received,  \* history, per writing end: frames the other has decoded
          torn       \* history: was a write of the client given up half done?

ends == <<wbuf, written, pipe, rbuf>>
history == <<queued, received, torn>>
vars == <<setting, task, lock, pending, mail, session, closed, ends, pushes, history>>

Ends == {"client", "server"}
Peer(e) == IF e = "client" THEN "server" ELSE "client"
Ended == {"closed", "failed"}
Over == {"idle", "done", "dropped"}

Frame(kind, t) == [kind |-> kind, task |-> t]
Frames == {Frame(k, t) : k \in {"request", "answer"}, t \in Tasks} \cup {Frame("push", Nobody)}
Garbage == {[kind |-> "garbled", task |-> t] : t \in Tasks \cup {Nobody}}

Length(f) ==
    CASE f.kind = "request" -> setting.request[f.task]
      [] f.kind = "answer" -> setting.answer[f.task]
      [] OTHER -> 1

\* Frame::encode has no limit.
Units(f) == [i \in 1 .. Length(f) |-> <<f, i>>]

Init ==
    /\ setting \in Settings
    /\ task = [t \in Tasks |-> "idle"] /\ lock = Nobody /\ pending = {} /\ mail = {}
    /\ session = "loop" /\ closed = "no" /\ pushes = 0
    /\ wbuf = [e \in Ends |-> <<>>] /\ written = [e \in Ends |-> 0]
    /\ pipe = [e \in Ends |-> <<>>] /\ rbuf = [e \in Ends |-> <<>>]
    /\ queued = [e \in Ends |-> <<>>] /\ received = [e \in Ends |-> <<>>] /\ torn = "no"

-----------------------------------------------------------------------------
\* Frame::decode: "more" bytes are needed, or an "error", or a frame, which is
\* what its header says of however many units follow.

DecodedEarly(b) ==
    IF b = <<>> THEN "more"
    ELSE LET f == Head(b)[1]
         IN  IF Head(b)[2] # 1 \/ Length(f) > MaxLen THEN "error"
             ELSE IF Len(b) <= Length(f) THEN IF SubSeq(b, 1, Len(b)) = Units(f) THEN "whole" ELSE "garbled"
             ELSE IF SubSeq(b, 1, Length(f)) = Units(f) THEN "whole" ELSE "garbled"
Decoded(b) ==
    IF b = <<>> THEN "more"
    ELSE LET f == Head(b)[1]
         IN  IF Head(b)[2] # 1 \/ Length(f) > MaxLen THEN "error"
             ELSE IF Len(b) < Length(f) THEN "more"
             ELSE IF SubSeq(b, 1, Length(f)) = Units(f) THEN "whole" ELSE "garbled"

FrameOf(b) == IF Decoded(b) = "whole" THEN Head(b)[1] ELSE [kind |-> "garbled", task |-> Head(b)[1].task]
RestOf(b) == SubSeq(b, Length(Head(b)[1]) + 1, Len(b))

\* End e takes a frame out of its buffer.
TakeFrame(e) ==
    /\ Decoded(rbuf[e]) \in {"whole", "garbled"}
    /\ rbuf' = [rbuf EXCEPT ![e] = RestOf(@)]
    /\ received' = [received EXCEPT ![Peer(e)] = Append(@, FrameOf(rbuf[e]))]

\* FrameWriter::queue
QueueFrame(e, f) ==
    /\ wbuf' = [wbuf EXCEPT ![e] = @ \o Units(f)]
    /\ queued' = [queued EXCEPT ![e] = Append(@, f)]

-----------------------------------------------------------------------------
\* The stream

\* Units under way from e; only the soft bus keeps more than one chunk.
Size(e) == IF pipe[e] = <<>> THEN 0 ELSE Len(pipe[e][1])
Rest(e) == SubSeq(wbuf[e], written[e] + 1, Len(wbuf[e]))

\* poll_write: the sizes that a write of n units may really get rid of.
Accepts(e, n) == IF setting.link = "softbus" THEN {n} ELSE 1 .. SocketCap - Size(e)

Carry(e, us) ==
    pipe' = [pipe EXCEPT ![e] = IF setting.link = "softbus" \/ @ = <<>> THEN Append(@, us) ELSE <<@[1] \o us>>]

WriteOnce(e) ==
    /\ wbuf[e] # <<>>
    /\ \E n \in Accepts(e, Len(Rest(e))) \cap 1 .. Len(Rest(e)) :
          /\ Carry(e, SubSeq(Rest(e), 1, n))
          /\ wbuf' = [wbuf EXCEPT ![e] = <<>>] /\ UNCHANGED written
\* FrameWriter::flush: write_all, and only then is the buffer cleared.
Write(e) ==
    /\ wbuf[e] # <<>>
    /\ \E n \in Accepts(e, Len(Rest(e))) \cap 1 .. Len(Rest(e)) :
          /\ Carry(e, SubSeq(Rest(e), 1, n))
          /\ IF n = Len(Rest(e)) THEN wbuf' = [wbuf EXCEPT ![e] = <<>>] /\ written' = [written EXCEPT ![e] = 0]
             ELSE written' = [written EXCEPT ![e] = @ + n] /\ UNCHANGED wbuf

TakeDroppingRest(e) ==
    /\ pipe[Peer(e)] # <<>>
    /\ LET chunk == Head(pipe[Peer(e)])
       IN  \E n \in 1 .. Len(chunk) : rbuf' = [rbuf EXCEPT ![e] = @ \o SubSeq(chunk, 1, n)]
    /\ pipe' = [pipe EXCEPT ![Peer(e)] = Tail(@)]
\* read_buf: some of what is there; over the soft bus the rest of a chunk stays
\* in SessionStream::pending.
Take(e) ==
    /\ pipe[Peer(e)] # <<>>
    /\ LET chunk == Head(pipe[Peer(e)])
       IN  \E n \in 1 .. Len(chunk) :
              /\ rbuf' = [rbuf EXCEPT ![e] = @ \o SubSeq(chunk, 1, n)]
              /\ pipe' = [pipe EXCEPT ![Peer(e)] =
                            IF n = Len(chunk) THEN Tail(@) ELSE <<SubSeq(chunk, n + 1, Len(chunk))>> \o Tail(@)]

-----------------------------------------------------------------------------
\* The session (handle_conn)

\* The answers to a batch are queued.  A frame that does not decrypt or parse ends
\* the session by `?`; a garbled one, which has a header in it, never does.
Handle ==
    /\ session = "loop" /\ TakeFrame("server")
    /\ LET f == FrameOf(rbuf["server"])
       IN  IF f.kind = "request"
           THEN /\ wbuf' = [wbuf EXCEPT !["server"] = @ \o Units(Frame("answer", f.task))]
                /\ queued' = [queued EXCEPT !["server"] = Append(@, Frame("answer", f.task))]
                /\ UNCHANGED session
           ELSE session' = "failed" /\ UNCHANGED <<wbuf, queued>>
    /\ UNCHANGED <<setting, task, lock, pending, mail, closed, written, pipe, pushes, torn>>

HandleError ==
    /\ session = "loop" /\ Decoded(rbuf["server"]) = "error"
    /\ session' = "failed"
    /\ UNCHANGED <<setting, task, lock, pending, mail, closed, ends, pushes, history>>

\* The buffer has run dry: flush, if there is anything to.
RunDry ==
    /\ session = "loop" /\ Decoded(rbuf["server"]) = "more"
    /\ session' = IF wbuf["server"] = <<>> THEN "wait" ELSE "flush"
    /\ UNCHANGED <<setting, task, lock, pending, mail, closed, ends, pushes, history>>

Flush ==
    /\ session = "flush"
    /\ IF closed = "yes" THEN session' = "closed" /\ UNCHANGED ends
       ELSE /\ Write("server")
            /\ session' = IF wbuf'["server"] = <<>> THEN "wait" ELSE "flush"
            /\ UNCHANGED rbuf
    /\ UNCHANGED <<setting, task, lock, pending, mail, closed, pushes, history>>

ReadRequest ==
    /\ session = "wait" /\ Take("server") /\ session' = "loop"
    /\ UNCHANGED <<setting, task, lock, pending, mail, closed, wbuf, written, pushes, history>>

\* 0 bytes: the end of the stream, or of a frame's beginning.
ReadEnd ==
    /\ session = "wait" /\ pipe["client"] = <<>> /\ closed = "yes"
    /\ session' = IF rbuf["server"] = <<>> THEN "closed" ELSE "failed"
    /\ UNCHANGED <<setting, task, lock, pending, mail, closed, ends, pushes, history>>

Push ==
    /\ session = "wait" /\ pushes < setting.pushes
    /\ QueueFrame("server", Frame("push", Nobody)) /\ pushes' = pushes + 1 /\ session' = "flush"
    /\ UNCHANGED <<setting, task, lock, pending, mail, closed, written, pipe, rbuf, received, torn>>

Session == Handle \/ HandleError \/ RunDry \/ Flush \/ ReadRequest \/ ReadEnd

-----------------------------------------------------------------------------
\* A call (request_with_id, recv_response)

Goto(t, l) == task' = [task EXCEPT ![t] = l]
Register(t) ==
    /\ task[t] = "idle" /\ setting.request[t] > 0 /\ closed = "no" /\ t \notin pending
    /\ Goto(t, "registered") /\ pending' = pending \cup {t}
    /\ UNCHANGED <<setting, lock, mail, session, closed, ends, pushes, history>>

ChoosePath(t) ==
    /\ task[t] = "registered"
    /\ Goto(t, IF pending = {t} THEN "direct" ELSE "contended")
    /\ UNCHANGED <<setting, lock, pending, mail, session, closed, ends, pushes, history>>

Enqueue(t) ==
    /\ task[t] = "contended" /\ lock = Nobody
    /\ QueueFrame("client", Frame("request", t)) /\ Goto(t, "yielded")
    /\ UNCHANGED <<setting, lock, pending, mail, session, closed, written, pipe, rbuf, pushes, received, torn>>

\* The lock is taken for send, or for a flush, which may find nothing to do.
StartSend(t) ==
    /\ task[t] = "direct" /\ lock = Nobody
    /\ QueueFrame("client", Frame("request", t)) /\ lock' = t /\ Goto(t, "writing")
    /\ UNCHANGED <<setting, pending, mail, session, closed, written, pipe, rbuf, pushes, received, torn>>

StartFlush(t) ==
    /\ task[t] = "yielded" /\ lock = Nobody
    /\ IF wbuf["client"] = <<>> THEN Goto(t, "waiting") /\ UNCHANGED lock
       ELSE Goto(t, "writing") /\ lock' = t
    /\ UNCHANGED <<setting, pending, mail, session, closed, ends, pushes, history>>

\* A write to a session that has ended fails; the buffer keeps what it has.
WriteRequest(t) ==
    /\ task[t] = "writing"
    /\ IF session \in Ended
       THEN /\ Goto(t, "done") /\ lock' = Nobody /\ written' = [written EXCEPT !["client"] = 0]
            /\ UNCHANGED <<wbuf, pipe, rbuf>>
       ELSE /\ Write("client") /\ UNCHANGED rbuf
            /\ IF wbuf'["client"] = <<>> THEN Goto(t, "waiting") /\ lock' = Nobody
               ELSE UNCHANGED <<task, lock>>
    /\ UNCHANGED <<setting, pending, mail, session, closed, pushes, history>>

Waiting == {t \in Tasks : task[t] = "waiting" /\ t \notin mail}

ReceiveMail(t) ==
    /\ task[t] = "waiting" /\ t \in mail
    /\ Goto(t, "done") /\ mail' = mail \ {t}
    /\ UNCHANGED <<setting, lock, pending, session, closed, ends, pushes, history>>

\* Whoever has the reader lock reads for all.
ReadAnswer ==
    /\ Waiting # {} /\ Decoded(rbuf["client"]) = "more" /\ Take("client")
    /\ UNCHANGED <<setting, task, lock, pending, mail, session, closed, wbuf, written, pushes, history>>

Deliver ==
    /\ Waiting # {} /\ TakeFrame("client")
    /\ LET owner == {FrameOf(rbuf["client"]).task} \cap pending
       IN  mail' = mail \cup owner /\ pending' = pending \ owner
    /\ UNCHANGED <<setting, task, lock, session, closed, wbuf, written, pipe, pushes, queued, torn>>

\* A bad frame, which stays, or the end: the reader fails, and so will the next.
ReadFails(t) ==
    /\ t \in Waiting
    /\ \/ Decoded(rbuf["client"]) = "error"
       \/ Decoded(rbuf["client"]) = "more" /\ pipe["server"] = <<>> /\ session \in Ended
    /\ Goto(t, "done")
    /\ UNCHANGED <<setting, lock, pending, mail, session, closed, ends, pushes, history>>

\* The caller drops the future, or its wait times out.
Drop(t) ==
    /\ setting.drop = "yes" /\ task[t] \in {"contended", "direct", "yielded", "writing", "waiting"}
    /\ Goto(t, "dropped") /\ mail' = mail \ {t}
    /\ IF lock = t
       THEN /\ lock' = Nobody /\ written' = [written EXCEPT !["client"] = 0]
            /\ torn' = IF written["client"] > 0 THEN "yes" ELSE torn
       ELSE UNCHANGED <<lock, written, torn>>
    /\ UNCHANGED <<setting, pending, session, closed, wbuf, pipe, rbuf, pushes, queued, received>>

\* The client is dropped, and what it has not flushed with it.
Close ==
    /\ closed = "no" /\ \A t \in Tasks : task[t] \in Over
    /\ closed' = "yes"
    /\ UNCHANGED <<setting, task, lock, pending, mail, session, ends, pushes, history>>

Client(t) ==
    \/ ChoosePath(t) \/ Enqueue(t) \/ StartSend(t) \/ StartFlush(t) \/ WriteRequest(t)
    \/ ReceiveMail(t) \/ ReadFails(t)

-----------------------------------------------------------------------------
Next ==
    \/ Session \/ Push \/ ReadAnswer \/ Deliver \/ Close
    \/ \E t \in Tasks : Client(t) \/ Register(t) \/ Drop(t)

Spec == Init /\ [][Next]_vars

\* The runtimes poll the session and every task that can go on.
Fairness ==
    /\ WF_vars(Session) /\ WF_vars(ReadAnswer) /\ WF_vars(Deliver)
    /\ \A t \in Tasks : WF_vars(Client(t))
FairSpec == Spec /\ Fairness

-----------------------------------------------------------------------------
\* Properties

TypeOK ==
    /\ lock \in Tasks \cup {Nobody} /\ pending \cup mail \subseteq Tasks
    /\ \A t \in Tasks : task[t] = "writing" <=> lock = t
    /\ \A e \in Ends : written[e] < Len(wbuf[e]) \/ written[e] = 0
    /\ \A e \in Ends : setting.link = "socket" => Size(e) <= SocketCap /\ Len(pipe[e]) <= 1

Oversize == \E f \in Frames : Length(f) > MaxLen

\* However writes and reads cut the stream, neither end ever finds it in disorder, or
\* ended within a frame, unless a write was torn or a frame is over the limit.
StreamStaysSound ==
    /\ TypeOK
    /\ torn = "no" /\ ~Oversize => session # "failed" /\ Decoded(rbuf["client"]) # "error"

Up == INSTANCE FrameChannel WITH queued <- queued["client"], received <- received["client"]
Down == INSTANCE FrameChannel WITH queued <- queued["server"], received <- received["server"], torn <- "no"

\* transport lib.rs:4, softbus.rs:12: over a socket and over the soft bus, each direction
\* is a channel of whole frames in order; only the client's may be torn.
ImplementsFrameChannel == Up!Spec /\ Down!Spec

\* Every call ends: the buffers of the two directions never fill up against each
\* other where one of them holds all that is under way.
EveryCallEnds == \A t \in Tasks : task[t] = "registered" ~> task[t] \in {"done", "dropped"}
=============================================================================

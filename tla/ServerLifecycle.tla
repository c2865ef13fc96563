-------------------------- MODULE ServerLifecycle ---------------------------
(***************************************************************************)
(* run_with and reject_busy (ohmcpd/src/server.rs): a daemon takes the     *)
(* socket's path over, accepts connections while it has permits for them,  *)
(* turns the others away, and on SIGTERM stops listening, tells its        *)
(* sessions and gives them a grace period.  Daemons may be killed, may     *)
(* fail in accept and may be started again, also while another still runs. *)
(*                                                                         *)
(* Of a session (ServerSession has the rest) this module keeps what its    *)
(* life depends on: it waits ("serving"), handles a batch or flushes its   *)
(* answers ("busy"), has closed the stream but not yet dropped its permit, *)
(* handle_conn's last parameter ("leaving"), or is to be dropped by the    *)
(* runtime at its next await ("aborting").  A flush to a client that does  *)
(* not read does not return, unless that client hangs up.                  *)
(*                                                                         *)
(* BindOnly, WaitForAll, DropKeepingPermit, SpinAtEof and ToldAtTheEnd are *)
(* plausible mistakes, used by no action.                                  *)
(***************************************************************************)
EXTENDS Integers, FiniteSets

CONSTANTS Daemons, Conns,
          NoFile,      \* no file at the socket's path
          Settings     \* the worlds considered, see below

\* One world:
\*   daemons, conns  that there may be
\*   max             max_connections
\*   grace           shutdown_grace: "elapses" at some time after the shutdown began,
\*                   however little its sessions have done by then, or is "endless"
\*   asks            bound: batches of a client
\*   mishaps         "deaf": a client may stop reading; "kill": a daemon may be
\*                   killed; "accept": accept may fail
IsSetting(s) ==
    /\ s.daemons \subseteq Daemons /\ s.conns \subseteq Conns
    /\ s.max \in Nat /\ s.asks \in Nat /\ s.grace \in {"elapses", "endless"}
    /\ s.mishaps \subseteq {"deaf", "kill", "accept"}

ASSUME LifecycleAssumption ==
    NoFile \notin Daemons /\ IsFiniteSet(Conns) /\ \A s \in Settings : IsSetting(s)

VARIABLES setting,     \* the setting of this behaviour, fixed
          path,        \* the daemon that bound the file at the path, or NoFile
          pc,          \* per daemon: where run_with is, or how it ended
          signalled,   \* daemons that were sent SIGTERM
          permits,     \* per daemon: free permits of the limiter
          conn,        \* per connection: what became of it
          server,      \* per connection: its daemon
          asked,       \* per connection: batches sent
          gone, deaf,  \* connections whose client has hung up, does not read
          overlapped   \* history: daemons that ran while another did

sockets == <<conn, server>>
clients == <<asked, gone, deaf>>
vars == <<setting, path, pc, signalled, permits, sockets, clients, overlapped>>

Running == {"binding", "accepting", "closing", "unlinking", "notifying", "draining"}
Stopped == {"cannot bind", "returned", "failed", "dead"}
Session == {"serving", "busy"}
Holding == Session \cup {"leaving", "aborting"}
Over == {"closed", "refused", "aborted", "cut"}

Init ==
    /\ setting \in Settings
    /\ path = NoFile
    /\ pc = [d \in Daemons |-> "new"] /\ permits = [d \in Daemons |-> setting.max]
    /\ signalled = {} /\ overlapped = {}
    /\ conn = [c \in Conns |-> "new"] /\ server = [c \in Conns |-> NoFile]
    /\ asked = [c \in Conns |-> 0] /\ gone = {} /\ deaf = {}

Goto(d, l) == pc' = [pc EXCEPT ![d] = l]
Become(c, l) == conn' = [conn EXCEPT ![c] = l]
Of(d, states) == {c \in Conns : server[c] = d /\ conn[c] \in states}
\* Connections of d in these states change, at once, to l.
All(d, states, l) == [c \in Conns |-> IF c \in Of(d, states) THEN l ELSE conn[c]]

-----------------------------------------------------------------------------
\* run_with

BindOnly(d) ==
    /\ d \in setting.daemons /\ pc[d] = "new"
    /\ LET others == {e \in Daemons \ {d} : pc[e] \in Running}
       IN  overlapped' = IF others = {} THEN overlapped ELSE overlapped \cup others \cup {d}
    /\ Goto(d, "binding")
    /\ UNCHANGED <<setting, path, signalled, permits, sockets, clients>>
\* A file that is there is removed, whosever it is.
RemoveOld(d) ==
    /\ d \in setting.daemons /\ pc[d] = "new"
    /\ LET others == {e \in Daemons \ {d} : pc[e] \in Running}
       IN  overlapped' = IF others = {} THEN overlapped ELSE overlapped \cup others \cup {d}
    /\ Goto(d, "binding") /\ path' = NoFile
    /\ UNCHANGED <<setting, signalled, permits, sockets, clients>>

Bind(d) ==
    /\ pc[d] = "binding"
    /\ IF path = NoFile THEN Goto(d, "accepting") /\ path' = d
       ELSE Goto(d, "cannot bind") /\ UNCHANGED path
    /\ UNCHANGED <<setting, signalled, permits, sockets, clients, overlapped>>

\* try_acquire_owned: a session with a permit, or a detached task that refuses.
Accept(d) ==
    /\ pc[d] = "accepting"
    /\ \E c \in Of(d, {"backlog"}) :
          IF permits[d] > 0
          THEN Become(c, "serving") /\ permits' = [permits EXCEPT ![d] = @ - 1]
          ELSE Become(c, "refusing") /\ UNCHANGED permits
    /\ UNCHANGED <<setting, path, pc, signalled, server, clients, overlapped>>

\* accept()? leaves run_with: its locals are dropped, the listener with its
\* backlog and the JoinSet with its sessions; the file stays.
AcceptFails(d) ==
    /\ "accept" \in setting.mishaps /\ pc[d] = "accepting"
    /\ Goto(d, "failed")
    /\ conn' = [c \in Conns |-> IF c \in Of(d, {"backlog"}) THEN "cut"
                                ELSE IF c \in Of(d, Session) THEN "aborting" ELSE conn[c]]
    /\ UNCHANGED <<setting, path, signalled, permits, server, clients, overlapped>>

\* The select! in the loop takes either branch when both are ready.
SeeSignal(d) ==
    /\ pc[d] = "accepting" /\ d \in signalled
    /\ Goto(d, "closing")
    /\ UNCHANGED <<setting, path, signalled, permits, sockets, clients, overlapped>>

DropListener(d) ==
    /\ pc[d] = "closing"
    /\ Goto(d, "unlinking") /\ conn' = All(d, {"backlog"}, "cut")
    /\ UNCHANGED <<setting, path, signalled, permits, server, clients, overlapped>>

\* The file at the path goes, whosever it is.
RemoveFile(d) ==
    /\ pc[d] = "unlinking"
    /\ Goto(d, "notifying") /\ path' = NoFile
    /\ UNCHANGED <<setting, signalled, permits, sockets, clients, overlapped>>

Notify(d) ==
    /\ pc[d] = "notifying"
    /\ Goto(d, "draining")
    /\ UNCHANGED <<setting, path, signalled, permits, sockets, clients, overlapped>>

ToldAtTheEnd(d) == pc[d] \in {"returned", "failed"}
\* shutdown_rx.changed() is ready: a value was sent, or the sender was dropped.
Told(d) == pc[d] \in {"draining", "returned", "failed"}

\* join_next until there is none left.
Drained(d) ==
    /\ pc[d] = "draining" /\ Of(d, Holding) = {}
    /\ Goto(d, "returned")
    /\ UNCHANGED <<setting, path, signalled, permits, sockets, clients, overlapped>>

\* A session is stuck when it flushes to a client that is there and does not read.
Stuck(c) == conn[c] = "busy" /\ c \in deaf \ gone

WaitForAll(d) == FALSE /\ UNCHANGED vars
\* The timeout of the wall clock: it asks nothing of the sessions.  One that waits, runs
\* a tool or writes is aborted; one that has returned from its last await is not.
GraceElapses(d) ==
    /\ setting.grace = "elapses"
    /\ pc[d] = "draining" /\ Of(d, Holding) # {}
    /\ Goto(d, "returned") /\ conn' = All(d, Session, "aborting")
    /\ UNCHANGED <<setting, path, signalled, permits, server, clients, overlapped>>

RunWith(d) ==
    \/ RemoveOld(d) \/ Bind(d) \/ Accept(d) \/ SeeSignal(d) \/ DropListener(d)
    \/ RemoveFile(d) \/ Notify(d) \/ Drained(d) \/ GraceElapses(d)

-----------------------------------------------------------------------------
\* A session

TakeBatch(c) ==
    /\ conn[c] = "serving" /\ asked[c] < setting.asks /\ c \notin gone
    /\ Become(c, "busy") /\ asked' = [asked EXCEPT ![c] = @ + 1]
    /\ UNCHANGED <<setting, path, pc, signalled, permits, server, gone, deaf, overlapped>>

FinishBatch(c) ==
    /\ conn[c] = "busy" /\ ~Stuck(c)
    /\ Become(c, "serving")
    /\ UNCHANGED <<setting, path, pc, signalled, permits, server, clients, overlapped>>

\* The write, or a frame of the batch, is in error.
FailBatch(c) ==
    /\ conn[c] = "busy" /\ ~Stuck(c)
    /\ Become(c, "leaving")
    /\ UNCHANGED <<setting, path, pc, signalled, permits, server, clients, overlapped>>

SpinAtEof(c) ==
    /\ conn[c] = "serving" /\ Told(server[c])
    /\ Become(c, "leaving")
    /\ UNCHANGED <<setting, path, pc, signalled, permits, server, clients, overlapped>>
\* 'session ends: next_frame found the end of the stream, or shutdown was told.
Break(c) ==
    /\ conn[c] = "serving" /\ (c \in gone \/ Told(server[c]))
    /\ Become(c, "leaving")
    /\ UNCHANGED <<setting, path, pc, signalled, permits, server, clients, overlapped>>

ReleasePermit(c) == permits' = [permits EXCEPT ![server[c]] = @ + 1]

\* handle_conn returns: the stream's halves are dropped first, the permit last.
Return(c) ==
    /\ conn[c] = "leaving"
    /\ Become(c, "closed") /\ ReleasePermit(c)
    /\ UNCHANGED <<setting, path, pc, signalled, server, clients, overlapped>>

DropKeepingPermit(c) ==
    /\ conn[c] = "aborting"
    /\ Become(c, "aborted")
    /\ UNCHANGED <<setting, path, pc, signalled, permits, server, clients, overlapped>>
\* An aborted task is dropped by the runtime, with all it owns.
DropTask(c) ==
    /\ conn[c] = "aborting"
    /\ Become(c, "aborted") /\ ReleasePermit(c)
    /\ UNCHANGED <<setting, path, pc, signalled, server, clients, overlapped>>

\* reject_busy: one small frame into an empty socket, and the stream is closed.
Refuse(c) ==
    /\ conn[c] = "refusing"
    /\ Become(c, "refused")
    /\ UNCHANGED <<setting, path, pc, signalled, permits, server, clients, overlapped>>

Task(c) ==
    FinishBatch(c) \/ FailBatch(c) \/ Break(c) \/ Return(c) \/ DropTask(c) \/ Refuse(c)

-----------------------------------------------------------------------------
\* Clients, and what may happen to a process

\* connect succeeds as soon as a listener has the file at the path.
Connect(c) ==
    /\ c \in setting.conns /\ conn[c] = "new"
    /\ \E d \in Daemons :
          /\ path = d /\ pc[d] \in {"accepting", "closing"}
          /\ server' = [server EXCEPT ![c] = d]
    /\ Become(c, "backlog")
    /\ UNCHANGED <<setting, path, pc, signalled, permits, clients, overlapped>>

HangUp(c) ==
    /\ conn[c] \notin Over \cup {"new"} /\ c \notin gone
    /\ gone' = gone \cup {c}
    /\ UNCHANGED <<setting, path, pc, signalled, permits, sockets, asked, deaf, overlapped>>

GoDeaf(c) ==
    /\ "deaf" \in setting.mishaps /\ conn[c] \in Session /\ c \notin deaf
    /\ deaf' = deaf \cup {c}
    /\ UNCHANGED <<setting, path, pc, signalled, permits, sockets, asked, gone, overlapped>>

Sigterm(d) ==
    /\ pc[d] = "accepting" /\ d \notin signalled
    /\ signalled' = signalled \cup {d}
    /\ UNCHANGED <<setting, path, pc, permits, sockets, clients, overlapped>>

\* The process ends: by itself when run_with has returned, or killed at any time.
\* The system closes its sockets; the file stays as it is.
Die(d) ==
    /\ pc[d] \in {"returned", "failed"} \/ ("kill" \in setting.mishaps /\ pc[d] \in Running)
    /\ Goto(d, "dead") /\ conn' = All(d, Holding \cup {"backlog", "refusing"}, "cut")
    /\ permits' = [permits EXCEPT ![d] = setting.max]
    /\ UNCHANGED <<setting, path, signalled, server, clients, overlapped>>

-----------------------------------------------------------------------------
Next ==
    \/ \E d \in Daemons : RunWith(d) \/ AcceptFails(d) \/ Sigterm(d) \/ Die(d)
    \/ \E c \in Conns : Task(c) \/ TakeBatch(c) \/ Connect(c) \/ HangUp(c) \/ GoDeaf(c)

Spec == Init /\ [][Next]_vars

\* The runtime polls the tasks that were woken, and time passes.
Fairness ==
    /\ \A d \in Daemons : WF_vars(RunWith(d))
    /\ \A c \in Conns : WF_vars(Task(c))
FairSpec == Spec /\ Fairness

-----------------------------------------------------------------------------
\* Properties

TypeOK ==
    /\ path \in Daemons \cup {NoFile} /\ signalled \cup overlapped \subseteq Daemons
    /\ pc \in [Daemons -> Running \cup Stopped \cup {"new"}]
    /\ permits \in [Daemons -> 0 .. setting.max]
    /\ conn \in [Conns -> Holding \cup Over \cup {"new", "backlog", "refusing"}]
    /\ server \in [Conns -> Daemons \cup {NoFile}]
    /\ gone \cup deaf \subseteq Conns /\ asked \in [Conns -> 0 .. setting.asks]

\* However sessions end (by themselves, failing, told, aborted), every permit is
\* either free or held by one connection that is not over: none is lost or doubled.
PermitsAccounted ==
    TypeOK /\ \A d \in Daemons : permits[d] + Cardinality(Of(d, Holding)) = setting.max

\* A daemon that runs alone owns the path while it accepts, whatever became of those
\* before it: a file that one left behind neither keeps it from binding nor hides it.
RestartTakesOver ==
    \A d \in Daemons \ overlapped :
        /\ pc[d] # "cannot bind"
        /\ pc[d] = "accepting" => path = d

\* The shutdown reaches the sessions (docs/design.md:151: it notifies them so that they
\* finish): given the time, each one that runs when the daemon starts to wait for them
\* ends by itself, none is forgotten in its wait for a frame.  Only one that is stuck
\* needs its client, or the end of the grace period.
ToldSessionsEnd ==
    \A c \in Conns :
        /\ setting.grace = "endless"
        /\ conn[c] \in Session /\ pc[server[c]] = "draining"
        ~> conn[c] \in {"closed", "cut"} \/ Stuck(c)

\* A daemon that was signalled returns and then no file of it is left at the path:
\* whatever its clients do if the grace period ends, and if it does not, unless one of
\* its sessions is stuck.
ShutdownCompletes ==
    \A d \in Daemons : d \in signalled ~>
        \/ pc[d] \in Stopped /\ (pc[d] = "returned" => path # d)
        \/ setting.grace = "endless" /\ \E c \in Of(d, Session) : Stuck(c)

\* Whatever state a connection is in when its client hangs up (queued, refused, served,
\* stuck in a flush), it ends and its permit is free again.
SlotComesBack == \A c \in Conns : c \in gone ~> conn[c] \in Over
=============================================================================

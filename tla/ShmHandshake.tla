---------------------------- MODULE ShmHandshake -----------------------------
(***************************************************************************)
(* How a connection comes up: connect_inner (ohmcp-client/src/lib.rs) and  *)
(* the session's handlers it talks to (handle_conn, ohmcpd/src/server.rs), *)
(* with the exchange of descriptors (ohmcp-transport/src/shm.rs).          *)
(*                                                                         *)
(* The client reads one stream in two ways: frames through its FrameReader,*)
(* which takes whatever has arrived, and descriptors straight from the     *)
(* socket, a byte at a time.  An element of the stream is one flush or one *)
(* descriptor's byte; small frames arrive whole on a Unix socket.  The     *)
(* client has one request open at a time, so a session's handler and the   *)
(* flush after it are one step.  Frames' contents and keys are left out.   *)
(*                                                                         *)
(* HandleAuthSilently, DeclineSilently, SetUpEnabling and ReceiveDownOnly  *)
(* are plausible mistakes, used by no action.                              *)
(***************************************************************************)
EXTENDS Integers, Sequences

CONSTANTS ServerTokens,   \* may the server have a token?  of {"none", "set"}
          ClientTokens,   \* the client's: of {"none", "right", "wrong"}
          ShmWishes,      \* connect or connect_shm: of {"no", "yes"}
          Faults,         \* what may go wrong
          MaxPushes       \* bound: resources added meanwhile

ASSUME HandshakeAssumption ==
    /\ ServerTokens \subseteq {"none", "set"} /\ ShmWishes \subseteq {"no", "yes"}
    /\ ClientTokens \subseteq {"none", "right", "wrong"}
    /\ Faults \subseteq {"dup", "memfd", "first_fd", "second_fd", "mmap", "slow", "shutdown"}
    /\ MaxPushes \in Nat

VARIABLES config,      \* the two tokens and the client's wish, fixed
          handler,     \* where the session is: "wait", in ShmSetup, or "ended"
          authenticated, serverRings,
          client,      \* where connect_inner is
          fds,         \* descriptors received
          clientRings,
          toServer,    \* frames on the way to the session
          toClient,    \* stream to the client, not read yet
          buf,         \* the client's FrameReader
          pushes,      \* ResourceListChanged frames pushed
          mishaps      \* history: faults that happened

session == <<handler, authenticated, serverRings>>
caller == <<client, fds, clientRings, buf>>
handshakeVars == <<config, session, caller, toServer, toClient, pushes, mishaps>>

Both == {"down", "up"}

HandshakeInit ==
    /\ config \in [serverToken : ServerTokens, token : ClientTokens, shm : ShmWishes]
    /\ handler = "wait" /\ serverRings = {}
    /\ authenticated = IF config.serverToken = "set" THEN "no" ELSE "yes"
    /\ client = "start" /\ fds = {} /\ clientRings = {}
    /\ toServer = <<>> /\ toClient = <<>> /\ buf = <<>>
    /\ pushes = 0 /\ mishaps = {}

\* A fault of the environment, remembered.
Mishap(fault) == fault \in Faults /\ mishaps' = mishaps \cup {fault}

-----------------------------------------------------------------------------
\* The session

Write(element) == toClient' = Append(toClient, element)
Take(frame) == toServer # <<>> /\ Head(toServer) = frame /\ toServer' = Tail(toServer)

HandleAuthSilently ==
    /\ handler = "wait" /\ Take("auth")
    /\ IF config.serverToken = "set" /\ config.token = "right"
       THEN authenticated' = "yes" /\ Write("auth_ok")
       ELSE UNCHANGED <<authenticated, toClient>>
    /\ UNCHANGED <<config, handler, serverRings, caller, pushes, mishaps>>
\* The refusal is queued and never flushed.
HandleAuth ==
    /\ handler = "wait" /\ Take("auth")
    /\ IF config.serverToken = "set" /\ config.token = "right"
       THEN authenticated' = "yes" /\ Write("auth_ok") /\ UNCHANGED handler
       ELSE handler' = "ended" /\ UNCHANGED <<authenticated, toClient>>
    /\ UNCHANGED <<config, serverRings, caller, pushes, mishaps>>

HandleUnauthenticated ==
    /\ handler = "wait" /\ authenticated = "no"
    /\ \E frame \in {"shm_setup", "initialize"} : Take(frame)
    /\ Write("error")
    /\ UNCHANGED <<config, session, caller, pushes, mishaps>>

HandleInitialize ==
    /\ handler = "wait" /\ authenticated = "yes" /\ Take("initialize")
    /\ Write("init_result")
    /\ UNCHANGED <<config, session, caller, pushes, mishaps>>

\* Two memfds are made; without them the client is told by a 0 byte.
HandleShmSetup ==
    /\ handler = "wait" /\ authenticated = "yes" /\ Take("shm_setup")
    /\ \/ handler' = "down_fd" /\ UNCHANGED mishaps
       \/ handler' = "decline" /\ Mishap("memfd")
       \/ handler' = "ended" /\ Mishap("dup")
    /\ UNCHANGED <<config, authenticated, serverRings, caller, toClient, pushes>>

\* send_fd_blocking may fail, for one descriptor or for the other.
SendDown ==
    /\ handler = "down_fd"
    /\ \/ Write("down_fd") /\ handler' = "up_fd" /\ UNCHANGED mishaps
       \/ handler' = "setup_failed" /\ Mishap("first_fd") /\ UNCHANGED toClient
    /\ UNCHANGED <<config, authenticated, serverRings, caller, toServer, pushes>>

SendUp ==
    /\ handler = "up_fd"
    /\ \/ Write("up_fd") /\ handler' = "setup_ok" /\ UNCHANGED mishaps
       \/ handler' = "setup_failed" /\ Mishap("second_fd") /\ UNCHANGED toClient
    /\ UNCHANGED <<config, authenticated, serverRings, caller, toServer, pushes>>

DeclineSilently ==
    /\ handler = "decline" /\ handler' = "setup_failed"
    /\ UNCHANGED <<config, authenticated, serverRings, caller, toServer, toClient, pushes, mishaps>>
Decline ==
    /\ handler = "decline"
    /\ Write("decline") /\ handler' = "setup_failed"
    /\ UNCHANGED <<config, authenticated, serverRings, caller, toServer, pushes, mishaps>>

SetUpEnabling ==
    /\ handler \in {"setup_ok", "setup_failed"}
    /\ Write(handler) /\ handler' = "wait" /\ serverRings' = Both
    /\ UNCHANGED <<config, authenticated, caller, toServer, pushes, mishaps>>
\* ShmSetupResult; the session uses the rings from here on.
SetUp ==
    /\ handler \in {"setup_ok", "setup_failed"}
    /\ Write(handler) /\ handler' = "wait"
    /\ serverRings' = IF handler = "setup_ok" THEN Both ELSE {}
    /\ UNCHANGED <<config, authenticated, caller, toServer, pushes, mishaps>>

\* While it waits, the session pushes what the resource registry announces.
Push ==
    /\ handler = "wait" /\ authenticated = "yes" /\ pushes < MaxPushes
    /\ Write("list_changed") /\ pushes' = pushes + 1
    /\ UNCHANGED <<config, session, caller, toServer, mishaps>>

\* The daemon shuts down, or the client has closed the connection.
EndSession ==
    /\ handler = "wait" /\ handler' = "ended"
    /\ \/ Mishap("shutdown")
       \/ client = "failed" /\ toServer = <<>> /\ UNCHANGED mishaps
    /\ UNCHANGED <<config, authenticated, serverRings, caller, toServer, toClient, pushes>>

-----------------------------------------------------------------------------
\* The client

Request(frame) ==
    toServer' = Append(toServer, frame) /\ UNCHANGED <<toClient, buf>>

Start ==
    /\ client = "start"
    /\ IF config.token = "none"
       THEN client' = "authenticated" /\ UNCHANGED <<toServer, toClient, buf>>
       ELSE client' = "await_auth" /\ Request("auth")
    /\ UNCHANGED <<config, session, fds, clientRings, pushes, mishaps>>

Proceed ==
    /\ client = "authenticated"
    /\ IF config.shm = "yes"
       THEN client' = "receive_down" /\ Request("shm_setup")
       ELSE client' = "await_init" /\ Request("initialize")
    /\ UNCHANGED <<config, session, fds, clientRings, pushes, mishaps>>

Reading == {"await_auth", "await_result", "await_init"}

\* One read of next_frame: everything that has arrived up to some point.
Read ==
    /\ client \in Reading /\ buf = <<>> /\ toClient # <<>>
    /\ \E n \in 1 .. Len(toClient) :
          /\ buf' = SubSeq(toClient, 1, n)
          /\ toClient' = SubSeq(toClient, n + 1, Len(toClient))
    /\ UNCHANGED <<config, session, client, fds, clientRings, toServer, pushes, mishaps>>

NextFrame(place) == client = place /\ buf # <<>> /\ buf' = Tail(buf)

AwaitAuth ==
    /\ NextFrame("await_auth")
    /\ client' = IF Head(buf) = "auth_ok" THEN "authenticated" ELSE "failed"
    /\ UNCHANGED <<config, session, fds, clientRings, toServer, toClient, pushes, mishaps>>

\* recv_fd_blocking takes the next byte of the socket, whatever it belongs to:
\* that of a descriptor, the 0 of a refusal, or a frame's first.
ReceiveFd(place, fd, next) ==
    /\ client = place /\ toClient # <<>>
    /\ toClient' = Tail(toClient)
    /\ IF Head(toClient) = fd
       THEN client' = next /\ fds' = fds \cup {fd}
       ELSE client' = (IF Head(toClient) = "decline" THEN "await_result" ELSE "failed")
            /\ UNCHANGED fds
    /\ UNCHANGED <<config, session, clientRings, buf, toServer, pushes, mishaps>>
ReceiveDownOnly == ReceiveFd("receive_down", "down_fd", "await_result")
ReceiveDown == ReceiveFd("receive_down", "down_fd", "receive_up")
ReceiveUp == ReceiveFd("receive_up", "up_fd", "await_result")

\* Rings a frame taken for ShmSetupResult makes the client map: one without
\* "ok": true, such as a notification's {}, none.
Offered(frame) == IF frame = "setup_ok" /\ fds # {} THEN Both ELSE {}

AwaitResult ==
    /\ NextFrame("await_result")
    /\ \/ client' = "await_init" /\ clientRings' = Offered(Head(buf))
          /\ toServer' = Append(toServer, "initialize") /\ UNCHANGED mishaps
       \/ Offered(Head(buf)) # {} /\ client' = "failed" /\ Mishap("mmap")
          /\ UNCHANGED <<clientRings, toServer>>
    /\ UNCHANGED <<config, session, fds, toClient, pushes>>

\* recv_response: notifications and answers to nobody are passed over.
AwaitInit ==
    /\ NextFrame("await_init")
    /\ client' = CASE Head(buf) = "init_result" -> "connected"
                   [] Head(buf) = "error" -> "failed"
                   [] OTHER -> client
    /\ UNCHANGED <<config, session, fds, clientRings, toServer, toClient, pushes, mishaps>>

Receiving == {"receive_down", "receive_up"}

\* The session's end of the stream, or 5 s without a byte of a descriptor.
GiveUp ==
    /\ client \in Reading \cup Receiving
    /\ toClient = <<>> /\ (client \in Reading => buf = <<>>)
    /\ client' = "failed"
    /\ \/ handler = "ended" /\ UNCHANGED mishaps
       \/ client \in Receiving /\ Mishap("slow")
    /\ UNCHANGED <<config, session, fds, clientRings, buf, toServer, toClient, pushes>>

-----------------------------------------------------------------------------
SessionStep ==
    \/ HandleAuth \/ HandleUnauthenticated \/ HandleInitialize
    \/ HandleShmSetup \/ SendDown \/ SendUp \/ Decline \/ SetUp
ClientStep ==
    \/ Start \/ Proceed \/ Read \/ AwaitAuth
    \/ ReceiveDown \/ ReceiveUp \/ AwaitResult \/ AwaitInit \/ GiveUp
HandshakeNext == SessionStep \/ ClientStep \/ Push \/ EndSession
HandshakeSpec == HandshakeInit /\ [][HandshakeNext]_handshakeVars

\* The runtimes of both ends poll the two tasks when they can go on.
HandshakeFairSpec ==
    HandshakeSpec /\ WF_handshakeVars(SessionStep) /\ WF_handshakeVars(ClientStep)

-----------------------------------------------------------------------------
\* Properties

Entitled == <<config.serverToken, config.token>> \in {<<"none", "none">>, <<"set", "right">>}

HandshakeTypeOK ==
    /\ handler \in {"wait", "down_fd", "up_fd", "decline", "setup_ok", "setup_failed", "ended"}
    /\ client \in {"start", "authenticated", "connected", "failed"} \cup Reading \cup Receiving
    /\ fds \subseteq {"down_fd", "up_fd"} /\ serverRings \in {{}, Both} /\ clientRings \in {{}, Both}
    /\ pushes \in 0 .. MaxPushes /\ mishaps \subseteq Faults

\* As long as no notification comes in between, and whichever step fails, both ends of
\* an established connection use the rings or neither does: else the session would
\* send references to a client that cannot resolve them.
RingsAgreeUndisturbed ==
    HandshakeTypeOK /\ (pushes = 0 /\ client = "connected" /\ handler # "ended" => clientRings = serverRings)

\* The order of the handshake keeps SCM_RIGHTS from ordinary reads, which drop
\* descriptors (lib.rs:133), whatever is pushed and whichever step fails.
NoFdInBuffer == \A i \in DOMAIN buf : buf[i] \notin {"down_fd", "up_fd", "decline"}

\* Who is entitled comes through when nothing breaks; with connect, and not
\* connect_shm, notifications in between do no harm either.  And a client for
\* which the server has no memory to share still connects, without a ring.
EntitledConnect ==
    client = "failed" /\ Entitled =>
        /\ mishaps = {} => config.shm = "yes" /\ pushes > 0
        /\ pushes = 0 => mishaps # {"memfd"}

\* connect returns: neither end waits for what the other will not send.
ConnectEnds == <>(client \in {"connected", "failed"})
=============================================================================

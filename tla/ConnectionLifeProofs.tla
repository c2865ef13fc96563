------------------------ MODULE ConnectionLifeProofs ------------------------
(***************************************************************************)
(* How connections come up and go down: the daemon's life cycle keeps its  *)
(* promises for any number of daemons, connections and permits and for any *)
(* mishaps, and so does the handshake (ShmHandshake) for any  *)
(* tokens, any fault at any step and any number of notifications pushed    *)
(* meanwhile.  The two are about different processes and share no state.   *)
(***************************************************************************)
EXTENDS ServerLifecycle, ShmHandshake, FiniteSetTheorems, SequenceTheorems, TLAPS

-----------------------------------------------------------------------------
(***************************************************************************)
(* The life cycle                                                          *)
(***************************************************************************)

Held(d) == Of(d, Holding)

\* Types; that permits do not exceed max follows from Accounted.
Typed ==
    /\ setting \in Settings
    /\ path \in Daemons \cup {NoFile} /\ signalled \cup overlapped \subseteq Daemons
    /\ pc \in [Daemons -> Running \cup Stopped \cup {"new"}]
    /\ permits \in [Daemons -> Nat]
    /\ conn \in [Conns -> Holding \cup Over \cup {"new", "backlog", "refusing"}]
    /\ server \in [Conns -> Daemons \cup {NoFile}]
    /\ gone \cup deaf \subseteq Conns /\ asked \in [Conns -> 0 .. setting.asks]

\* Daemons that run at the same time have both overlapped; one that has not finds the
\* path as it left it.
PathInv ==
    /\ \A d, e \in Daemons :
          d # e /\ pc[d] \in Running /\ pc[e] \in Running => d \in overlapped /\ e \in overlapped
    /\ \A d \in Daemons \ overlapped :
          /\ pc[d] = "binding" => path = NoFile
          /\ pc[d] = "accepting" => path = d
          /\ pc[d] # "cannot bind"

Accounted == \A d \in Daemons : permits[d] + Cardinality(Held(d)) = setting.max

LEMMA HeldFinite ==
    ASSUME NEW d
    PROVE  IsFiniteSet(Held(d)) /\ Cardinality(Held(d)) \in Nat
<1>1. IsFiniteSet(Held(d))
  BY LifecycleAssumption, FS_Subset DEF Held, Of
<1>2. QED BY <1>1, FS_CardinalityType

-----------------------------------------------------------------------------
\* Types

LEMMA InitTyped == Init => Typed
<1> SUFFICES ASSUME Init PROVE Typed
  OBVIOUS
<1>1. setting.max \in Nat /\ setting.asks \in Nat
  BY LifecycleAssumption DEF Init, IsSetting
<1>2. QED BY <1>1 DEF Init, Typed, Running, Stopped, Holding, Session, Over

LEMMA NextTyped == Typed /\ [Next]_vars => Typed'
<1> SUFFICES ASSUME Typed, [Next]_vars PROVE Typed'
  OBVIOUS
<1>0. setting.max \in Nat /\ setting.asks \in Nat
  BY LifecycleAssumption DEF IsSetting, Typed
<1>a. permits \in [Daemons -> Nat] /\ asked \in [Conns -> 0 .. setting.asks]
  BY DEF Typed
<1>b. ASSUME NEW d \in Daemons, permits[d] > 0 PROVE permits[d] - 1 \in Nat
  BY <1>a, <1>b
<1>c. ASSUME NEW e PROVE [permits EXCEPT ![e] = permits[e] + 1] \in [Daemons -> Nat]
  <2>1. CASE e \in Daemons
    BY <1>a, <2>1
  <2>2. CASE e \notin Daemons
    <3>1. [permits EXCEPT ![e] = permits[e] + 1] = permits
      BY <1>a, <2>2, Zenon
    <3>2. QED BY <1>a, <3>1
  <2>3. QED BY <2>1, <2>2
<1>d. ASSUME NEW c \in Conns, asked[c] < setting.asks PROVE asked[c] + 1 \in 0 .. setting.asks
  BY <1>0, <1>a, <1>d
<1> USE DEF Typed, sockets, clients, Running, Stopped, Holding, Session, Over
<1>1. ASSUME NEW d \in Daemons, RunWith(d) PROVE Typed'
  <2>1. CASE RemoveOld(d) \/ Bind(d) \/ SeeSignal(d) \/ RemoveFile(d) \/ Notify(d) \/ Drained(d)
    BY <2>1 DEF RemoveOld, Bind, SeeSignal, RemoveFile, Notify, Drained, Goto
  <2>2. CASE Accept(d)
    <3>2. permits' \in [Daemons -> Nat]
      BY <2>2, <1>b DEF Accept
    <3>3. conn' \in [Conns -> Holding \cup Over \cup {"new", "backlog", "refusing"}]
      BY <2>2 DEF Accept, Become, Of
    <3>4. QED BY <2>2, <3>2, <3>3 DEF Accept
  <2>3. CASE DropListener(d)
    BY <2>3 DEF DropListener, Goto, All
  <2>4. CASE GraceElapses(d)
    BY <2>4 DEF GraceElapses, Goto, All
  <2>5. QED BY <1>1, <2>1, <2>2, <2>3, <2>4 DEF RunWith
<1>2. ASSUME NEW d \in Daemons, AcceptFails(d) PROVE Typed'
  BY <1>2 DEF AcceptFails, Goto
<1>3. ASSUME NEW d \in Daemons, Sigterm(d) PROVE Typed'
  BY <1>3 DEF Sigterm
<1>4. ASSUME NEW d \in Daemons, Die(d) PROVE Typed'
  BY <1>0, <1>4 DEF Die, Goto, All
<1>5. ASSUME NEW c \in Conns, Task(c) PROVE Typed'
  <2>1. CASE FinishBatch(c) \/ FailBatch(c) \/ Break(c) \/ Refuse(c)
    BY <2>1 DEF FinishBatch, FailBatch, Break, Refuse, Become
  <2>2. CASE Return(c) \/ DropTask(c)
    <3>1. permits' = [permits EXCEPT ![server[c]] = permits[server[c]] + 1]
      BY <2>2 DEF Return, DropTask, ReleasePermit
    <3>2. permits' \in [Daemons -> Nat]
      BY <3>1, <1>c
    <3>3. QED BY <2>2, <3>2 DEF Return, DropTask, Become
  <2>3. QED BY <1>5, <2>1, <2>2 DEF Task
<1>6. ASSUME NEW c \in Conns, TakeBatch(c) PROVE Typed'
  <2>1. asked[c] + 1 \in 0 .. setting.asks
    BY <1>6, <1>d DEF TakeBatch
  <2>2. QED BY <1>6, <2>1 DEF TakeBatch, Become
<1>7. ASSUME NEW c \in Conns, Connect(c) PROVE Typed'
  BY <1>7 DEF Connect, Become
<1>8. ASSUME NEW c \in Conns, HangUp(c) \/ GoDeaf(c) PROVE Typed'
  BY <1>8 DEF HangUp, GoDeaf
<1>9. CASE UNCHANGED vars
  BY <1>9 DEF vars
<1>10. QED BY <1>1, <1>2, <1>3, <1>4, <1>5, <1>6, <1>7, <1>8, <1>9 DEF Next

-----------------------------------------------------------------------------
\* Permits

LEMMA InitAccounted == Init => Accounted
<1> SUFFICES ASSUME Init, NEW d \in Daemons PROVE permits[d] + Cardinality(Held(d)) = setting.max
  BY DEF Accounted
<1>1. setting.max \in Nat
  BY LifecycleAssumption DEF Init, IsSetting
<1>2. Held(d) = {}
  BY DEF Init, Held, Of, Holding, Session
<1>3. permits[d] = setting.max
  BY DEF Init
<1>4. QED BY <1>1, <1>2, <1>3, FS_EmptySet

\* Nothing changes that the sum depends on.
LEMMA SameHolders ==
    ASSUME Accounted, UNCHANGED <<permits, setting>>, \A d \in Daemons : Held(d)' = Held(d)
    PROVE  Accounted'
BY DEF Accounted

\* One connection gives its permit back.
LEMMA OneReleased ==
    ASSUME Typed, Accounted, NEW c \in Conns, conn[c] \in {"leaving", "aborting"},
           NEW l \in Over, Become(c, l), ReleasePermit(c), UNCHANGED <<setting, server>>
    PROVE  Accounted'
<1> SUFFICES ASSUME NEW d \in Daemons
             PROVE  permits'[d] + Cardinality(Held(d)') = setting.max
  BY DEF Accounted
<1>0. permits[d] \in Nat /\ setting.max \in Nat /\ permits[d] + Cardinality(Held(d)) = setting.max
  BY LifecycleAssumption DEF Typed, Accounted, IsSetting
<1>1. CASE server[c] = d
  <2>1. c \in Held(d)
    BY <1>1 DEF Held, Of, Holding
  <2>2. Held(d)' = Held(d) \ {c}
    BY <1>1 DEF Typed, Held, Of, Become, Holding, Session, Over
  <2>3. Cardinality(Held(d)') = Cardinality(Held(d)) - 1
    BY <2>1, <2>2, HeldFinite, FS_RemoveElement
  <2>4. permits'[d] = permits[d] + 1
    BY <1>1 DEF Typed, ReleasePermit
  <2>5. QED BY <1>0, <2>3, <2>4, HeldFinite
<1>2. CASE server[c] # d
  <2>1. Held(d)' = Held(d)
    BY <1>2 DEF Typed, Held, Of, Become
  <2>2. permits'[d] = permits[d]
    BY <1>2 DEF Typed, ReleasePermit
  <2>3. QED BY <1>0, <2>1, <2>2
<1>3. QED BY <1>1, <1>2

\* Accept takes a permit for the session it spawns, or none for a refusal.
LEMMA AcceptAccounts == ASSUME Typed, Accounted, NEW e \in Daemons, Accept(e) PROVE Accounted'
<1> SUFFICES ASSUME NEW d \in Daemons
             PROVE  permits'[d] + Cardinality(Held(d)') = setting.max
  BY DEF Accounted, Accept
<1>0. permits[d] \in Nat /\ setting.max \in Nat /\ permits[d] + Cardinality(Held(d)) = setting.max
  BY LifecycleAssumption DEF Typed, Accounted, IsSetting
<1> PICK c \in Of(e, {"backlog"}) :
      IF permits[e] > 0
      THEN Become(c, "serving") /\ permits' = [permits EXCEPT ![e] = @ - 1]
      ELSE Become(c, "refusing") /\ UNCHANGED permits
  BY DEF Accept
<1>1. c \in Conns /\ server[c] = e /\ conn[c] = "backlog" /\ server' = server
  BY DEF Of, Accept
<1>2. CASE permits[e] > 0 /\ d = e
  <2>1. c \notin Held(d)
    BY <1>1 DEF Held, Of, Holding, Session
  <2>2. Held(d)' = Held(d) \cup {c}
    BY <1>1, <1>2 DEF Typed, Held, Of, Become, Holding, Session
  <2>3. Cardinality(Held(d)') = Cardinality(Held(d)) + 1
    BY <2>1, <2>2, HeldFinite, FS_AddElement
  <2>4. permits'[d] = permits[d] - 1
    BY <1>2 DEF Typed
  <2>5. QED BY <1>0, <2>3, <2>4, HeldFinite
<1>3. CASE permits[e] > 0 /\ d # e
  <2>1. Held(d)' = Held(d)
    BY <1>1, <1>3 DEF Typed, Held, Of, Become
  <2>2. permits'[d] = permits[d]
    BY <1>3 DEF Typed
  <2>3. QED BY <1>0, <2>1, <2>2
<1>4. CASE ~(permits[e] > 0)
  <2>1. Held(d)' = Held(d)
    BY <1>1, <1>4 DEF Typed, Held, Of, Become, Holding, Session
  <2>2. QED BY <1>0, <1>4, <2>1
<1>5. QED BY <1>2, <1>3, <1>4

\* A daemon that dies takes its permits and their holders with it.
LEMMA DieAccounts == ASSUME Typed, Accounted, NEW e \in Daemons, Die(e) PROVE Accounted'
<1> SUFFICES ASSUME NEW d \in Daemons
             PROVE  permits'[d] + Cardinality(Held(d)') = setting.max
  BY DEF Accounted, Die
<1>0. permits[d] \in Nat /\ setting.max \in Nat /\ permits[d] + Cardinality(Held(d)) = setting.max
  BY LifecycleAssumption DEF Typed, Accounted, IsSetting
<1>1. CASE d = e
  <2>1. Held(d)' = {}
    BY <1>1 DEF Typed, Die, Held, Of, All, Holding, Session
  <2>2. permits'[d] = setting.max
    BY <1>1 DEF Typed, Die
  <2>3. QED BY <1>0, <2>1, <2>2, FS_EmptySet
<1>2. CASE d # e
  <2>1. Held(d)' = Held(d)
    BY <1>2 DEF Typed, Die, Held, Of, All
  <2>2. permits'[d] = permits[d]
    BY <1>2 DEF Typed, Die
  <2>3. QED BY <1>0, <2>1, <2>2
<1>3. QED BY <1>1, <1>2

LEMMA NextAccounted == Typed /\ Accounted /\ [Next]_vars => Accounted'
<1> SUFFICES ASSUME Typed, Accounted, [Next]_vars PROVE Accounted'
  OBVIOUS
<1>1. ASSUME NEW d \in Daemons, RunWith(d) PROVE Accounted'
  <2>1. CASE RemoveOld(d) \/ Bind(d) \/ SeeSignal(d) \/ RemoveFile(d) \/ Notify(d) \/ Drained(d)
    BY <2>1, SameHolders
    DEF RemoveOld, Bind, SeeSignal, RemoveFile, Notify, Drained, sockets, Held, Of
  <2>2. CASE Accept(d)
    BY <2>2, AcceptAccounts
  <2>3. CASE DropListener(d)
    BY <2>3, SameHolders DEF DropListener, All, Typed, Held, Of, Holding, Session
  <2>4. CASE GraceElapses(d)
    BY <2>4, SameHolders DEF GraceElapses, All, Typed, Held, Of, Holding, Session
  <2>5. QED BY <1>1, <2>1, <2>2, <2>3, <2>4 DEF RunWith
<1>2. ASSUME NEW d \in Daemons, AcceptFails(d) PROVE Accounted'
  BY <1>2, SameHolders DEF AcceptFails, Typed, Held, Of, Holding, Session
<1>3. ASSUME NEW d \in Daemons, Sigterm(d) PROVE Accounted'
  BY <1>3, SameHolders DEF Sigterm, sockets, Held, Of
<1>4. ASSUME NEW d \in Daemons, Die(d) PROVE Accounted'
  BY <1>4, DieAccounts
<1>5. ASSUME NEW c \in Conns, Task(c) PROVE Accounted'
  <2>1. CASE FinishBatch(c) \/ FailBatch(c) \/ Break(c) \/ Refuse(c)
    BY <2>1, SameHolders
    DEF FinishBatch, FailBatch, Break, Refuse, Become, Typed, Held, Of, Holding, Session
  <2>2. CASE Return(c) \/ DropTask(c)
    BY <2>2, OneReleased DEF Return, DropTask, Over
  <2>3. QED BY <1>5, <2>1, <2>2 DEF Task
<1>6. ASSUME NEW c \in Conns, TakeBatch(c) PROVE Accounted'
  BY <1>6, SameHolders DEF TakeBatch, Become, Typed, Held, Of, Holding, Session
<1>7. ASSUME NEW c \in Conns, Connect(c) PROVE Accounted'
  BY <1>7, SameHolders DEF Connect, Become, Typed, Held, Of, Holding, Session
<1>8. ASSUME NEW c \in Conns, HangUp(c) \/ GoDeaf(c) PROVE Accounted'
  BY <1>8, SameHolders DEF HangUp, GoDeaf, sockets, Held, Of
<1>9. CASE UNCHANGED vars
  BY <1>9, SameHolders DEF vars, sockets, Held, Of
<1>10. QED BY <1>1, <1>2, <1>3, <1>4, <1>5, <1>6, <1>7, <1>8, <1>9 DEF Next

LEMMA PermitsBounded == Typed /\ Accounted => PermitsAccounted
<1> SUFFICES ASSUME Typed, Accounted PROVE PermitsAccounted
  OBVIOUS
<1>1. ASSUME NEW d \in Daemons PROVE permits[d] \in 0 .. setting.max
  <2>1. permits[d] \in Nat /\ setting.max \in Nat /\ permits[d] + Cardinality(Held(d)) = setting.max
    BY LifecycleAssumption DEF Typed, Accounted, IsSetting
  <2>2. QED BY <2>1, HeldFinite
<1>2. permits \in [Daemons -> 0 .. setting.max]
  BY <1>1 DEF Typed
<1>3. QED BY <1>2 DEF Typed, Accounted, PermitsAccounted, TypeOK, Held

\* run_with, handle_conn: for any number of daemons, connections and permits, and
\* however sessions end, a permit is free or held by one connection that is not over.
THEOREM PermitsNeverLost == Spec => []PermitsAccounted
<1>1. Init => Typed /\ Accounted
  BY InitTyped, InitAccounted
<1>2. Typed /\ Accounted /\ [Next]_vars => (Typed /\ Accounted)'
  BY NextTyped, NextAccounted
<1>3. QED BY <1>1, <1>2, PermitsBounded, PTL DEF Spec

-----------------------------------------------------------------------------
\* The path

\* A daemon in one of these states has not overlapped with another that runs.
LEMMA RunsAlone ==
    ASSUME PathInv, NEW d \in Daemons, NEW e \in Daemons \ overlapped, d # e, pc[d] \in Running
    PROVE  pc[e] \notin Running
BY DEF PathInv

LEMMA NextPathInv == Typed /\ PathInv /\ [Next]_vars => PathInv'
<1> SUFFICES ASSUME Typed, PathInv, [Next]_vars PROVE PathInv'
  OBVIOUS
<1>1. ASSUME NEW d \in Daemons, RemoveOld(d) PROVE PathInv'
  <2>1. /\ pc' = [pc EXCEPT ![d] = "binding"] /\ path' = NoFile /\ overlapped \subseteq overlapped'
        /\ \A e \in Daemons \ {d} : pc[e] \in Running => e \in overlapped' /\ d \in overlapped'
    BY <1>1 DEF RemoveOld, Goto
  <2>2. ASSUME NEW e \in Daemons, NEW f \in Daemons, e # f, pc'[e] \in Running, pc'[f] \in Running
        PROVE  e \in overlapped'
    BY <2>1, <2>2 DEF Typed, PathInv
  <2>3. ASSUME NEW e \in Daemons \ overlapped'
        PROVE  (pc'[e] = "binding" => path' = NoFile) /\ pc'[e] # "accepting" /\ pc'[e] # "cannot bind"
    BY <2>1 DEF Typed, PathInv, Running
  <2>4. QED BY <2>2, <2>3 DEF PathInv
<1>2. ASSUME NEW d \in Daemons, Bind(d) PROVE PathInv'
  <2>1. /\ pc[d] = "binding" /\ overlapped' = overlapped
        /\ \/ path = NoFile /\ pc' = [pc EXCEPT ![d] = "accepting"] /\ path' = d
           \/ path # NoFile /\ pc' = [pc EXCEPT ![d] = "cannot bind"] /\ path' = path
    BY <1>2 DEF Bind, Goto
  <2>2. ASSUME NEW e \in Daemons \ overlapped, e # d PROVE pc[e] \notin Running
    BY <2>1, <2>2, RunsAlone DEF Running
  <2>3. d \in overlapped \/ path = NoFile
    BY <2>1 DEF PathInv
  <2>4. QED BY <2>1, <2>2, <2>3 DEF Typed, PathInv, Running
<1>3. ASSUME NEW d \in Daemons, RemoveFile(d) PROVE PathInv'
  <2>1. /\ pc[d] = "unlinking" /\ overlapped' = overlapped
        /\ pc' = [pc EXCEPT ![d] = "notifying"] /\ path' = NoFile
    BY <1>3 DEF RemoveFile, Goto
  <2>2. ASSUME NEW e \in Daemons \ overlapped, e # d PROVE pc[e] \notin Running
    BY <2>1, <2>2, RunsAlone DEF Running
  <2>3. QED BY <2>1, <2>2 DEF Typed, PathInv, Running
<1>4. ASSUME NEW d \in Daemons, NEW l \in {"closing", "unlinking", "draining", "returned", "failed", "dead"},
             pc[d] \in Running \/ l \notin Running,
             pc' = [pc EXCEPT ![d] = l], UNCHANGED <<path, overlapped>>
      PROVE  PathInv'
  BY <1>4 DEF Typed, PathInv, Running
<1>5. ASSUME UNCHANGED <<path, overlapped, pc>> PROVE PathInv'
  BY <1>5 DEF PathInv
<1>6. ASSUME NEW d \in Daemons, RunWith(d) PROVE PathInv'
  <2>1. CASE SeeSignal(d) \/ DropListener(d) \/ Notify(d) \/ Drained(d) \/ GraceElapses(d)
    BY <2>1, <1>4 DEF SeeSignal, DropListener, Notify, Drained, GraceElapses, Goto, Running
  <2>2. CASE Accept(d)
    BY <2>2, <1>5 DEF Accept
  <2>3. QED BY <1>1, <1>2, <1>3, <1>6, <2>1, <2>2 DEF RunWith
<1>7. ASSUME NEW d \in Daemons, AcceptFails(d) \/ Die(d) PROVE PathInv'
  BY <1>4, <1>7 DEF AcceptFails, Die, Goto, Running
<1>8. ASSUME NEW d \in Daemons, Sigterm(d) PROVE PathInv'
  BY <1>5, <1>8 DEF Sigterm
<1>9. ASSUME NEW c \in Conns, Task(c) PROVE PathInv'
  BY <1>5, <1>9 DEF Task, FinishBatch, FailBatch, Break, Return, DropTask, Refuse
<1>10. ASSUME NEW c \in Conns, TakeBatch(c) \/ Connect(c) \/ HangUp(c) \/ GoDeaf(c) PROVE PathInv'
  BY <1>5, <1>10 DEF TakeBatch, Connect, HangUp, GoDeaf
<1>11. CASE UNCHANGED vars
  BY <1>5, <1>11 DEF vars
<1>12. QED BY <1>6, <1>7, <1>8, <1>9, <1>10, <1>11 DEF Next

\* run_with removes an old file before it binds: for any number of daemons, killed or
\* failed at any time, one that runs alone binds and is found at the path.
THEOREM RestartAlwaysWorks == Spec => []RestartTakesOver
<1>1. Init => PathInv
  BY DEF Init, PathInv, Running
<1>2. PathInv => RestartTakesOver
  BY DEF PathInv, RestartTakesOver
<1>3. QED BY <1>1, <1>2, InitTyped, NextTyped, NextPathInv, PTL DEF Spec

-----------------------------------------------------------------------------
(***************************************************************************)
(* The handshake.  What is true of it at every step, HandshakeInv, says    *)
(* where each of the requests, descriptors and answers may be for each     *)
(* place the client has got to; what the two ends agree on while nothing   *)
(* is pushed; and what a client for which nothing breaks can rely on.      *)
(***************************************************************************)

FdBytes == {"down_fd", "up_fd", "decline"}
Results == {"setup_ok", "setup_failed"}
Elements == FdBytes \cup Results \cup {"auth_ok", "error", "init_result", "list_changed"}
Requests == {"auth", "shm_setup", "initialize"}

Handlers == {"wait", "down_fd", "up_fd", "decline", "setup_ok", "setup_failed", "ended"}
Clients == {"start", "authenticated", "connected", "failed"} \cup Reading \cup Receiving
HandshakeTyped ==
    /\ handler \in Handlers /\ client \in Clients
    /\ fds \subseteq {"down_fd", "up_fd"} /\ serverRings \in {{}, Both} /\ clientRings \in {{}, Both}
    /\ pushes \in 0 .. MaxPushes /\ mishaps \subseteq Faults
    /\ authenticated \in {"yes", "no"}
    /\ toServer \in Seq(Requests) /\ toClient \in Seq(Elements) /\ buf \in Seq(Elements)

\* Bytes of descriptors in a stream; none comes twice.
Fd(q) == Range(q) \cap FdBytes
Once(q) == \A i, j \in DOMAIN q : q[i] \in FdBytes /\ q[i] = q[j] => i = j

\* One request at a time, each for a place of connect_inner.
BeforeSetup == {"start", "await_auth", "authenticated"}
AfterSetup == {"await_result", "await_init", "connected"}
OneRequest ==
    /\ client \in BeforeSetup => Range(toServer) \subseteq {"auth"}
    /\ client \in Receiving => Range(toServer) \subseteq {"shm_setup"}
    /\ client \in AfterSetup => Range(toServer) \subseteq {"initialize"}
    /\ client \in {"start", "authenticated", "receive_up", "await_result"} => toServer = << >>
    /\ client # "failed" => Len(toServer) <= 1
    /\ client = "start" => buf = << >> /\ "auth_ok" \notin Range(toClient)
    /\ client = "await_auth" /\ "auth_ok" \in Range(toClient) \cup Range(buf) => toServer = << >>

\* Where descriptors may be.
Quiet == {"wait", "ended"}
Busy == {"down_fd", "up_fd", "decline", "setup_ok", "setup_failed"}
FdInv ==
    /\ Fd(buf) = {}
    /\ client \in BeforeSetup => handler \in Quiet /\ Fd(toClient) = {}
    /\ client = "receive_down" =>
          /\ Once(toClient)
          /\ "decline" \in Fd(toClient) => Fd(toClient) = {"decline"}
          /\ toServer # << >> => handler \in Quiet /\ Fd(toClient) = {}
          /\ handler \in {"down_fd", "decline"} => Fd(toClient) = {}
          /\ handler = "up_fd" => Fd(toClient) \subseteq {"down_fd"}
    /\ client = "receive_up" =>
          /\ Once(toClient) /\ Fd(toClient) \subseteq {"up_fd"}
          /\ handler \notin {"down_fd", "decline"}
          /\ handler = "up_fd" => Fd(toClient) = {}
          /\ fds # {}
    /\ client \in AfterSetup =>
          handler \notin {"down_fd", "up_fd", "decline"} /\ Fd(toClient) = {}

\* Without a notification: what the client was told is what the session does.
ToldRings == /\ "setup_ok" \in Range(toClient) \cup Range(buf) => serverRings = Both
             /\ "setup_failed" \in Range(toClient) \cup Range(buf) => serverRings = {}
Agreeing ==
    /\ client \in BeforeSetup => serverRings = {} /\ clientRings = {}
    /\ client \in {"start", "authenticated"} => toClient = << >> /\ buf = << >>
    /\ client = "await_auth" => Len(toServer) + Len(toClient) + Len(buf) <= 1
    /\ client \in Receiving =>
          /\ buf = << >> /\ ToldRings
          /\ toServer # << >> => toClient = << >> /\ serverRings = {}
          /\ handler \in Busy => serverRings = {} /\ Range(toClient) \subseteq FdBytes
          /\ Range(toClient) \subseteq FdBytes \cup Results \/ Range(toClient) \subseteq {"error"}
          /\ "decline" \in Range(toClient) => handler # "setup_ok" /\ "setup_ok" \notin Range(toClient)
    /\ client = "await_result" =>
          /\ Range(toClient) \cup Range(buf) \subseteq Results /\ ToldRings
          /\ handler \in Results => toClient = << >> /\ buf = << >>
          /\ handler = "setup_ok" \/ "setup_ok" \in Range(toClient) \cup Range(buf) => fds # {}
    /\ client \in {"await_init", "connected"} => clientRings = serverRings /\ handler \in Quiet

\* Undisturbed, who is entitled is on the way to a connection.
Undisturbed ==
    /\ Entitled
    /\ \/ pushes = 0 /\ mishaps \subseteq {"memfd"}
       \/ config.shm # "yes" /\ mishaps = {}
Coming ==
    /\ client # "failed" /\ handler # "ended"
    /\ "error" \notin Range(toClient) \cup Range(buf)
    /\ client = "start" =>
          IF config.token = "none" THEN authenticated = "yes" ELSE authenticated = "no" /\ toClient = << >>
    /\ client = "await_auth" =>
          /\ config.token # "none"
          /\ authenticated = "no" => toClient = << >> /\ buf = << >>
          /\ authenticated = "yes" => toServer = << >> /\ (toClient # << >> \/ buf # << >>)
          /\ buf # << >> => Head(buf) = "auth_ok"
          /\ buf = << >> /\ toClient # << >> => Head(toClient) = "auth_ok"
    /\ client \notin {"start", "await_auth"} => authenticated = "yes"
    /\ client = "receive_down" =>
          /\ toClient # << >> => Head(toClient) \in {"down_fd", "decline"}
          /\ Len(toClient) > 1 /\ Head(toClient) = "down_fd" => toClient[2] = "up_fd"
          /\ handler \in {"down_fd", "decline"} => toClient = << >>
          /\ handler = "up_fd" => Len(toClient) = 1 /\ Head(toClient) = "down_fd"
          /\ handler = "setup_ok" => Len(toClient) = 2
          /\ handler = "setup_failed" => Len(toClient) = 1 /\ Head(toClient) = "decline"
    /\ client = "receive_up" =>
          /\ toClient # << >> => Head(toClient) = "up_fd"
          /\ handler = "up_fd" => toClient = << >>
          /\ handler = "setup_ok" => Len(toClient) = 1
          /\ handler # "setup_failed"

HandshakeInv ==
    /\ HandshakeTyped /\ OneRequest /\ FdInv
    /\ client \in Receiving \cup {"await_result"} => config.shm = "yes"
    /\ pushes = 0 => Agreeing
    /\ Undisturbed => Coming

-----------------------------------------------------------------------------
\* Streams

\* What appending, taking the head and cutting do to what is in a stream, to its length
\* and to its descriptors.
LEMMA Appended ==
    ASSUME NEW S, NEW q \in Seq(S), NEW e \in S
    PROVE  /\ Append(q, e) \in Seq(S) /\ Append(q, e) # << >>
           /\ Len(q) \in Nat /\ Len(Append(q, e)) = Len(q) + 1
           /\ Range(Append(q, e)) = Range(q) \cup {e}
           /\ Head(Append(q, e)) = (IF q = << >> THEN e ELSE Head(q))
           /\ Append(q, e)[Len(q) + 1] = e
           /\ \A i \in 1 .. Len(q) : Append(q, e)[i] = q[i]
           /\ Once(q) /\ (e \in FdBytes => e \notin Range(q)) => Once(Append(q, e))
<1>1. /\ Append(q, e) \in Seq(S) /\ Append(q, e) # << >>
      /\ Len(Append(q, e)) = Len(q) + 1 /\ Len(q) \in Nat
      /\ \A i \in 1 .. Len(q) : Append(q, e)[i] = q[i]
      /\ Append(q, e)[Len(q) + 1] = e
  BY AppendProperties, LenProperties
<1>2. DOMAIN q = 1 .. Len(q) /\ DOMAIN Append(q, e) = 1 .. Len(q) + 1
  BY <1>1, LenProperties
<1>3. /\ \A i \in 1 .. Len(q) : i \in 1 .. Len(q) + 1
      /\ \A i \in 1 .. Len(q) + 1 : i \in 1 .. Len(q) \/ i = Len(q) + 1
      /\ Len(q) + 1 \in 1 .. Len(q) + 1 /\ Len(q) + 1 \notin 1 .. Len(q)
  BY <1>1
<1>4. Range(Append(q, e)) = Range(q) \cup {e}
  BY <1>1, <1>2, <1>3 DEF Range
<1>5. Head(Append(q, e)) = (IF q = << >> THEN e ELSE Head(q))
  <2>1. Head(Append(q, e)) = Append(q, e)[1] /\ (q # << >> => Head(q) = q[1])
    BY <1>1
  <2>2. CASE q = << >>
    <3>1. Len(q) = 0
      BY <2>2
    <3>2. QED BY <1>1, <2>1, <2>2, <3>1
  <2>3. CASE q # << >>
    <3>1. 1 \in 1 .. Len(q)
      BY <1>1, <2>3, EmptySeq
    <3>2. QED BY <1>1, <2>1, <2>3, <3>1
  <2>4. QED BY <2>2, <2>3
<1>6. Once(q) /\ (e \in FdBytes => e \notin Range(q)) => Once(Append(q, e))
  <2>1. SUFFICES ASSUME Once(q), e \in FdBytes => e \notin Range(q),
                        NEW i \in DOMAIN Append(q, e), NEW j \in DOMAIN Append(q, e),
                        Append(q, e)[i] \in FdBytes, Append(q, e)[i] = Append(q, e)[j]
                 PROVE  i = j
    BY DEF Once
  <2>2. \A k \in 1 .. Len(q) : q[k] \in Range(q)
    BY <1>2 DEF Range
  <2>3. QED BY <1>1, <1>2, <1>3, <2>1, <2>2 DEF Once
<1>7. QED BY <1>1, <1>4, <1>5, <1>6

LEMMA Shortened ==
    ASSUME NEW S, NEW q \in Seq(S), q # << >>
    PROVE  /\ Tail(q) \in Seq(S) /\ Head(q) \in S
           /\ Len(q) \in Nat \ {0} /\ Len(Tail(q)) = Len(q) - 1
           /\ Range(q) = {Head(q)} \cup Range(Tail(q))
           /\ Tail(q) # << >> => Len(q) > 1 /\ Head(Tail(q)) = q[2]
           /\ Once(q) => Once(Tail(q)) /\ (Head(q) \in FdBytes => Head(q) \notin Range(Tail(q)))
<1>1. /\ Tail(q) \in Seq(S) /\ Len(Tail(q)) = Len(q) - 1 /\ Len(q) \in Nat \ {0} /\ Head(q) \in S
      /\ \A i \in 1 .. Len(q) - 1 : Tail(q)[i] = q[i + 1]
  BY HeadTailProperties, EmptySeq, LenProperties
<1>2. DOMAIN q = 1 .. Len(q) /\ DOMAIN Tail(q) = 1 .. Len(q) - 1
  BY <1>1, LenProperties
<1>3. Head(q) = q[1]
  OBVIOUS
<1>4. /\ \A i \in 1 .. Len(q) - 1 : i + 1 \in 1 .. Len(q) /\ i + 1 # 1
      /\ \A i \in 1 .. Len(q) : i = 1 \/ (i - 1 \in 1 .. Len(q) - 1 /\ (i - 1) + 1 = i)
      /\ \A i, j \in 1 .. Len(q) - 1 : i + 1 = j + 1 => i = j
      /\ 1 \in 1 .. Len(q)
  BY <1>1
<1>5. Range(q) = {Head(q)} \cup Range(Tail(q))
  <2>1. \A i \in 1 .. Len(q) : i = 1 \/ \E j \in 1 .. Len(q) - 1 : q[i] = Tail(q)[j]
    BY <1>1, <1>4
  <2>2. \A j \in 1 .. Len(q) - 1 : \E i \in 1 .. Len(q) : q[i] = Tail(q)[j]
    BY <1>1, <1>4
  <2>3. Range(q) \subseteq {Head(q)} \cup Range(Tail(q))
    <3>1. SUFFICES ASSUME NEW i \in 1 .. Len(q) PROVE q[i] \in {Head(q)} \cup Range(Tail(q))
      BY <1>2 DEF Range
    <3>2. CASE i = 1
      BY <1>3, <3>2
    <3>3. CASE i # 1
      <4>1. PICK j \in 1 .. Len(q) - 1 : q[i] = Tail(q)[j]
        BY <2>1, <3>3
      <4>2. QED BY <1>2, <4>1 DEF Range
    <3>4. QED BY <3>2, <3>3
  <2>4. Head(q) \in Range(q) /\ Range(Tail(q)) \subseteq Range(q)
    BY <1>2, <1>3, <1>4, <2>2 DEF Range
  <2>5. QED BY <2>3, <2>4
<1>6. ASSUME Tail(q) # << >> PROVE Len(q) > 1 /\ Head(Tail(q)) = q[2]
  <2>1. Len(Tail(q)) \in Nat \ {0} /\ Head(Tail(q)) = Tail(q)[1]
    BY <1>1, <1>6, EmptySeq
  <2>2. QED BY <1>1, <2>1
<1>7. ASSUME Once(q)
      PROVE  Once(Tail(q)) /\ (Head(q) \in FdBytes => Head(q) \notin Range(Tail(q)))
  <2>1. Once(Tail(q))
    BY <1>1, <1>2, <1>4, <1>7 DEF Once
  <2>2. ASSUME Head(q) \in FdBytes, Head(q) \in Range(Tail(q)) PROVE FALSE
    <3>1. PICK j \in 1 .. Len(q) - 1 : Tail(q)[j] = q[1]
      BY <1>2, <1>3, <2>2 DEF Range
    <3>2. q[j + 1] = q[1] /\ j + 1 \in DOMAIN q /\ 1 \in DOMAIN q /\ j + 1 # 1
      BY <1>1, <1>2, <1>4, <3>1
    <3>3. QED BY <1>3, <1>7, <2>2, <3>2 DEF Once
  <2>3. QED BY <2>1, <2>2
<1>8. QED BY <1>1, <1>5, <1>6, <1>7

LEMMA Divided ==
    ASSUME NEW S, NEW q \in Seq(S), NEW n \in 1 .. Len(q)
    PROVE  /\ SubSeq(q, 1, n) \in Seq(S) /\ SubSeq(q, n + 1, Len(q)) \in Seq(S)
           /\ Len(SubSeq(q, 1, n)) + Len(SubSeq(q, n + 1, Len(q))) = Len(q)
           /\ SubSeq(q, 1, n) # << >> /\ Head(SubSeq(q, 1, n)) = Head(q)
           /\ Range(q) = Range(SubSeq(q, 1, n)) \cup Range(SubSeq(q, n + 1, Len(q)))
<1>1. /\ Len(q) \in Nat /\ n \in Nat /\ n >= 1 /\ n <= Len(q)
      /\ DOMAIN q = 1 .. Len(q) /\ \A i \in 1 .. Len(q) : q[i] \in S
  BY LenProperties, ElementOfSeq
<1>2. /\ SubSeq(q, 1, n) = [i \in 1 .. n |-> q[i]]
      /\ SubSeq(q, n + 1, Len(q)) = [i \in 1 .. Len(q) - n |-> q[n + i]]
  <2>1. SubSeq(q, 1, n) = [i \in 1 .. n |-> q[i]]
    BY <1>1, SubSeqProperties
  <2>2. SubSeq(q, n + 1, Len(q)) = [i \in 1 .. Len(q) - n |-> q[n + i]]
    BY <1>1, SubSeqProperties
  <2>3. QED BY <2>1, <2>2
<1> DEFINE a == SubSeq(q, 1, n)
           b == SubSeq(q, n + 1, Len(q))
<1>4. /\ DOMAIN a = 1 .. n /\ \A i \in 1 .. n : a[i] = q[i]
      /\ DOMAIN b = 1 .. Len(q) - n /\ \A i \in 1 .. Len(q) - n : b[i] = q[n + i]
  BY <1>2
<1>5. /\ a \in Seq(S) /\ b \in Seq(S) /\ Len(a) = n /\ Len(b) = Len(q) - n
  <2>1. \A i \in 1 .. n : q[i] \in S
    BY <1>1
  <2>2. \A i \in n + 1 .. Len(q) : q[i] \in S
    BY <1>1
  <2>3. a \in Seq(S) /\ Len(a) = (IF 1 <= n THEN n - 1 + 1 ELSE 0)
    BY <1>1, <2>1, SubSeqProperties
  <2>4. b \in Seq(S) /\ Len(b) = (IF n + 1 <= Len(q) THEN Len(q) - (n + 1) + 1 ELSE 0)
    BY <1>1, <2>2, SubSeqProperties
  <2> HIDE DEF a, b
  <2>5. Len(a) = n
    <3>1. 1 <= n /\ n - 1 + 1 = n
      BY <1>1
    <3>2. QED BY <2>3, <3>1
  <2>6. Len(b) = Len(q) - n
    <3>1. CASE n + 1 <= Len(q)
      <4>1. Len(q) - (n + 1) + 1 = Len(q) - n
        BY <1>1
      <4>2. QED BY <2>4, <3>1, <4>1
    <3>2. CASE ~ (n + 1 <= Len(q))
      <4>1. Len(q) - n = 0
        <5>1. Len(q) \in Nat /\ n \in Nat /\ n <= Len(q)
          BY <1>1
        <5>2. n = Len(q)
          BY <3>2, <5>1
        <5>3. QED BY <5>1, <5>2
      <4>2. QED BY <2>4, <3>2, <4>1
    <3>3. QED BY <3>1, <3>2
  <2>7. QED BY <2>3, <2>4, <2>5, <2>6
<1> HIDE DEF a, b
<1>6. a # << >> /\ Head(a) = Head(q)
  <2>1. 1 \in 1 .. n /\ Len(a) # 0
    BY <1>1, <1>5
  <2>2. Head(a) = a[1] /\ Head(q) = q[1]
    BY <1>5, <2>1
  <2>3. QED BY <1>4, <2>1, <2>2
<1>7. Range(q) = Range(a) \cup Range(b)
  <2>1. \A i \in 1 .. Len(q) : i \in 1 .. n \/ (i - n \in 1 .. Len(q) - n /\ n + (i - n) = i)
    BY <1>1
  <2>2. /\ \A i \in 1 .. n : i \in 1 .. Len(q)
        /\ \A i \in 1 .. Len(q) - n : n + i \in 1 .. Len(q)
    BY <1>1
  <2>3. \A i \in 1 .. Len(q) : q[i] \in Range(a) \cup Range(b)
    <3>1. SUFFICES ASSUME NEW i \in 1 .. Len(q) PROVE q[i] \in Range(a) \cup Range(b)
      OBVIOUS
    <3>2. CASE i \in 1 .. n
      BY <1>4, <3>2 DEF Range
    <3>3. CASE i - n \in 1 .. Len(q) - n /\ n + (i - n) = i
      <4>1. b[i - n] = q[i] /\ i - n \in DOMAIN b
        BY <1>4, <3>3
      <4>2. QED BY <4>1 DEF Range
    <3>4. QED BY <2>1, <3>2, <3>3
  <2>4. Range(a) \subseteq Range(q)
    BY <1>1, <1>4, <2>2 DEF Range
  <2>5. Range(b) \subseteq Range(q)
    BY <1>1, <1>4, <2>2 DEF Range
  <2>6. Range(q) \subseteq Range(a) \cup Range(b)
    BY <1>1, <2>3 DEF Range
  <2>7. QED BY <2>4, <2>5, <2>6
<1>8. Len(a) + Len(b) = Len(q)
  BY <1>1, <1>5
<1>9. QED BY <1>5, <1>6, <1>7, <1>8 DEF a, b

\* The three streams' types, for the provers.
LEMMA Streams ==
    ASSUME HandshakeTyped
    PROVE  /\ toServer \in Seq(Requests) /\ toClient \in Seq(Elements) /\ buf \in Seq(Elements)
           /\ Len(toServer) \in Nat /\ Len(toClient) \in Nat /\ Len(buf) \in Nat
           /\ Range(toServer) \subseteq Requests
           /\ Range(toClient) \subseteq Elements /\ Range(buf) \subseteq Elements
           /\ \A S : \A q \in Seq(S) : Len(q) = 0 <=> q = << >>
           /\ Range(<< >>) = {} /\ Len(<< >>) = 0
<1>1. toServer \in Seq(Requests) /\ toClient \in Seq(Elements) /\ buf \in Seq(Elements)
  BY DEF HandshakeTyped
<1>2. \A S : \A q \in Seq(S) : Len(q) \in Nat /\ Range(q) \subseteq S /\ (Len(q) = 0 <=> q = << >>)
  BY EmptySeq, LenProperties, RangeOfSeq
<1>3. Range(<< >>) = {} /\ Len(<< >>) = 0
  BY DEF Range
<1>4. QED BY <1>1, <1>2, <1>3

LEMMA NoLength == \A q : q = << >> => Len(q) = 0
  OBVIOUS

\* Every place the client may have got to is of one of four kinds.
LEMMA ClientKinds ==
    ASSUME HandshakeTyped
    PROVE  \/ client \in BeforeSetup \/ client \in Receiving \/ client \in AfterSetup
           \/ client = "failed"
  BY DEF HandshakeTyped, Clients, BeforeSetup, Receiving, Reading, AfterSetup

\* The session takes a request.
LEMMA Taken ==
    ASSUME HandshakeTyped, OneRequest, NEW f, Take(f)
    PROVE  /\ toServer # << >> /\ toServer' \in Seq(Requests)
           /\ f \in Range(toServer) /\ Range(toServer') \subseteq Range(toServer)
           /\ client # "failed" => toServer' = << >>
           /\ f = "auth" => client \in {"await_auth", "failed"}
           /\ f = "shm_setup" => client \in {"receive_down", "failed"}
           /\ f = "initialize" => client \in {"await_init", "connected", "failed"}
<1>1. /\ toServer # << >> /\ Head(toServer) = f /\ toServer' = Tail(toServer)
      /\ toServer \in Seq(Requests)
  BY Streams DEF Take
<1>2. /\ toServer' \in Seq(Requests) /\ Len(toServer') = Len(toServer) - 1 /\ Len(toServer) \in Nat \ {0}
      /\ Range(toServer) = {f} \cup Range(toServer')
  BY <1>1, Shortened
<1>3. ASSUME client # "failed" PROVE toServer' = << >>
  <2>1. Len(toServer') = 0
    BY <1>2, <1>3 DEF OneRequest
  <2>2. QED BY <1>2, <2>1, Streams
<1>4. /\ f = "auth" => client \in {"await_auth", "failed"}
      /\ f = "shm_setup" => client \in {"receive_down", "failed"}
      /\ f = "initialize" => client \in {"await_init", "connected", "failed"}
  BY <1>1, <1>2, ClientKinds DEF OneRequest, BeforeSetup, Receiving, AfterSetup
<1>5. QED BY <1>1, <1>2, <1>3, <1>4

\* The session writes an element.
LEMMA Written ==
    ASSUME HandshakeTyped, NEW e \in Elements, Write(e)
    PROVE  /\ toClient' \in Seq(Elements) /\ toClient' # << >>
           /\ Len(toClient) \in Nat /\ Len(toClient') = Len(toClient) + 1
           /\ Range(toClient') = Range(toClient) \cup {e}
           /\ Head(toClient') = (IF toClient = << >> THEN e ELSE Head(toClient))
           /\ toClient'[Len(toClient) + 1] = e
           /\ \A i \in 1 .. Len(toClient) : toClient'[i] = toClient[i]
           /\ Once(toClient) /\ (e \in FdBytes => e \notin Range(toClient)) => Once(toClient')
<1>1. toClient \in Seq(Elements) /\ toClient' = Append(toClient, e)
  BY Streams DEF Write
<1>2. QED BY <1>1, Appended

\* What is undisturbed now was so before.
LEMMA Calmer ==
    ASSUME HandshakeTyped, config' = config, pushes' = pushes \/ pushes' = pushes + 1,
           mishaps \subseteq mishaps', Undisturbed'
    PROVE  Undisturbed /\ (pushes' = 0 => pushes = 0)
<1>1. pushes \in Nat
  BY DEF HandshakeTyped
<1>2. pushes' = 0 => pushes = 0
  BY <1>1
<1>3. QED BY <1>2 DEF Undisturbed, Entitled

\* Nothing is asked of a client that has failed.
LEMMA ClientFailed ==
    ASSUME HandshakeTyped', client' = "failed", Fd(buf)' = {}, ~ Undisturbed'
    PROVE  HandshakeInv'
<1>1. client' \notin BeforeSetup /\ client' \notin Receiving /\ client' \notin AfterSetup
  BY DEF BeforeSetup, Receiving, AfterSetup
<1>2. client' \notin {"start", "authenticated", "receive_up", "await_result"}
      /\ client' \notin Receiving \cup {"await_result"}
      /\ client' \notin {"start", "authenticated"} /\ client' \notin {"await_init", "connected"}
  BY <1>1
<1>3. OneRequest' /\ FdInv' /\ Agreeing'
  BY <1>1, <1>2 DEF OneRequest, FdInv, Agreeing
<1>4. QED BY <1>2, <1>3 DEF HandshakeInv

LEMMA InitHandshake ==
    ASSUME HandshakeInit
    PROVE  HandshakeInv
<1>1. /\ handler = "wait" /\ serverRings = {} /\ client = "start" /\ fds = {} /\ clientRings = {}
      /\ toServer = << >> /\ toClient = << >> /\ buf = << >> /\ pushes = 0 /\ mishaps = {}
      /\ authenticated = (IF config.serverToken = "set" THEN "no" ELSE "yes")
  BY DEF HandshakeInit
<1>2. Range(<< >>) = {} /\ Len(<< >>) = 0
  BY DEF Range
<1>3. \A S : << >> \in Seq(S)
  OBVIOUS
<1>4. HandshakeTyped
  BY <1>1, <1>3, HandshakeAssumption DEF HandshakeTyped, Handlers, Clients
<1>5. OneRequest
  BY <1>1, <1>2 DEF OneRequest, Receiving, AfterSetup
<1>6. FdInv
  BY <1>1, <1>2 DEF FdInv, Fd, Quiet, AfterSetup
<1>7. Agreeing
  BY <1>1, <1>2 DEF Agreeing, Receiving
<1>8. Undisturbed => Coming
  BY <1>1, <1>2 DEF Undisturbed, Entitled, Coming
<1>9. QED BY <1>1, <1>4, <1>5, <1>6, <1>7, <1>8 DEF HandshakeInv, Receiving

-----------------------------------------------------------------------------
\* The session's steps

LEMMA HandleAuthStep ==
    ASSUME HandshakeInv, HandleAuth
    PROVE  HandshakeInv'
<1>1. /\ HandshakeTyped /\ OneRequest /\ FdInv
      /\ Take("auth") /\ handler = "wait"
      /\ UNCHANGED <<config, serverRings, caller, pushes, mishaps>>
  BY DEF HandshakeInv, HandleAuth
<1>2. UNCHANGED <<config, serverRings, client, fds, clientRings, buf, pushes, mishaps>>
  BY <1>1 DEF caller
<1>3. /\ toServer # << >> /\ toServer' \in Seq(Requests)
      /\ client # "failed" => toServer' = << >>
      /\ client \in {"await_auth", "failed"}
      /\ Range(toServer') \subseteq Range(toServer)
  BY <1>1, Taken
<1>4. \/ /\ config.serverToken = "set" /\ config.token = "right"
         /\ authenticated' = "yes" /\ Write("auth_ok") /\ handler' = handler
      \/ /\ ~ (config.serverToken = "set" /\ config.token = "right")
         /\ handler' = "ended" /\ authenticated' = authenticated /\ toClient' = toClient
  BY DEF HandleAuth
<1>5. "auth_ok" \in Elements /\ "auth_ok" \notin FdBytes
  BY DEF Elements, FdBytes, Results
<1>6. HandshakeTyped'
  <2>1. toClient' \in Seq(Elements)
    BY <1>1, <1>4, <1>5, Written DEF HandshakeTyped
  <2>2. QED BY <1>1, <1>2, <1>3, <1>4, <2>1 DEF HandshakeTyped, Handlers
<1>7. CASE client = "failed"
  BY <1>1, <1>2, <1>6, <1>7, ClientFailed, Calmer DEF HandshakeInv, FdInv, Coming
<1>8. CASE client = "await_auth"
  <2>1. toServer' = << >> /\ Len(toServer) = 1 /\ Len(toServer') = 0 /\ Range(toServer') = {}
    <3>1. toServer' = << >>
      BY <1>3, <1>8
    <3>2. Len(toServer') = 0 /\ Range(toServer') = {}
      BY <1>1, <3>1, Streams
    <3>3. Len(toServer) \in Nat /\ Len(toServer) # 0
      BY <1>1, <1>3, Streams
    <3>4. Len(toServer) <= 1
      BY <1>1, <1>8 DEF OneRequest
    <3>5. \A n \in Nat : n # 0 /\ n <= 1 => n = 1
      OBVIOUS
    <3>6. Len(toServer) = 1
      BY <3>3, <3>4, <3>5
    <3>7. QED BY <3>1, <3>2, <3>6
  <2>2. /\ client' = "await_auth" /\ client' \notin Receiving /\ client' \notin AfterSetup
        /\ client' \in BeforeSetup
    BY <1>2, <1>8 DEF Receiving, AfterSetup, BeforeSetup
  <2>3. OneRequest'
    BY <1>2, <2>1, <2>2 DEF OneRequest
  <2>4. FdInv'
    BY <1>1, <1>2, <1>4, <1>5, <2>2, Written DEF FdInv, Fd, Quiet
  <2>5. pushes = 0 => Agreeing'
    <3>1. ASSUME pushes = 0 PROVE Agreeing'
      <4>1. Agreeing /\ client \in BeforeSetup
        BY <1>2, <2>2, <3>1 DEF HandshakeInv
      <4>2. Len(toServer') + Len(toClient') + Len(buf') <= 1
        BY <1>1, <1>2, <1>4, <1>5, <1>8, <2>1, <4>1, Streams, Written DEF Agreeing
      <4>3. QED BY <1>2, <2>2, <4>1, <4>2 DEF Agreeing
    <3>2. QED BY <3>1
  <2>6. Undisturbed' => Coming'
    <3>1. SUFFICES ASSUME Undisturbed' PROVE Coming'
      OBVIOUS
    <3>2. Undisturbed /\ Coming
      BY <1>1, <1>2, <3>1, Calmer DEF HandshakeInv
    <3>3. config.serverToken = "set" /\ config.token = "right"
      BY <1>8, <3>2 DEF Undisturbed, Entitled, Coming
    <3>4. authenticated = "no" /\ toClient = << >> /\ buf = << >>
      BY <1>1, <1>3, <1>8, <3>2 DEF Coming, HandshakeTyped
    <3>5. QED BY <1>1, <1>2, <1>4, <1>5, <2>1, <2>2, <3>2, <3>3, <3>4, Written DEF Coming
  <2>7. QED BY <1>2, <1>6, <2>2, <2>3, <2>4, <2>5, <2>6 DEF HandshakeInv
<1>9. QED BY <1>3, <1>7, <1>8

\* Whatever is asked of a session that wants a token first.
LEMMA HandleUnauthenticatedStep ==
    ASSUME HandshakeInv, HandleUnauthenticated
    PROVE  HandshakeInv'
<1>1. /\ HandshakeTyped /\ OneRequest /\ FdInv
      /\ handler = "wait" /\ authenticated = "no" /\ Write("error")
      /\ UNCHANGED <<config, session, caller, pushes, mishaps>>
  BY DEF HandshakeInv, HandleUnauthenticated
<1>2. UNCHANGED <<config, handler, authenticated, serverRings, client, fds, clientRings, buf, pushes, mishaps>>
  BY <1>1 DEF caller, session
<1>3. /\ toServer # << >> /\ toServer' \in Seq(Requests)
      /\ client # "failed" => toServer' = << >>
      /\ client \in {"receive_down", "await_init", "connected", "failed"}
      /\ Range(toServer') \subseteq Range(toServer)
  BY <1>1, Taken DEF HandleUnauthenticated
<1>4. /\ toClient' \in Seq(Elements) /\ Range(toClient') = Range(toClient) \cup {"error"}
      /\ Once(toClient) => Once(toClient')
      /\ "error" \notin FdBytes
  BY <1>1, Written DEF Elements, FdBytes
<1>5. HandshakeTyped'
  BY <1>1, <1>2, <1>3, <1>4 DEF HandshakeTyped
<1>6. CASE client = "failed"
  BY <1>1, <1>2, <1>5, <1>6, ClientFailed, Calmer DEF HandshakeInv, FdInv, Coming
<1>7. CASE client \in {"receive_down", "await_init", "connected"}
  <2>1. toServer' = << >> /\ Len(toServer') = 0 /\ Range(toServer') = {}
    BY <1>1, <1>3, <1>7, Streams
  <2>2. client' = client /\ client \notin BeforeSetup /\ client # "await_result" /\ client # "receive_up"
    BY <1>2, <1>7 DEF BeforeSetup
  <2>3. OneRequest'
    BY <1>2, <1>7, <2>1, <2>2 DEF OneRequest, AfterSetup
  <2>4. Fd(toClient') = Fd(toClient)
    BY <1>4 DEF Fd
  <2>5. FdInv'
    BY <1>1, <1>2, <1>4, <2>1, <2>2, <2>4 DEF FdInv
  <2>6. pushes = 0 => Agreeing'
    <3>1. ASSUME pushes = 0 PROVE Agreeing'
      <4>1. Agreeing
        BY <3>1 DEF HandshakeInv
      <4>2. CASE client = "receive_down"
        <5>1. toClient = << >> /\ buf = << >> /\ clientRings = clientRings /\ ToldRings
          BY <1>3, <4>1, <4>2 DEF Agreeing, Receiving
        <5>2. Range(toClient') = {"error"}
          BY <1>1, <1>4, <5>1, Streams
        <5>3. client' = "receive_down" /\ client' \in Receiving /\ client' \notin {"start", "authenticated"}
              /\ client' \notin {"await_init", "connected"} /\ handler' \notin Busy
          BY <1>1, <1>2, <4>2 DEF Receiving, Busy
        <5>4. ToldRings'
          BY <1>2, <5>1, <5>2 DEF ToldRings
        <5>5. QED BY <1>2, <2>1, <2>2, <5>1, <5>2, <5>3, <5>4 DEF Agreeing
      <4>3. CASE client \in {"await_init", "connected"}
        <5>1. client' \notin Receiving /\ client' \notin {"start", "authenticated"}
          BY <1>2, <4>3 DEF Receiving
        <5>2. QED BY <1>2, <2>2, <4>1, <4>3, <5>1 DEF Agreeing
      <4>4. QED BY <1>7, <4>2, <4>3
    <3>2. QED BY <3>1
  <2>7. ~ Undisturbed'
    BY <1>1, <1>2, <1>7, Calmer DEF HandshakeInv, Coming
  <2>8. QED BY <1>2, <1>5, <2>2, <2>3, <2>5, <2>6, <2>7 DEF HandshakeInv
<1>8. QED BY <1>3, <1>6, <1>7

LEMMA HandleInitializeStep ==
    ASSUME HandshakeInv, HandleInitialize
    PROVE  HandshakeInv'
<1>1. /\ HandshakeTyped /\ OneRequest /\ FdInv
      /\ handler = "wait" /\ Write("init_result") /\ Take("initialize")
      /\ UNCHANGED <<config, session, caller, pushes, mishaps>>
  BY DEF HandshakeInv, HandleInitialize
<1>2. UNCHANGED <<config, handler, authenticated, serverRings, client, fds, clientRings, buf, pushes, mishaps>>
  BY <1>1 DEF caller, session
<1>3. /\ toServer' \in Seq(Requests)
      /\ client # "failed" => toServer' = << >>
      /\ client \in {"await_init", "connected", "failed"}
  BY <1>1, Taken
<1>4. /\ toClient' \in Seq(Elements) /\ Range(toClient') = Range(toClient) \cup {"init_result"}
      /\ "init_result" \notin FdBytes
  BY <1>1, Written DEF Elements, FdBytes
<1>5. HandshakeTyped'
  BY <1>1, <1>2, <1>3, <1>4 DEF HandshakeTyped
<1>6. CASE client = "failed"
  BY <1>1, <1>2, <1>5, <1>6, ClientFailed, Calmer DEF HandshakeInv, FdInv, Coming
<1>7. CASE client \in {"await_init", "connected"}
  <2>1. toServer' = << >> /\ Len(toServer') = 0 /\ Range(toServer') = {}
    BY <1>1, <1>3, <1>7, Streams
  <2>2. /\ client' = client /\ client \notin BeforeSetup /\ client \notin Receiving
        /\ client \notin {"start", "await_auth", "authenticated", "await_result", "receive_up", "receive_down"}
    BY <1>2, <1>7 DEF BeforeSetup, Receiving
  <2>3. OneRequest'
    BY <1>2, <1>7, <2>1, <2>2 DEF OneRequest, AfterSetup
  <2>4. Fd(toClient') = Fd(toClient)
    BY <1>4 DEF Fd
  <2>5. FdInv'
    BY <1>1, <1>2, <1>4, <2>1, <2>2, <2>4 DEF FdInv
  <2>6. pushes = 0 => Agreeing'
    BY <1>2, <1>7, <2>2 DEF HandshakeInv, Agreeing
  <2>7. Undisturbed' => Coming'
    BY <1>1, <1>2, <1>4, <2>2, Calmer DEF HandshakeInv, Coming
  <2>8. QED BY <1>2, <1>5, <2>2, <2>3, <2>5, <2>6, <2>7 DEF HandshakeInv
<1>8. QED BY <1>3, <1>6, <1>7

LEMMA HandleShmSetupStep ==
    ASSUME HandshakeInv, HandleShmSetup
    PROVE  HandshakeInv'
<1>1. /\ HandshakeTyped /\ OneRequest /\ FdInv
      /\ handler = "wait" /\ Take("shm_setup")
      /\ UNCHANGED <<config, authenticated, serverRings, caller, toClient, pushes>>
  BY DEF HandshakeInv, HandleShmSetup
<1>2. UNCHANGED <<config, authenticated, serverRings, client, fds, clientRings, buf, toClient, pushes>>
  BY <1>1 DEF caller
<1>3. /\ toServer # << >> /\ toServer' \in Seq(Requests)
      /\ client # "failed" => toServer' = << >>
      /\ client \in {"receive_down", "failed"}
  BY <1>1, Taken
<1>4. /\ mishaps' \subseteq Faults /\ mishaps \subseteq mishaps'
      /\ \/ handler' = "down_fd"
         \/ handler' = "decline"
         \/ handler' = "ended" /\ "dup" \in mishaps'
  BY <1>1 DEF HandleShmSetup, Mishap, HandshakeTyped
<1>5. HandshakeTyped'
  BY <1>1, <1>2, <1>3, <1>4 DEF HandshakeTyped, Handlers
<1>6. CASE client = "failed"
  BY <1>1, <1>2, <1>4, <1>5, <1>6, ClientFailed, Calmer DEF HandshakeInv, FdInv, Coming
<1>7. CASE client = "receive_down"
  <2>1. toServer' = << >> /\ Len(toServer') = 0 /\ Range(toServer') = {}
    BY <1>1, <1>3, <1>7, Streams
  <2>2. /\ client' = "receive_down" /\ client' \in Receiving
        /\ client' \notin BeforeSetup /\ client' \notin AfterSetup
        /\ client' \notin {"start", "await_auth", "authenticated", "await_result", "receive_up"}
        /\ client' \notin {"start", "authenticated"} /\ client' \notin {"await_init", "connected"}
    BY <1>2, <1>7 DEF BeforeSetup, AfterSetup, Receiving
  <2>3. OneRequest'
    BY <2>1, <2>2 DEF OneRequest
  <2>4. FdInv'
    BY <1>1, <1>2, <1>3, <1>7, <2>1, <2>2 DEF FdInv
  <2>5. pushes = 0 => Agreeing'
    <3>1. ASSUME pushes = 0 PROVE Agreeing'
      <4>1. toClient = << >> /\ buf = << >> /\ serverRings = {} /\ Range(toClient) = {} /\ ToldRings
        BY <1>1, <1>2, <1>3, <2>2, <3>1, Streams DEF HandshakeInv, Agreeing
      <4>2. ToldRings'
        BY <1>2, <4>1 DEF ToldRings
      <4>3. QED BY <1>2, <2>1, <2>2, <4>1, <4>2 DEF Agreeing
    <3>2. QED BY <3>1
  <2>6. Undisturbed' => Coming'
    <3>1. SUFFICES ASSUME Undisturbed' PROVE Coming'
      OBVIOUS
    <3>2. Undisturbed /\ Coming /\ config.shm = "yes"
      BY <1>1, <1>2, <1>4, <1>7, <2>2, <3>1, Calmer DEF HandshakeInv
    <3>3. pushes = 0 /\ mishaps' \subseteq {"memfd"}
      BY <1>2, <3>1, <3>2 DEF Undisturbed
    <3>4. toClient = << >>
      BY <1>2, <1>3, <2>2, <3>3 DEF HandshakeInv, Agreeing
    <3>5. handler' \in {"down_fd", "decline"}
      BY <1>4, <3>3
    <3>6. Len(toClient') = 0
      BY <1>1, <1>2, <3>4, Streams
    <3>7. QED BY <1>2, <1>7, <2>1, <2>2, <3>2, <3>4, <3>5, <3>6 DEF Coming
  <2>7. QED BY <1>2, <1>5, <1>7, <2>2, <2>3, <2>4, <2>5, <2>6 DEF HandshakeInv
<1>8. QED BY <1>3, <1>6, <1>7

\* While the session is in its ShmSetup handler, the client waits for descriptors.
LEMMA InSetup ==
    ASSUME HandshakeInv, handler \in Busy
    PROVE  /\ client \in Receiving \cup AfterSetup \cup {"failed"}
           /\ handler \in {"down_fd", "decline"} => client \in {"receive_down", "failed"}
           /\ handler = "up_fd" => client \in {"receive_down", "receive_up", "failed"}
           /\ client \in Receiving => toServer = << >> /\ config.shm = "yes"
<1>1. HandshakeTyped /\ OneRequest /\ FdInv /\ handler \notin Quiet
  BY DEF HandshakeInv, Busy, Quiet
<1>2. client \in Receiving \cup AfterSetup \cup {"failed"}
  BY <1>1, ClientKinds DEF FdInv
<1>3. client \in Receiving => client = "receive_down" \/ client = "receive_up"
  BY DEF Receiving
<1>4. QED BY <1>1, <1>2, <1>3 DEF FdInv, OneRequest, HandshakeInv

LEMMA SendDownStep ==
    ASSUME HandshakeInv, SendDown
    PROVE  HandshakeInv'
<1>1. /\ HandshakeTyped /\ OneRequest /\ FdInv
      /\ handler = "down_fd" /\ handler \in Busy
      /\ UNCHANGED <<config, authenticated, serverRings, caller, toServer, pushes>>
  BY DEF HandshakeInv, SendDown, Busy
<1>2. UNCHANGED <<config, authenticated, serverRings, client, fds, clientRings, buf, toServer, pushes>>
  BY <1>1 DEF caller
<1>3. /\ mishaps' \subseteq Faults /\ mishaps \subseteq mishaps'
      /\ \/ Write("down_fd") /\ handler' = "up_fd" /\ mishaps' = mishaps
         \/ handler' = "setup_failed" /\ "first_fd" \in mishaps' /\ toClient' = toClient
  BY <1>1 DEF SendDown, Mishap, HandshakeTyped
<1>4. "down_fd" \in Elements /\ "down_fd" \in FdBytes
  BY DEF Elements, FdBytes
<1>5. HandshakeTyped'
  <2>1. toClient' \in Seq(Elements)
    BY <1>1, <1>3, <1>4, Written DEF HandshakeTyped
  <2>2. QED BY <1>1, <1>2, <1>3, <2>1 DEF HandshakeTyped, Handlers
<1>6. CASE client = "failed"
  BY <1>1, <1>2, <1>3, <1>5, <1>6, ClientFailed, Calmer DEF HandshakeInv, FdInv, Coming
<1>7. CASE client = "receive_down"
  <2>1. toServer' = << >> /\ Len(toServer') = 0 /\ Range(toServer') = {} /\ config.shm = "yes"
    BY <1>1, <1>2, <1>7, InSetup, Streams DEF Receiving
  <2>2. /\ client' = "receive_down" /\ client' \in Receiving
        /\ client' \notin BeforeSetup /\ client' \notin AfterSetup
        /\ client' \notin {"start", "await_auth", "authenticated", "await_result", "receive_up"}
        /\ client' \notin {"start", "authenticated"} /\ client' \notin {"await_init", "connected"}
    BY <1>2, <1>7 DEF BeforeSetup, AfterSetup, Receiving
  <2>3. OneRequest'
    BY <2>1, <2>2 DEF OneRequest
  <2>4. Once(toClient) /\ Fd(toClient) = {} /\ "down_fd" \notin Range(toClient)
    BY <1>1, <1>4, <1>7 DEF FdInv, Fd
  <2>5. /\ Once(toClient') /\ Range(toClient') \subseteq Range(toClient) \cup {"down_fd"}
        /\ Fd(toClient') \subseteq {"down_fd"}
    BY <1>1, <1>3, <1>4, <2>4, Written DEF Fd
  <2>6. FdInv'
    BY <1>1, <1>2, <1>3, <2>1, <2>2, <2>5 DEF FdInv
  <2>7. pushes = 0 => Agreeing'
    <3>1. ASSUME pushes = 0 PROVE Agreeing'
      <4>1. buf = << >> /\ serverRings = {} /\ Range(toClient) \subseteq FdBytes /\ clientRings = clientRings
        BY <1>1, <1>2, <2>2, <3>1 DEF HandshakeInv, Agreeing
      <4>2. Range(toClient') \subseteq {"down_fd"} /\ Range(buf') = {}
        BY <1>1, <1>2, <2>4, <2>5, <4>1, Streams DEF Fd
      <4>3. ToldRings' /\ "decline" \notin Range(toClient') /\ Range(toClient') \subseteq FdBytes
        BY <1>2, <1>4, <4>2 DEF ToldRings
      <4>4. QED BY <1>2, <2>1, <2>2, <4>1, <4>3 DEF Agreeing
    <3>2. QED BY <3>1
  <2>8. Undisturbed' => Coming'
    <3>1. SUFFICES ASSUME Undisturbed' PROVE Coming'
      OBVIOUS
    <3>2. Undisturbed /\ Coming
      BY <1>1, <1>2, <1>3, <3>1, Calmer DEF HandshakeInv
    <3>3. Write("down_fd") /\ handler' = "up_fd" /\ toClient = << >> /\ authenticated = "yes"
      BY <1>1, <1>3, <1>7, <3>1, <3>2 DEF Undisturbed, Coming
    <3>4. Len(toClient') = 1 /\ Head(toClient') = "down_fd"
      BY <1>1, <1>4, <3>3, Written, Streams
    <3>5. QED BY <1>2, <1>4, <2>2, <2>5, <3>2, <3>3, <3>4 DEF Coming
  <2>9. QED BY <1>2, <1>5, <2>1, <2>2, <2>3, <2>6, <2>7, <2>8 DEF HandshakeInv
<1>8. QED BY <1>1, <1>6, <1>7, InSetup

LEMMA SendUpStep ==
    ASSUME HandshakeInv, SendUp
    PROVE  HandshakeInv'
<1>1. /\ HandshakeTyped /\ OneRequest /\ FdInv
      /\ handler = "up_fd" /\ handler \in Busy
      /\ UNCHANGED <<config, authenticated, serverRings, caller, toServer, pushes>>
  BY DEF HandshakeInv, SendUp, Busy
<1>2. UNCHANGED <<config, authenticated, serverRings, client, fds, clientRings, buf, toServer, pushes>>
  BY <1>1 DEF caller
<1>3. /\ mishaps' \subseteq Faults /\ mishaps \subseteq mishaps'
      /\ \/ Write("up_fd") /\ handler' = "setup_ok" /\ mishaps' = mishaps
         \/ handler' = "setup_failed" /\ "second_fd" \in mishaps' /\ toClient' = toClient
  BY <1>1 DEF SendUp, Mishap, HandshakeTyped
<1>4. "up_fd" \in Elements /\ "up_fd" \in FdBytes
  BY DEF Elements, FdBytes
<1>5. HandshakeTyped'
  <2>1. toClient' \in Seq(Elements)
    BY <1>1, <1>3, <1>4, Written DEF HandshakeTyped
  <2>2. QED BY <1>1, <1>2, <1>3, <2>1 DEF HandshakeTyped, Handlers
<1>6. CASE client = "failed"
  BY <1>1, <1>2, <1>3, <1>5, <1>6, ClientFailed, Calmer DEF HandshakeInv, FdInv, Coming
<1>7. CASE client \in {"receive_down", "receive_up"}
  <2>1. toServer' = << >> /\ Len(toServer') = 0 /\ Range(toServer') = {} /\ config.shm = "yes"
    BY <1>1, <1>2, <1>7, InSetup, Streams DEF Receiving
  <2>2. /\ client' = client /\ client' \in Receiving
        /\ client' \notin BeforeSetup /\ client' \notin AfterSetup
        /\ client' \notin {"start", "await_auth", "authenticated", "await_result"}
        /\ client' \notin {"start", "authenticated"} /\ client' \notin {"await_init", "connected"}
    BY <1>2, <1>7 DEF BeforeSetup, AfterSetup, Receiving
  <2>3. OneRequest'
    BY <2>1, <2>2 DEF OneRequest
  <2>4. /\ Once(toClient) /\ Fd(toClient) \subseteq {"down_fd"} /\ "up_fd" \notin Range(toClient)
        /\ client = "receive_up" => Fd(toClient) = {} /\ fds # {}
    BY <1>1, <1>4, <1>7 DEF FdInv, Fd
  <2>5. /\ Once(toClient') /\ Range(toClient') \subseteq Range(toClient) \cup {"up_fd"}
        /\ Fd(toClient') \subseteq Fd(toClient) \cup {"up_fd"}
    BY <1>1, <1>3, <1>4, <2>4, Written DEF Fd
  <2>6. "decline" \notin Fd(toClient')
    BY <2>4, <2>5
  <2>7. FdInv'
    BY <1>1, <1>2, <1>3, <2>1, <2>2, <2>4, <2>5, <2>6 DEF FdInv
  <2>8. pushes = 0 => Agreeing'
    <3>1. ASSUME pushes = 0 PROVE Agreeing'
      <4>1. buf = << >> /\ serverRings = {} /\ Range(toClient) \subseteq FdBytes
        BY <1>1, <1>2, <2>2, <3>1 DEF HandshakeInv, Agreeing
      <4>2. Range(toClient') \subseteq FdBytes /\ Range(buf') = {}
        BY <1>1, <1>2, <1>4, <2>5, <4>1, Streams
      <4>3. ToldRings' /\ "decline" \notin Range(toClient')
        BY <1>2, <2>6, <4>2 DEF ToldRings, Fd, FdBytes
      <4>4. QED BY <1>2, <2>1, <2>2, <4>1, <4>2, <4>3 DEF Agreeing
    <3>2. QED BY <3>1
  <2>9. Undisturbed' => Coming'
    <3>1. SUFFICES ASSUME Undisturbed' PROVE Coming'
      OBVIOUS
    <3>2. Undisturbed /\ Coming
      BY <1>1, <1>2, <1>3, <3>1, Calmer DEF HandshakeInv
    <3>3. Write("up_fd") /\ handler' = "setup_ok"
      BY <1>3, <3>1 DEF Undisturbed
    <3>4. CASE client = "receive_down"
      <4>1. Len(toClient) = 1 /\ Head(toClient) = "down_fd"
        BY <1>1, <3>2, <3>4 DEF Coming
      <4>a. toClient # << >>
        BY <4>1, NoLength
      <4>2. Len(toClient') = 2 /\ Head(toClient') = "down_fd" /\ toClient'[2] = "up_fd"
        BY <1>1, <1>4, <3>3, <4>1, <4>a, Written
      <4>3. QED BY <1>2, <1>4, <2>2, <2>5, <3>2, <3>3, <3>4, <4>2 DEF Coming
    <3>5. CASE client = "receive_up"
      <4>1. toClient = << >>
        BY <1>1, <3>2, <3>5 DEF Coming
      <4>2. Len(toClient') = 1 /\ Head(toClient') = "up_fd"
        BY <1>1, <1>4, <3>3, <4>1, Written, Streams
      <4>3. QED BY <1>2, <1>4, <2>2, <2>5, <3>2, <3>3, <3>5, <4>2 DEF Coming
    <3>6. QED BY <1>7, <3>4, <3>5
  <2>10. QED BY <1>2, <1>5, <2>1, <2>2, <2>3, <2>7, <2>8, <2>9 DEF HandshakeInv
<1>8. QED BY <1>1, <1>6, <1>7, InSetup

LEMMA DeclineStep ==
    ASSUME HandshakeInv, Decline
    PROVE  HandshakeInv'
<1>1. /\ HandshakeTyped /\ OneRequest /\ FdInv
      /\ handler = "decline" /\ handler \in Busy /\ Write("decline") /\ handler' = "setup_failed"
      /\ UNCHANGED <<config, authenticated, serverRings, caller, toServer, pushes, mishaps>>
  BY DEF HandshakeInv, Decline, Busy
<1>2. UNCHANGED <<config, authenticated, serverRings, client, fds, clientRings, buf, toServer, pushes, mishaps>>
  BY <1>1 DEF caller
<1>3. "decline" \in Elements /\ "decline" \in FdBytes
  BY DEF Elements, FdBytes
<1>4. HandshakeTyped'
  <2>1. toClient' \in Seq(Elements)
    BY <1>1, <1>3, Written
  <2>2. QED BY <1>1, <1>2, <2>1 DEF HandshakeTyped, Handlers
<1>5. CASE client = "failed"
  BY <1>1, <1>2, <1>4, <1>5, ClientFailed, Calmer DEF HandshakeInv, FdInv, Coming
<1>6. CASE client = "receive_down"
  <2>1. toServer' = << >> /\ Len(toServer') = 0 /\ Range(toServer') = {} /\ config.shm = "yes"
    BY <1>1, <1>2, <1>6, InSetup, Streams DEF Receiving
  <2>2. /\ client' = "receive_down" /\ client' \in Receiving
        /\ client' \notin BeforeSetup /\ client' \notin AfterSetup
        /\ client' \notin {"start", "await_auth", "authenticated", "await_result", "receive_up"}
        /\ client' \notin {"start", "authenticated"} /\ client' \notin {"await_init", "connected"}
    BY <1>2, <1>6 DEF BeforeSetup, AfterSetup, Receiving
  <2>3. OneRequest'
    BY <2>1, <2>2 DEF OneRequest
  <2>4. Once(toClient) /\ Fd(toClient) = {} /\ "decline" \notin Range(toClient)
    BY <1>1, <1>3, <1>6 DEF FdInv, Fd
  <2>5. /\ Once(toClient') /\ Range(toClient') = Range(toClient) \cup {"decline"}
        /\ Fd(toClient') = {"decline"}
    BY <1>1, <1>3, <2>4, Written DEF Fd
  <2>6. FdInv'
    BY <1>1, <1>2, <2>1, <2>2, <2>5 DEF FdInv
  <2>7. pushes = 0 => Agreeing'
    <3>1. ASSUME pushes = 0 PROVE Agreeing'
      <4>1. buf = << >> /\ serverRings = {} /\ Range(toClient) \subseteq FdBytes
        BY <1>1, <1>2, <2>2, <3>1 DEF HandshakeInv, Agreeing
      <4>2. Range(toClient') = {"decline"} /\ Range(buf') = {}
        BY <1>1, <1>2, <2>4, <2>5, <4>1, Streams DEF Fd
      <4>3. ToldRings' /\ Range(toClient') \subseteq FdBytes /\ "setup_ok" \notin Range(toClient')
        BY <1>2, <1>3, <4>2 DEF ToldRings
      <4>4. QED BY <1>1, <1>2, <2>1, <2>2, <4>1, <4>3 DEF Agreeing
    <3>2. QED BY <3>1
  <2>8. Undisturbed' => Coming'
    <3>1. SUFFICES ASSUME Undisturbed' PROVE Coming'
      OBVIOUS
    <3>2. Undisturbed /\ Coming
      BY <1>1, <1>2, <3>1, Calmer DEF HandshakeInv
    <3>3. toClient = << >> /\ authenticated = "yes"
      BY <1>1, <1>6, <3>2 DEF Coming
    <3>4. Len(toClient') = 1 /\ Head(toClient') = "decline"
      BY <1>1, <1>3, <3>3, Written, Streams
    <3>5. QED BY <1>1, <1>2, <1>3, <2>2, <2>5, <3>2, <3>3, <3>4 DEF Coming
  <2>9. QED BY <1>2, <1>4, <2>1, <2>2, <2>3, <2>6, <2>7, <2>8 DEF HandshakeInv
<1>7. QED BY <1>1, <1>5, <1>6, InSetup

LEMMA SetUpStep ==
    ASSUME HandshakeInv, SetUp
    PROVE  HandshakeInv'
<1>1. /\ HandshakeTyped /\ OneRequest /\ FdInv
      /\ handler \in Results /\ handler \in Busy /\ Write(handler) /\ handler' = "wait"
      /\ serverRings' = (IF handler = "setup_ok" THEN Both ELSE {})
      /\ UNCHANGED <<config, authenticated, caller, toServer, pushes, mishaps>>
  BY DEF HandshakeInv, SetUp, Busy, Results
<1>2. UNCHANGED <<config, authenticated, client, fds, clientRings, buf, toServer, pushes, mishaps>>
  BY <1>1 DEF caller
<1>3. /\ handler \in Elements /\ handler \notin FdBytes /\ handler # "error"
      /\ handler \notin {"down_fd", "up_fd", "decline"}
  BY <1>1 DEF Elements, FdBytes, Results
<1>4. /\ toClient' \in Seq(Elements) /\ toClient' # << >> /\ Range(toClient') = Range(toClient) \cup {handler}
      /\ Once(toClient) => Once(toClient')
      /\ Head(toClient') = (IF toClient = << >> THEN handler ELSE Head(toClient))
      /\ Len(toClient) \in Nat /\ \A i \in 1 .. Len(toClient) : toClient'[i] = toClient[i]
      /\ Len(toClient') = Len(toClient) + 1
  BY <1>1, <1>3, Written
<1>5. HandshakeTyped'
  BY <1>1, <1>2, <1>4 DEF HandshakeTyped, Handlers
<1>6. CASE client = "failed"
  BY <1>1, <1>2, <1>5, <1>6, ClientFailed, Calmer DEF HandshakeInv, FdInv, Coming
<1>7. CASE client \in Receiving \cup AfterSetup
  <2>1. client' = client /\ client \notin BeforeSetup /\ handler \notin Quiet /\ handler' \in Quiet
    BY <1>1, <1>2, <1>7 DEF BeforeSetup, Receiving, AfterSetup, Quiet, Results
  <2>2. client \in Receiving => toServer = << >>
    BY <1>1, InSetup
  <2>3. client \notin {"start", "await_auth"} /\ client \notin {"start", "authenticated"}
    BY <2>1 DEF BeforeSetup
  <2>4. OneRequest'
    BY <1>1, <1>2, <2>1, <2>3 DEF OneRequest, BeforeSetup
  <2>5. Fd(toClient') = Fd(toClient)
    BY <1>3, <1>4 DEF Fd
  <2>6. FdInv'
    BY <1>1, <1>2, <1>3, <1>4, <2>1, <2>2, <2>5 DEF FdInv, Receiving
  <2>7. pushes = 0 => Agreeing'
    <3>1. ASSUME pushes = 0 PROVE Agreeing'
      <4>1. Agreeing
        BY <3>1 DEF HandshakeInv
      <4>2. client \notin {"await_init", "connected"}
        BY <2>1, <4>1 DEF Agreeing
      <4>3. /\ "setup_ok" \in Range(toClient') => handler = "setup_ok"
            /\ "setup_failed" \in Range(toClient') => handler = "setup_failed"
            /\ buf = << >> /\ Range(buf) = {}
            /\ Range(toClient') \subseteq FdBytes \cup Results
        <5>1. CASE client \in Receiving
          <6>1. Range(toClient) \subseteq FdBytes /\ buf = << >>
            BY <1>1, <4>1, <5>1 DEF Agreeing
          <6>2. Range(buf) = {}
            BY <1>1, <6>1, Streams
          <6>3. QED BY <1>1, <1>4, <6>1, <6>2 DEF FdBytes, Results
        <5>2. CASE client = "await_result"
          <6>1. toClient = << >> /\ buf = << >>
            BY <1>1, <4>1, <5>2 DEF Agreeing
          <6>2. Range(buf) = {} /\ Range(toClient) = {}
            BY <1>1, <6>1, Streams
          <6>3. QED BY <1>1, <1>4, <6>1, <6>2 DEF FdBytes, Results
        <5>3. QED BY <1>7, <4>2, <5>1, <5>2 DEF AfterSetup
      <4>4. ToldRings'
        BY <1>1, <1>2, <4>3 DEF ToldRings
      <4>5. CASE client \in Receiving
        <5>1. "decline" \in Range(toClient') => "decline" \in Range(toClient)
          BY <1>3, <1>4 DEF FdBytes
        <5>2. "decline" \in Range(toClient') => "setup_ok" \notin Range(toClient')
          BY <1>1, <4>1, <4>3, <4>5, <5>1 DEF Agreeing
        <5>3. client # "await_result" /\ handler' \notin Busy /\ handler' # "setup_ok"
          BY <1>1, <4>5 DEF Receiving, Busy
        <5>4. QED BY <1>1, <1>2, <2>1, <2>2, <2>3, <4>2, <4>3, <4>4, <4>5, <5>2, <5>3 DEF Agreeing
      <4>6. CASE client = "await_result"
        <5>1. client \notin Receiving /\ handler' \notin Results /\ handler' # "setup_ok"
          BY <1>1, <4>6 DEF Receiving, Results
        <5>2. Range(toClient') \subseteq Results
          <6>1. toClient = << >>
            BY <1>1, <4>1, <4>6 DEF Agreeing
          <6>2. Range(toClient) = {}
            BY <1>1, <6>1, Streams
          <6>3. QED BY <1>1, <1>4, <6>2
        <5>3. handler = "setup_ok" => fds # {}
          BY <4>1, <4>6 DEF Agreeing
        <5>4. QED BY <1>2, <2>1, <2>3, <4>2, <4>3, <4>4, <4>6, <5>1, <5>2, <5>3 DEF Agreeing
      <4>7. QED BY <1>7, <4>2, <4>5, <4>6 DEF AfterSetup
    <3>2. QED BY <3>1
  <2>8. Undisturbed' => Coming'
    <3>1. SUFFICES ASSUME Undisturbed' PROVE Coming'
      OBVIOUS
    <3>2. Undisturbed /\ Coming
      BY <1>1, <1>2, <3>1, Calmer DEF HandshakeInv
    <3>3. "error" \notin Range(toClient') \cup Range(buf')
      BY <1>2, <1>3, <1>4, <3>2 DEF Coming
    <3>4. CASE client = "receive_down"
      <4>1. CASE handler = "setup_ok"
        <5>1. Len(toClient) = 2
          BY <3>2, <3>4, <4>1 DEF Coming
        <5>a. toClient # << >>
          BY <5>1, NoLength
        <5>2. toClient # << >> /\ Len(toClient) > 1 /\ toClient'[2] = toClient[2]
          BY <1>4, <5>1, <5>a
        <5>3. Head(toClient) \in {"down_fd", "decline"} /\ (Head(toClient) = "down_fd" => toClient[2] = "up_fd")
          BY <3>2, <3>4, <5>2 DEF Coming
        <5>4. Head(toClient') = Head(toClient)
          BY <1>4, <5>2
        <5>5. QED BY <1>1, <1>2, <2>3, <3>2, <3>3, <3>4, <5>2, <5>3, <5>4 DEF Coming
      <4>2. CASE handler = "setup_failed"
        <5>1. Len(toClient) = 1 /\ Head(toClient) = "decline"
          BY <3>2, <3>4, <4>2 DEF Coming
        <5>2. toClient # << >>
          BY <5>1, NoLength
        <5>3. Head(toClient') = "decline"
          BY <1>4, <5>1, <5>2
        <5>4. QED BY <1>1, <1>2, <2>3, <3>2, <3>3, <3>4, <5>3 DEF Coming
      <4>3. QED BY <1>1, <4>1, <4>2 DEF Results
    <3>5. CASE client = "receive_up"
      <4>1. handler = "setup_ok"
        BY <1>1, <3>2, <3>5 DEF Coming, Results
      <4>2. Len(toClient) = 1
        BY <3>2, <3>5, <4>1 DEF Coming
      <4>3. toClient # << >>
        BY <4>2, NoLength
      <4>4. Head(toClient') = "up_fd"
        BY <1>4, <3>2, <3>5, <4>3 DEF Coming
      <4>5. QED BY <1>1, <1>2, <2>3, <3>2, <3>3, <3>5, <4>4 DEF Coming
    <3>6. CASE client \notin Receiving
      BY <1>1, <1>2, <2>3, <3>2, <3>3, <3>6 DEF Coming, Receiving
    <3>7. QED BY <3>4, <3>5, <3>6 DEF Receiving
  <2>9. QED BY <1>1, <1>2, <1>5, <2>4, <2>6, <2>7, <2>8 DEF HandshakeInv
<1>8. QED BY <1>1, <1>6, <1>7, InSetup

LEMMA PushStep ==
    ASSUME HandshakeInv, Push
    PROVE  HandshakeInv'
<1>1. /\ HandshakeTyped /\ OneRequest /\ FdInv
      /\ handler = "wait" /\ authenticated = "yes" /\ Write("list_changed")
      /\ pushes < MaxPushes /\ pushes' = pushes + 1
      /\ UNCHANGED <<config, session, caller, toServer, mishaps>>
  BY DEF HandshakeInv, Push
<1>2. UNCHANGED <<config, handler, authenticated, serverRings, client, fds, clientRings, buf, toServer, mishaps>>
  BY <1>1 DEF caller, session
<1>3. pushes' \in 0 .. MaxPushes /\ pushes' # 0
  BY <1>1, HandshakeAssumption DEF HandshakeTyped
<1>4. /\ toClient' \in Seq(Elements) /\ toClient' # << >>
      /\ Range(toClient') = Range(toClient) \cup {"list_changed"}
      /\ Head(toClient') = (IF toClient = << >> THEN "list_changed" ELSE Head(toClient))
      /\ Once(toClient) => Once(toClient')
      /\ "list_changed" \notin FdBytes
  BY <1>1, Written DEF Elements, FdBytes
<1>5. HandshakeTyped'
  BY <1>1, <1>2, <1>3, <1>4 DEF HandshakeTyped
<1>6. OneRequest'
  BY <1>1, <1>2, <1>4 DEF OneRequest
<1>7. Fd(toClient') = Fd(toClient)
  BY <1>4 DEF Fd
<1>8. FdInv'
  BY <1>1, <1>2, <1>4, <1>7 DEF FdInv
<1>9. Undisturbed' => Coming'
  <2>1. SUFFICES ASSUME Undisturbed' PROVE Coming'
    OBVIOUS
  <2>2. Undisturbed /\ Coming
    BY <1>1, <1>2, <2>1, Calmer DEF HandshakeInv
  <2>3. client \notin Receiving
    BY <1>2, <1>3, <2>1 DEF Undisturbed, HandshakeInv
  <2>4. client # "receive_down" /\ client # "receive_up"
    BY <2>3 DEF Receiving
  <2>5. QED BY <1>1, <1>2, <1>4, <2>2, <2>4 DEF Coming
<1>10. QED BY <1>2, <1>3, <1>5, <1>6, <1>8, <1>9 DEF HandshakeInv

LEMMA EndSessionStep ==
    ASSUME HandshakeInv, EndSession
    PROVE  HandshakeInv'
<1>1. /\ HandshakeTyped /\ OneRequest /\ FdInv
      /\ handler = "wait" /\ handler' = "ended"
      /\ UNCHANGED <<config, authenticated, serverRings, caller, toServer, toClient, pushes>>
  BY DEF HandshakeInv, EndSession
<1>2. UNCHANGED <<config, authenticated, serverRings, client, fds, clientRings, buf, toServer, toClient, pushes>>
  BY <1>1 DEF caller
<1>3. /\ mishaps' \subseteq Faults /\ mishaps \subseteq mishaps'
      /\ "shutdown" \in mishaps' \/ client = "failed"
  BY <1>1 DEF EndSession, Mishap, HandshakeTyped
<1>4. HandshakeTyped'
  BY <1>1, <1>2, <1>3 DEF HandshakeTyped, Handlers
<1>5. OneRequest'
  BY <1>1, <1>2 DEF OneRequest
<1>6. handler' \in Quiet /\ handler' \notin Busy /\ handler' \notin Results
  BY <1>1 DEF Quiet, Busy, Results
<1>7. FdInv'
  BY <1>1, <1>2, <1>6 DEF FdInv
<1>8. pushes = 0 => Agreeing'
  <2>1. ASSUME pushes = 0 PROVE Agreeing'
    <3>1. Agreeing
      BY <2>1 DEF HandshakeInv
    <3>2. ToldRings => ToldRings'
      BY <1>2 DEF ToldRings, Both
    <3>3. QED BY <1>1, <1>2, <1>6, <3>1, <3>2 DEF Agreeing
  <2>2. QED BY <2>1
<1>9. ~ Undisturbed'
  <2>1. Undisturbed' => Undisturbed
    BY <1>1, <1>2, <1>3, Calmer
  <2>2. QED BY <1>3, <2>1 DEF Undisturbed, HandshakeInv, Coming
<1>10. QED BY <1>2, <1>4, <1>5, <1>7, <1>8, <1>9 DEF HandshakeInv

-----------------------------------------------------------------------------
\* The client's steps

\* The client asks when nothing else of its is under way.
LEMMA Asked ==
    ASSUME HandshakeTyped, toServer = << >>, NEW f \in Requests, toServer' = Append(toServer, f)
    PROVE  /\ toServer' \in Seq(Requests) /\ Range(toServer') = {f} /\ Len(toServer') = 1
           /\ toServer' # << >>
<1>1. toServer \in Seq(Requests)
  BY Streams
<1>2. Range(toServer) = {} /\ Len(toServer) = 0
  BY Streams
<1>3. /\ Append(toServer, f) \in Seq(Requests) /\ Append(toServer, f) # << >>
      /\ Len(Append(toServer, f)) = Len(toServer) + 1
      /\ Range(Append(toServer, f)) = Range(toServer) \cup {f}
  BY <1>1, Appended
<1>4. Len(toServer') = 1 /\ Range(toServer') = {f}
  <2> DEFINE q == Append(toServer, f)
  <2>1. Len(q) = Len(toServer) + 1 /\ Range(q) = Range(toServer) \cup {f} /\ toServer' = q
    BY <1>1, <1>3
  <2> HIDE DEF q
  <2>2. QED BY <1>2, <2>1
<1>5. QED BY <1>1, <1>3, <1>4

LEMMA StartStep ==
    ASSUME HandshakeInv, Start
    PROVE  HandshakeInv'
<1>1. /\ HandshakeTyped /\ OneRequest /\ FdInv /\ client = "start"
      /\ UNCHANGED <<config, session, fds, clientRings, pushes, mishaps>>
  BY DEF HandshakeInv, Start
<1>2. UNCHANGED <<config, handler, authenticated, serverRings, fds, clientRings, pushes, mishaps>>
  BY <1>1 DEF session
<1>3. toServer = << >> /\ buf = << >> /\ "auth_ok" \notin Range(toClient)
  BY <1>1 DEF OneRequest
<1>4. Range(toServer) = {} /\ Len(toServer) = 0 /\ Range(buf) = {} /\ Len(buf) = 0 /\ Len(toClient) \in Nat
  BY <1>1, <1>3, Streams
<1>5. "auth" \in Requests
  BY DEF Requests
<1>6. \/ config.token = "none" /\ client' = "authenticated" /\ UNCHANGED <<toServer, toClient, buf>>
      \/ config.token # "none" /\ client' = "await_auth" /\ Request("auth")
  BY DEF Start
<1>7. UNCHANGED <<toClient, buf>>
  BY <1>6 DEF Request
<1>8. HandshakeTyped'
  <2>1. client' \in Clients
    BY <1>6 DEF Clients, Reading
  <2>2. toServer' \in Seq(Requests)
    BY <1>1, <1>3, <1>5, <1>6, Asked DEF HandshakeTyped, Request
  <2>3. QED BY <1>1, <1>2, <1>7, <2>1, <2>2 DEF HandshakeTyped
<1>9. /\ client' \in BeforeSetup /\ client \in BeforeSetup
      /\ client' \notin Receiving /\ client' \notin AfterSetup
      /\ client' \notin Receiving \cup {"await_result"} /\ client' \notin {"await_init", "connected"}
      /\ client' \notin {"start", "failed", "receive_up", "receive_down", "await_result"}
  BY <1>1, <1>6 DEF BeforeSetup, Receiving, AfterSetup
<1>10. OneRequest'
  <2>1. "auth_ok" \notin Range(toClient') \cup Range(buf')
    BY <1>3, <1>4, <1>7
  <2>2. CASE client' = "authenticated"
    BY <1>3, <1>4, <1>6, <1>9, <2>1, <2>2 DEF OneRequest
  <2>3. CASE client' = "await_auth"
    <3>1. Range(toServer') = {"auth"} /\ Len(toServer') = 1
      BY <1>1, <1>3, <1>5, <1>6, <2>3, Asked DEF Request
    <3>2. QED BY <1>9, <2>1, <2>3, <3>1 DEF OneRequest
  <2>4. QED BY <1>6, <2>2, <2>3
<1>11. FdInv'
  BY <1>1, <1>2, <1>7, <1>9 DEF FdInv
<1>12. pushes = 0 => Agreeing'
  <2>1. ASSUME pushes = 0 PROVE Agreeing'
    <3>1. toClient = << >> /\ serverRings = {} /\ clientRings = {}
      BY <1>1, <1>9, <2>1 DEF HandshakeInv, Agreeing
    <3>2. Len(toClient) = 0
      BY <3>1, NoLength
    <3>3. client' = "await_auth" => Len(toServer') = 1
      BY <1>1, <1>3, <1>5, <1>6, Asked DEF Request
    <3>4. client' = "await_auth" => Len(toServer') + Len(toClient') + Len(buf') <= 1
      BY <1>4, <1>7, <3>2, <3>3
    <3>5. QED BY <1>2, <1>3, <1>7, <1>9, <3>1, <3>4 DEF Agreeing
  <2>2. QED BY <2>1
<1>13. Undisturbed' => Coming'
  <2>1. SUFFICES ASSUME Undisturbed' PROVE Coming'
    OBVIOUS
  <2>2. Coming
    BY <1>1, <1>2, <2>1, Calmer DEF HandshakeInv
  <2>3. IF config.token = "none" THEN authenticated = "yes" ELSE authenticated = "no" /\ toClient = << >>
    BY <1>1, <2>2 DEF Coming
  <2>4. QED BY <1>2, <1>3, <1>6, <1>7, <1>9, <2>2, <2>3 DEF Coming
<1>14. QED BY <1>2, <1>8, <1>9, <1>10, <1>11, <1>12, <1>13 DEF HandshakeInv

LEMMA ProceedStep ==
    ASSUME HandshakeInv, Proceed
    PROVE  HandshakeInv'
<1>1. /\ HandshakeTyped /\ OneRequest /\ FdInv /\ client = "authenticated"
      /\ UNCHANGED <<config, session, fds, clientRings, pushes, mishaps>>
  BY DEF HandshakeInv, Proceed
<1>2. UNCHANGED <<config, handler, authenticated, serverRings, fds, clientRings, pushes, mishaps>>
  BY <1>1 DEF session
<1>3. toServer = << >> /\ handler \in Quiet /\ Fd(toClient) = {} /\ Fd(buf) = {}
  BY <1>1 DEF OneRequest, FdInv, BeforeSetup
<1>4. \/ config.shm = "yes" /\ client' = "receive_down" /\ Request("shm_setup")
      \/ config.shm # "yes" /\ client' = "await_init" /\ Request("initialize")
  BY DEF Proceed
<1>5. UNCHANGED <<toClient, buf>>
  BY <1>4 DEF Request
<1>6. "shm_setup" \in Requests /\ "initialize" \in Requests
  BY DEF Requests
<1>7. /\ toServer' \in Seq(Requests) /\ Len(toServer') = 1
      /\ Range(toServer') = (IF client' = "receive_down" THEN {"shm_setup"} ELSE {"initialize"})
  BY <1>1, <1>3, <1>4, <1>6, Asked DEF Request
<1>8. HandshakeTyped'
  <2>1. client' \in Clients
    BY <1>4 DEF Clients, Reading, Receiving
  <2>2. QED BY <1>1, <1>2, <1>5, <1>7, <2>1 DEF HandshakeTyped
<1>9. /\ client' \notin BeforeSetup
      /\ client' \in Receiving <=> client' = "receive_down"
      /\ client' \in AfterSetup <=> client' = "await_init"
      /\ client' \notin {"start", "await_auth", "authenticated", "failed", "receive_up", "await_result", "connected"}
      /\ client' \notin {"start", "authenticated", "receive_up", "await_result"}
  BY <1>4 DEF BeforeSetup, Receiving, AfterSetup
<1>10. OneRequest'
  BY <1>4, <1>7, <1>9 DEF OneRequest
<1>11. FdInv'
  <2>1. Once(toClient)
    BY <1>3 DEF Once, Fd, Range
  <2>2. handler \notin {"down_fd", "up_fd", "decline"}
    BY <1>3 DEF Quiet
  <2>3. QED BY <1>2, <1>3, <1>5, <1>9, <2>1, <2>2 DEF FdInv
<1>12. pushes = 0 => Agreeing'
  <2>1. ASSUME pushes = 0 PROVE Agreeing'
    <3>1. toClient = << >> /\ buf = << >> /\ serverRings = {} /\ clientRings = {}
      BY <1>1, <2>1 DEF HandshakeInv, Agreeing, BeforeSetup
    <3>2. Range(toClient') = {} /\ Range(buf') = {}
      BY <1>1, <1>5, <3>1, Streams
    <3>3. ToldRings' /\ handler \notin Busy
      BY <1>3, <3>2 DEF ToldRings, Quiet, Busy
    <3>4. QED BY <1>2, <1>3, <1>5, <1>9, <3>1, <3>2, <3>3 DEF Agreeing
  <2>2. QED BY <2>1
<1>13. Undisturbed' => Coming'
  <2>1. SUFFICES ASSUME Undisturbed' PROVE Coming'
    OBVIOUS
  <2>2. Coming /\ Undisturbed
    BY <1>1, <1>2, <2>1, Calmer DEF HandshakeInv
  <2>3. CASE client' = "receive_down"
    <3>1. pushes = 0
      BY <1>4, <2>2, <2>3 DEF Undisturbed
    <3>2. toClient = << >>
      BY <1>1, <3>1 DEF HandshakeInv, Agreeing
    <3>3. handler \notin {"down_fd", "decline", "up_fd", "setup_ok", "setup_failed"} /\ Len(toClient) = 0
      BY <1>3, <3>2, NoLength DEF Quiet
    <3>4. QED BY <1>1, <1>2, <1>5, <1>9, <2>2, <2>3, <3>2, <3>3 DEF Coming
  <2>4. CASE client' = "await_init"
    BY <1>1, <1>2, <1>5, <1>9, <2>2, <2>4 DEF Coming
  <2>5. QED BY <1>4, <2>3, <2>4
<1>14. QED BY <1>2, <1>4, <1>8, <1>9, <1>10, <1>11, <1>12, <1>13 DEF HandshakeInv, Receiving

LEMMA ReadStep ==
    ASSUME HandshakeInv, Read
    PROVE  HandshakeInv'
<1>1. /\ HandshakeTyped /\ OneRequest /\ FdInv /\ client \in Reading /\ buf = << >> /\ toClient # << >>
      /\ UNCHANGED <<config, session, client, fds, clientRings, toServer, pushes, mishaps>>
  BY DEF HandshakeInv, Read
<1>2. UNCHANGED <<config, handler, authenticated, serverRings, client, fds, clientRings, toServer, pushes, mishaps>>
  BY <1>1 DEF session
<1>3. PICK n \in 1 .. Len(toClient) :
          buf' = SubSeq(toClient, 1, n) /\ toClient' = SubSeq(toClient, n + 1, Len(toClient))
  BY DEF Read
<1>4. toClient \in Seq(Elements)
  BY <1>1, Streams
<1>5. /\ buf' \in Seq(Elements) /\ toClient' \in Seq(Elements)
      /\ Len(buf') + Len(toClient') = Len(toClient)
      /\ buf' # << >> /\ Head(buf') = Head(toClient)
      /\ Range(toClient) = Range(buf') \cup Range(toClient')
  <2> DEFINE a == SubSeq(toClient, 1, n)
             b == SubSeq(toClient, n + 1, Len(toClient))
  <2>1. /\ a \in Seq(Elements) /\ b \in Seq(Elements) /\ Len(a) + Len(b) = Len(toClient)
        /\ a # << >> /\ Head(a) = Head(toClient) /\ Range(toClient) = Range(a) \cup Range(b)
    BY <1>4, Divided
  <2>2. buf' = a /\ toClient' = b
    BY <1>3
  <2> HIDE DEF a, b
  <2>3. QED BY <2>1, <2>2
<1>6. Len(buf) = 0 /\ Range(buf) = {} /\ Len(toServer) \in Nat /\ Len(toClient) \in Nat
  BY <1>1, Streams
<1>7. HandshakeTyped'
  BY <1>1, <1>2, <1>5 DEF HandshakeTyped
<1>8. /\ client \in BeforeSetup <=> client = "await_auth"
      /\ client \in AfterSetup <=> client \in {"await_result", "await_init"}
      /\ client \notin Receiving
      /\ client \notin {"start", "authenticated", "receive_down", "receive_up", "connected", "failed"}
      /\ client \notin {"start", "authenticated"}
  BY <1>1 DEF Reading, BeforeSetup, AfterSetup, Receiving
<1>9. OneRequest'
  <2>1. client = "await_auth" /\ "auth_ok" \in Range(toClient') \cup Range(buf') => toServer = << >>
    BY <1>1, <1>5 DEF OneRequest
  <2>2. QED BY <1>1, <1>2, <1>8, <2>1 DEF OneRequest
<1>10. FdInv'
  <2>1. Fd(toClient) = {}
    BY <1>1, <1>8 DEF FdInv, Reading
  <2>2. Fd(toClient') = {} /\ Fd(buf)' = {}
    BY <1>5, <2>1 DEF Fd
  <2>3. QED BY <1>1, <1>2, <1>8, <2>2 DEF FdInv, Fd
<1>11. pushes = 0 => Agreeing'
  <2>1. ASSUME pushes = 0 PROVE Agreeing'
    <3>1. Agreeing
      BY <2>1 DEF HandshakeInv
    <3>2. ToldRings => ToldRings'
      BY <1>2, <1>5 DEF ToldRings, Both
    <3>3. client = "await_auth" => Len(toServer') + Len(toClient') + Len(buf') <= 1
      <4>1. ASSUME client = "await_auth" PROVE Len(toServer) + Len(toClient) <= 1
        BY <1>6, <3>1, <4>1 DEF Agreeing
      <4>2. Len(toClient') \in Nat /\ Len(buf') \in Nat
        BY <1>7, Streams DEF HandshakeTyped
      <4>3. QED BY <1>2, <1>5, <1>6, <4>1, <4>2
    <3>4. client = "await_result" =>
              /\ Range(toClient') \cup Range(buf') \subseteq Results /\ ToldRings /\ handler \notin Results
              /\ handler = "setup_ok" \/ "setup_ok" \in Range(toClient') \cup Range(buf') => fds # {}
      BY <1>1, <1>5, <1>6, <3>1 DEF Agreeing
    <3>5. QED BY <1>2, <1>8, <3>1, <3>2, <3>3, <3>4 DEF Agreeing
  <2>2. QED BY <2>1
<1>12. Undisturbed' => Coming'
  <2>1. SUFFICES ASSUME Undisturbed' PROVE Coming'
    OBVIOUS
  <2>2. Coming /\ Undisturbed
    BY <1>1, <1>2, <2>1, Calmer DEF HandshakeInv
  <2>3. "error" \notin Range(toClient') \cup Range(buf')
    BY <1>5, <2>2 DEF Coming
  <2>4. CASE client = "await_auth"
    <3>1. authenticated = "yes" /\ Head(buf') = "auth_ok" /\ toServer = << >> /\ config.token # "none"
      BY <1>1, <1>5, <2>2, <2>4 DEF Coming, HandshakeTyped
    <3>2. QED BY <1>2, <1>5, <1>8, <2>2, <2>3, <2>4, <3>1 DEF Coming
  <2>5. CASE client # "await_auth"
    BY <1>2, <1>8, <2>2, <2>3, <2>5 DEF Coming
  <2>6. QED BY <2>4, <2>5
<1>13. QED BY <1>2, <1>7, <1>8, <1>9, <1>10, <1>11, <1>12 DEF HandshakeInv

\* next_frame hands out the first frame it holds.
LEMMA FrameTaken ==
    ASSUME HandshakeTyped, NEW l, NextFrame(l), Fd(buf) = {}
    PROVE  /\ client = l /\ buf # << >> /\ buf' \in Seq(Elements) /\ Fd(buf)' = {}
           /\ Range(buf) = {Head(buf)} \cup Range(buf')
           /\ Len(buf) \in Nat \ {0} /\ Len(buf') = Len(buf) - 1
<1>1. buf \in Seq(Elements) /\ buf # << >> /\ buf' = Tail(buf) /\ client = l
  BY Streams DEF NextFrame
<1>2. /\ buf' \in Seq(Elements) /\ Range(buf) = {Head(buf)} \cup Range(buf')
      /\ Len(buf) \in Nat \ {0} /\ Len(buf') = Len(buf) - 1
  BY <1>1, Shortened
<1>3. QED BY <1>1, <1>2 DEF Fd

LEMMA AwaitAuthStep ==
    ASSUME HandshakeInv, AwaitAuth
    PROVE  HandshakeInv'
<1>1. /\ HandshakeTyped /\ OneRequest /\ FdInv /\ NextFrame("await_auth") /\ Fd(buf) = {}
      /\ client' = (IF Head(buf) = "auth_ok" THEN "authenticated" ELSE "failed")
      /\ UNCHANGED <<config, session, fds, clientRings, toServer, toClient, pushes, mishaps>>
  BY DEF HandshakeInv, AwaitAuth, FdInv
<1>2. UNCHANGED <<config, handler, authenticated, serverRings, fds, clientRings, toServer, toClient, pushes, mishaps>>
  BY <1>1 DEF session
<1>3. /\ client = "await_auth" /\ buf # << >> /\ buf' \in Seq(Elements) /\ Fd(buf)' = {}
      /\ Range(buf) = {Head(buf)} \cup Range(buf')
      /\ Len(buf) \in Nat \ {0} /\ Len(buf') = Len(buf) - 1
  BY <1>1, FrameTaken
<1>4. HandshakeTyped'
  BY <1>1, <1>2, <1>3 DEF HandshakeTyped, Clients
<1>5. CASE client' = "failed"
  <2>1. ~ Undisturbed'
    BY <1>1, <1>2, <1>3, <1>5, Calmer DEF HandshakeInv, Coming
  <2>2. QED BY <1>3, <1>4, <1>5, <2>1, ClientFailed
<1>6. CASE client' = "authenticated"
  <2>1. Head(buf) = "auth_ok"
    BY <1>1, <1>6
  <2>2. toServer = << >>
    BY <1>1, <1>3, <2>1 DEF OneRequest
  <2>3. Len(toServer) = 0 /\ Range(toServer) = {} /\ Len(toClient) \in Nat
    BY <1>1, <2>2, Streams
  <2>4. /\ client' \in BeforeSetup /\ client \in BeforeSetup
        /\ client' \notin Receiving /\ client' \notin AfterSetup
        /\ client' \notin Receiving \cup {"await_result"} /\ client' \notin {"await_init", "connected"}
        /\ client' \notin {"start", "await_auth", "failed", "receive_up", "receive_down", "await_result"}
    BY <1>3, <1>6 DEF BeforeSetup, Receiving, AfterSetup
  <2>5. OneRequest'
    BY <1>2, <2>2, <2>3, <2>4 DEF OneRequest
  <2>6. FdInv'
    BY <1>1, <1>2, <1>3, <2>4 DEF FdInv, Fd
  <2>7. pushes = 0 => Agreeing'
    <3>1. ASSUME pushes = 0 PROVE Agreeing'
      <4>1. /\ Len(toServer) + Len(toClient) + Len(buf) <= 1
            /\ serverRings = {} /\ clientRings = {}
        BY <1>1, <1>3, <2>4, <3>1 DEF HandshakeInv, Agreeing
      <4>2. Len(toClient) = 0 /\ Len(buf') = 0
        BY <1>3, <2>3, <4>1
      <4>3. toClient = << >> /\ buf' = << >>
        BY <1>1, <1>3, <4>2, Streams
      <4>4. QED BY <1>2, <2>4, <4>1, <4>3 DEF Agreeing
    <3>2. QED BY <3>1
  <2>8. Undisturbed' => Coming'
    <3>1. SUFFICES ASSUME Undisturbed' PROVE Coming'
      OBVIOUS
    <3>2. Coming
      BY <1>1, <1>2, <3>1, Calmer DEF HandshakeInv
    <3>3. authenticated = "yes"
      BY <1>1, <1>3, <3>2 DEF Coming, HandshakeTyped
    <3>4. QED BY <1>2, <1>3, <2>4, <3>2, <3>3 DEF Coming
  <2>9. QED BY <1>2, <1>4, <2>4, <2>5, <2>6, <2>7, <2>8 DEF HandshakeInv
<1>7. QED BY <1>1, <1>5, <1>6

LEMMA AwaitInitStep ==
    ASSUME HandshakeInv, AwaitInit
    PROVE  HandshakeInv'
<1>1. /\ HandshakeTyped /\ OneRequest /\ FdInv /\ NextFrame("await_init") /\ Fd(buf) = {}
      /\ UNCHANGED <<config, session, fds, clientRings, toServer, toClient, pushes, mishaps>>
  BY DEF HandshakeInv, AwaitInit, FdInv
<1>2. UNCHANGED <<config, handler, authenticated, serverRings, fds, clientRings, toServer, toClient, pushes, mishaps>>
  BY <1>1 DEF session
<1>3. /\ client = "await_init" /\ buf # << >> /\ buf' \in Seq(Elements) /\ Fd(buf)' = {}
      /\ Range(buf) = {Head(buf)} \cup Range(buf')
  BY <1>1, FrameTaken
<1>4. \/ client' = "connected"
      \/ client' = "failed" /\ Head(buf) = "error"
      \/ client' = "await_init"
  BY <1>3 DEF AwaitInit
<1>5. HandshakeTyped'
  BY <1>1, <1>2, <1>3, <1>4 DEF HandshakeTyped, Clients, Reading
<1>6. CASE client' = "failed"
  <2>1. ~ Undisturbed'
    BY <1>1, <1>2, <1>3, <1>4, <1>6, Calmer DEF HandshakeInv, Coming
  <2>2. QED BY <1>3, <1>5, <1>6, <2>1, ClientFailed
<1>7. CASE client' \in {"connected", "await_init"}
  <2>1. /\ client' \in AfterSetup /\ client \in AfterSetup
        /\ client' \notin Receiving /\ client' \notin BeforeSetup
        /\ client' \notin Receiving \cup {"await_result"}
        /\ client' \notin {"start", "await_auth", "authenticated", "failed", "receive_up", "receive_down", "await_result"}
        /\ client' \notin {"start", "authenticated"} /\ client' \notin {"start", "authenticated", "receive_up", "await_result"}
    BY <1>3, <1>7 DEF BeforeSetup, Receiving, AfterSetup
  <2>2. OneRequest'
    BY <1>1, <1>2, <1>3, <2>1 DEF OneRequest
  <2>3. FdInv'
    BY <1>1, <1>2, <1>3, <2>1 DEF FdInv, Fd
  <2>4. pushes = 0 => Agreeing'
    BY <1>2, <1>3, <2>1 DEF HandshakeInv, Agreeing
  <2>5. Undisturbed' => Coming'
    BY <1>1, <1>2, <1>3, <2>1, Calmer DEF HandshakeInv, Coming
  <2>6. QED BY <1>2, <1>5, <2>1, <2>2, <2>3, <2>4, <2>5 DEF HandshakeInv
<1>8. QED BY <1>4, <1>6, <1>7

LEMMA AwaitResultStep ==
    ASSUME HandshakeInv, AwaitResult
    PROVE  HandshakeInv'
<1>1. /\ HandshakeTyped /\ OneRequest /\ FdInv /\ NextFrame("await_result") /\ Fd(buf) = {}
      /\ UNCHANGED <<config, session, fds, toClient, pushes>>
  BY DEF HandshakeInv, AwaitResult, FdInv
<1>2. UNCHANGED <<config, handler, authenticated, serverRings, fds, toClient, pushes>>
  BY <1>1 DEF session
<1>3. /\ client = "await_result" /\ buf # << >> /\ buf' \in Seq(Elements) /\ Fd(buf)' = {}
      /\ Range(buf) = {Head(buf)} \cup Range(buf')
  BY <1>1, FrameTaken
<1>4. toServer = << >> /\ client \in AfterSetup
  BY <1>1, <1>3 DEF OneRequest, AfterSetup
<1>5. \/ /\ client' = "await_init" /\ clientRings' = Offered(Head(buf))
         /\ toServer' = Append(toServer, "initialize") /\ mishaps' = mishaps
      \/ /\ client' = "failed" /\ "mmap" \in mishaps' /\ mishaps \subseteq mishaps' /\ mishaps' \subseteq Faults
         /\ UNCHANGED <<clientRings, toServer>>
  BY <1>1 DEF AwaitResult, Mishap, HandshakeTyped
<1>6. CASE client' = "failed"
  <2>1. HandshakeTyped'
    BY <1>1, <1>2, <1>3, <1>5, <1>6 DEF HandshakeTyped, Clients
  <2>2. ~ Undisturbed'
    BY <1>5, <1>6 DEF Undisturbed
  <2>3. QED BY <1>3, <1>6, <2>1, <2>2, ClientFailed
<1>7. CASE client' = "await_init"
  <2>0. /\ clientRings' = Offered(Head(buf)) /\ mishaps' = mishaps
        /\ toServer' = Append(toServer, "initialize") /\ "initialize" \in Requests
    BY <1>5, <1>7 DEF Requests
  <2>1. toServer' \in Seq(Requests) /\ Len(toServer') = 1 /\ Range(toServer') = {"initialize"}
    BY <1>1, <1>4, <2>0, Asked
  <2>2. HandshakeTyped'
    <3>1. clientRings' \in {{}, Both} /\ client' \in Clients
      BY <1>7, <2>0 DEF Offered, Clients, Reading
    <3>2. QED BY <1>1, <1>2, <1>3, <2>0, <2>1, <3>1 DEF HandshakeTyped
  <2>3. /\ client' \in AfterSetup
        /\ client' \notin Receiving /\ client' \notin BeforeSetup
        /\ client' \notin Receiving \cup {"await_result"}
        /\ client' \notin {"start", "await_auth", "authenticated", "failed", "receive_up", "receive_down", "await_result"}
        /\ client' \notin {"start", "authenticated"} /\ client' \notin {"start", "authenticated", "receive_up", "await_result"}
    BY <1>7 DEF BeforeSetup, Receiving, AfterSetup
  <2>4. OneRequest'
    BY <2>1, <2>3 DEF OneRequest
  <2>5. FdInv'
    BY <1>1, <1>2, <1>3, <1>4, <2>3 DEF FdInv, Fd
  <2>6. pushes = 0 => Agreeing'
    <3>1. ASSUME pushes = 0 PROVE Agreeing'
      <4>1. Agreeing /\ handler \notin {"down_fd", "up_fd", "decline"}
        BY <1>1, <1>4, <3>1 DEF HandshakeInv, FdInv
      <4>2. handler \notin Results /\ Head(buf) \in Results
        BY <1>3, <4>1 DEF Agreeing
      <4>3. handler \in Quiet
        BY <1>1, <4>1, <4>2 DEF HandshakeTyped, Handlers, Quiet, Results
      <4>4. ToldRings /\ (Head(buf) = "setup_ok" => fds # {})
        BY <1>3, <4>1 DEF Agreeing
      <4>5. clientRings' = serverRings
        BY <1>3, <2>0, <4>2, <4>4 DEF ToldRings, Offered, Results, Both
      <4>6. QED BY <1>2, <1>7, <2>3, <4>3, <4>5 DEF Agreeing
    <3>2. QED BY <3>1
  <2>7. Undisturbed' => Coming'
    BY <1>1, <1>2, <1>3, <2>0, <2>3, Calmer DEF HandshakeInv, Coming
  <2>8. QED BY <1>2, <2>2, <2>3, <2>4, <2>5, <2>6, <2>7 DEF HandshakeInv
<1>8. QED BY <1>5, <1>6, <1>7

\* The next byte of the stream is taken, whatever it is.
LEMMA ByteTaken ==
    ASSUME HandshakeTyped, toClient # << >>, toClient' = Tail(toClient)
    PROVE  /\ toClient' \in Seq(Elements) /\ Head(toClient) \in Elements
           /\ Range(toClient) = {Head(toClient)} \cup Range(toClient')
           /\ Len(toClient) \in Nat \ {0} /\ Len(toClient') = Len(toClient) - 1
           /\ toClient' # << >> => Len(toClient) > 1 /\ Head(toClient') = toClient[2]
           /\ Range(toClient') = {} => toClient' = << >>
           /\ Once(toClient) =>
                 Once(toClient') /\ (Head(toClient) \in FdBytes => Head(toClient) \notin Range(toClient'))
<1>1. toClient \in Seq(Elements)
  BY Streams
<1>2. toClient' \in Seq(Elements) /\ (toClient' # << >> => Head(toClient') \in Range(toClient'))
  <2>1. Tail(toClient) \in Seq(Elements)
    BY <1>1, Shortened
  <2>2. \A q \in Seq(Elements) : q # << >> => Head(q) \in Range(q)
    BY Shortened
  <2>3. QED BY <2>1, <2>2
<1>3. QED BY <1>1, <1>2, Shortened

LEMMA ReceiveDownStep ==
    ASSUME HandshakeInv, ReceiveDown
    PROVE  HandshakeInv'
<1>1. /\ HandshakeTyped /\ OneRequest /\ FdInv /\ client = "receive_down" /\ client \in Receiving
      /\ config.shm = "yes" /\ toClient # << >> /\ toClient' = Tail(toClient)
      /\ UNCHANGED <<config, session, clientRings, buf, toServer, pushes, mishaps>>
  BY DEF HandshakeInv, ReceiveDown, ReceiveFd, Receiving
<1>2. UNCHANGED <<config, handler, authenticated, serverRings, clientRings, buf, toServer, pushes, mishaps>>
  BY <1>1 DEF session
<1>3. \/ Head(toClient) = "down_fd" /\ client' = "receive_up" /\ fds' = fds \cup {"down_fd"}
      \/ Head(toClient) = "decline" /\ client' = "await_result" /\ fds' = fds
      \/ Head(toClient) \notin {"down_fd", "decline"} /\ client' = "failed" /\ fds' = fds
  BY DEF ReceiveDown, ReceiveFd
<1>4. /\ toClient' \in Seq(Elements)
      /\ Range(toClient) = {Head(toClient)} \cup Range(toClient')
      /\ Len(toClient) \in Nat \ {0} /\ Len(toClient') = Len(toClient) - 1
      /\ toClient' # << >> => Len(toClient) > 1 /\ Head(toClient') = toClient[2]
      /\ Range(toClient') = {} => toClient' = << >>
      /\ Once(toClient) =>
             Once(toClient') /\ (Head(toClient) \in FdBytes => Head(toClient) \notin Range(toClient'))
  BY <1>1, ByteTaken
<1>5. HandshakeTyped'
  BY <1>1, <1>2, <1>3, <1>4 DEF HandshakeTyped, Clients, Receiving, Reading
<1>6. /\ Fd(buf) = {} /\ Once(toClient)
      /\ "decline" \in Fd(toClient) => Fd(toClient) = {"decline"}
      /\ toServer # << >> => Fd(toClient) = {}
      /\ handler \in {"down_fd", "decline"} => Fd(toClient) = {}
      /\ handler = "up_fd" => Fd(toClient) \subseteq {"down_fd"}
  BY <1>1 DEF FdInv
<1>7. Undisturbed' => Undisturbed /\ Coming
  BY <1>1, <1>2, Calmer DEF HandshakeInv
<1>8. CASE client' = "failed"
  <2>1. ~ Undisturbed'
    BY <1>1, <1>3, <1>7, <1>8 DEF Coming
  <2>2. QED BY <1>2, <1>5, <1>6, <1>8, <2>1, ClientFailed DEF Fd
<1>9. CASE client' = "receive_up"
  <2>1. Head(toClient) = "down_fd" /\ "down_fd" \in FdBytes /\ fds' # {}
    BY <1>3, <1>9 DEF FdBytes
  <2>2. "down_fd" \in Fd(toClient) /\ "down_fd" \notin Range(toClient')
    BY <1>4, <1>6, <2>1 DEF Fd
  <2>3. toServer = << >> /\ handler \notin {"down_fd", "decline"} /\ Fd(toClient') \subseteq {"up_fd"}
    BY <1>4, <1>6, <2>1, <2>2 DEF Fd, FdBytes
  <2>4. handler = "up_fd" => Fd(toClient') = {}
    BY <1>4, <1>6, <2>1, <2>2 DEF Fd
  <2>5. Len(toServer) = 0 /\ Range(toServer) = {}
    BY <1>1, <2>3, Streams
  <2>6. /\ client' \in Receiving /\ client' \notin BeforeSetup /\ client' \notin AfterSetup
        /\ client' \notin {"start", "await_auth", "authenticated", "failed", "receive_down", "await_result"}
        /\ client' \notin {"start", "authenticated"} /\ client' \notin {"await_init", "connected"}
    BY <1>9 DEF BeforeSetup, Receiving, AfterSetup
  <2>7. OneRequest'
    BY <1>2, <1>9, <2>3, <2>5, <2>6 DEF OneRequest
  <2>8. FdInv'
    BY <1>2, <1>4, <1>6, <1>9, <2>1, <2>3, <2>4, <2>6 DEF FdInv, Fd
  <2>9. pushes = 0 => Agreeing'
    <3>1. ASSUME pushes = 0 PROVE Agreeing'
      <4>1. Agreeing
        BY <3>1 DEF HandshakeInv
      <4>2. ToldRings => ToldRings'
        BY <1>2, <1>4 DEF ToldRings, Both
      <4>3. "decline" \notin Range(toClient')
        BY <2>3 DEF Fd, FdBytes
      <4>4. /\ buf = << >> /\ ToldRings
            /\ handler \in Busy => serverRings = {} /\ Range(toClient) \subseteq FdBytes
            /\ Range(toClient) \subseteq FdBytes \cup Results \/ Range(toClient) \subseteq {"error"}
        BY <1>1, <4>1 DEF Agreeing
      <4>5. QED BY <1>2, <1>4, <2>3, <2>6, <4>2, <4>3, <4>4 DEF Agreeing
    <3>2. QED BY <3>1
  <2>10. Undisturbed' => Coming'
    <3>1. SUFFICES ASSUME Undisturbed' PROVE Coming'
      OBVIOUS
    <3>2. /\ authenticated = "yes" /\ handler # "ended"
          /\ "error" \notin Range(toClient) \cup Range(buf)
          /\ Len(toClient) > 1 => toClient[2] = "up_fd"
          /\ handler = "up_fd" => Len(toClient) = 1
          /\ handler = "setup_ok" => Len(toClient) = 2
          /\ handler # "setup_failed"
      BY <1>1, <1>7, <2>1, <3>1 DEF Coming
    <3>3. toClient' # << >> => Head(toClient') = "up_fd"
      BY <1>4, <3>2
    <3>4. ASSUME handler = "setup_ok" PROVE Len(toClient') = 1
      <4>1. Len(toClient) = 2 /\ Len(toClient') = Len(toClient) - 1
        BY <1>4, <3>2, <3>4
      <4>2. QED BY <4>1
    <3>5. ASSUME handler = "up_fd" PROVE toClient' = << >>
      <4>1. Len(toClient) = 1 /\ (toClient' # << >> => Len(toClient) > 1)
        BY <1>4, <3>2, <3>5
      <4>2. QED BY <4>1
    <3>6. QED BY <1>2, <1>4, <1>9, <2>6, <3>2, <3>3, <3>4, <3>5 DEF Coming
  <2>11. QED BY <1>1, <1>2, <1>5, <2>7, <2>8, <2>9, <2>10 DEF HandshakeInv
<1>10. CASE client' = "await_result"
  <2>1. Head(toClient) = "decline" /\ "decline" \in FdBytes
    BY <1>3, <1>10 DEF FdBytes
  <2>2. "decline" \in Fd(toClient) /\ "decline" \notin Range(toClient')
    BY <1>4, <1>6, <2>1 DEF Fd
  <2>3. toServer = << >> /\ handler \notin {"down_fd", "up_fd", "decline"} /\ Fd(toClient') = {}
    BY <1>4, <1>6, <2>1, <2>2 DEF Fd
  <2>4. Len(toServer) = 0 /\ Range(toServer) = {}
    BY <1>1, <2>3, Streams
  <2>5. /\ client' \in AfterSetup /\ client' \notin BeforeSetup /\ client' \notin Receiving
        /\ client' \notin {"start", "await_auth", "authenticated", "failed", "receive_down", "receive_up"}
        /\ client' \notin {"start", "authenticated"} /\ client' \notin {"await_init", "connected"}
    BY <1>10 DEF BeforeSetup, Receiving, AfterSetup
  <2>6. OneRequest'
    BY <1>2, <2>3, <2>4, <2>5 DEF OneRequest
  <2>7. FdInv'
    BY <1>2, <1>6, <2>3, <2>5 DEF FdInv, Fd
  <2>8. pushes = 0 => Agreeing'
    <3>1. ASSUME pushes = 0 PROVE Agreeing'
      <4>1. Agreeing
        BY <3>1 DEF HandshakeInv
      <4>2. ToldRings => ToldRings'
        BY <1>2, <1>4 DEF ToldRings, Both
      <4>3. "decline" \in Range(toClient)
        BY <1>4, <2>1
      <4>4. /\ buf = << >> /\ ToldRings
            /\ handler \in Busy => Range(toClient) \subseteq FdBytes
            /\ Range(toClient) \subseteq FdBytes \cup Results
            /\ handler # "setup_ok" /\ "setup_ok" \notin Range(toClient)
        BY <1>1, <4>1, <4>3 DEF Agreeing
      <4>5. Range(buf) = {} /\ Range(toClient') \subseteq Results
        BY <1>1, <1>4, <2>3, <4>4, Streams DEF Fd
      <4>6. handler \in Results => toClient' = << >>
        <5>1. ASSUME handler \in Results PROVE Range(toClient') = {}
          BY <1>4, <2>3, <4>4, <5>1 DEF Fd, Busy, Results
        <5>2. QED BY <1>4, <5>1
      <4>7. QED BY <1>2, <1>4, <1>10, <2>5, <4>2, <4>4, <4>5, <4>6 DEF Agreeing
    <3>2. QED BY <3>1
  <2>9. Undisturbed' => Coming'
    BY <1>1, <1>2, <1>4, <1>7, <2>5 DEF Coming
  <2>10. QED BY <1>1, <1>2, <1>5, <2>6, <2>7, <2>8, <2>9 DEF HandshakeInv
<1>11. QED BY <1>3, <1>8, <1>9, <1>10

LEMMA ReceiveUpStep ==
    ASSUME HandshakeInv, ReceiveUp
    PROVE  HandshakeInv'
<1>1. /\ HandshakeTyped /\ OneRequest /\ FdInv /\ client = "receive_up" /\ client \in Receiving
      /\ config.shm = "yes" /\ toClient # << >> /\ toClient' = Tail(toClient) /\ toServer = << >>
      /\ UNCHANGED <<config, session, clientRings, buf, toServer, pushes, mishaps>>
  BY DEF HandshakeInv, ReceiveUp, ReceiveFd, Receiving, OneRequest
<1>2. UNCHANGED <<config, handler, authenticated, serverRings, clientRings, buf, toServer, pushes, mishaps>>
  BY <1>1 DEF session
<1>3. /\ toClient' \in Seq(Elements)
      /\ Range(toClient) = {Head(toClient)} \cup Range(toClient')
      /\ Range(toClient') = {} => toClient' = << >>
      /\ Once(toClient) =>
             Once(toClient') /\ (Head(toClient) \in FdBytes => Head(toClient) \notin Range(toClient'))
  BY <1>1, ByteTaken
<1>4. /\ Fd(buf) = {} /\ Once(toClient) /\ Fd(toClient) \subseteq {"up_fd"}
      /\ handler \notin {"down_fd", "decline"} /\ (handler = "up_fd" => Fd(toClient) = {})
  BY <1>1 DEF FdInv
<1>5. \/ Head(toClient) = "up_fd" /\ client' = "await_result" /\ fds' = fds \cup {"up_fd"}
      \/ Head(toClient) # "up_fd" /\ client' = "failed" /\ fds' = fds
  <2>1. Head(toClient) # "decline"
    BY <1>3, <1>4 DEF Fd, FdBytes
  <2>2. QED BY <2>1 DEF ReceiveUp, ReceiveFd
<1>6. HandshakeTyped'
  BY <1>1, <1>2, <1>3, <1>5 DEF HandshakeTyped, Clients, Reading
<1>7. Undisturbed' => Undisturbed /\ Coming
  BY <1>1, <1>2, Calmer DEF HandshakeInv
<1>8. CASE client' = "failed"
  <2>1. ~ Undisturbed'
    BY <1>1, <1>5, <1>7, <1>8 DEF Coming
  <2>2. QED BY <1>2, <1>4, <1>6, <1>8, <2>1, ClientFailed DEF Fd
<1>9. CASE client' = "await_result"
  <2>1. Head(toClient) = "up_fd" /\ "up_fd" \in FdBytes /\ fds' # {}
    BY <1>5, <1>9 DEF FdBytes
  <2>2. "up_fd" \in Fd(toClient) /\ "up_fd" \notin Range(toClient')
    BY <1>3, <1>4, <2>1 DEF Fd
  <2>3. handler \notin {"down_fd", "up_fd", "decline"} /\ Fd(toClient') = {}
    BY <1>3, <1>4, <2>1, <2>2 DEF Fd
  <2>4. Len(toServer) = 0 /\ Range(toServer) = {}
    BY <1>1, Streams
  <2>5. /\ client' \in AfterSetup /\ client' \notin BeforeSetup /\ client' \notin Receiving
        /\ client' \notin {"start", "await_auth", "authenticated", "failed", "receive_down", "receive_up"}
        /\ client' \notin {"start", "authenticated"} /\ client' \notin {"await_init", "connected"}
    BY <1>9 DEF BeforeSetup, Receiving, AfterSetup
  <2>6. OneRequest'
    BY <1>1, <1>2, <2>4, <2>5 DEF OneRequest
  <2>7. FdInv'
    BY <1>2, <1>4, <2>3, <2>5 DEF FdInv, Fd
  <2>8. pushes = 0 => Agreeing'
    <3>1. ASSUME pushes = 0 PROVE Agreeing'
      <4>1. Agreeing
        BY <3>1 DEF HandshakeInv
      <4>2. ToldRings => ToldRings'
        BY <1>2, <1>3 DEF ToldRings, Both
      <4>3. "up_fd" \in Range(toClient)
        BY <1>3, <2>1
      <4>4. /\ buf = << >> /\ ToldRings
            /\ handler \in Busy => Range(toClient) \subseteq FdBytes
            /\ Range(toClient) \subseteq FdBytes \cup Results
        BY <1>1, <4>1, <4>3 DEF Agreeing
      <4>5. Range(buf) = {} /\ Range(toClient') \subseteq Results
        BY <1>1, <1>3, <2>3, <4>4, Streams DEF Fd
      <4>6. handler \in Results => toClient' = << >>
        <5>1. ASSUME handler \in Results PROVE Range(toClient') = {}
          BY <1>3, <2>3, <4>4, <5>1 DEF Fd, Busy, Results
        <5>2. QED BY <1>3, <5>1
      <4>7. QED BY <1>2, <1>9, <2>1, <2>5, <4>2, <4>4, <4>5, <4>6 DEF Agreeing
    <3>2. QED BY <3>1
  <2>9. Undisturbed' => Coming'
    BY <1>1, <1>2, <1>3, <1>7, <2>5 DEF Coming
  <2>10. QED BY <1>1, <1>2, <1>6, <2>6, <2>7, <2>8, <2>9 DEF HandshakeInv
<1>10. QED BY <1>5, <1>8, <1>9

LEMMA GiveUpStep ==
    ASSUME HandshakeInv, GiveUp
    PROVE  HandshakeInv'
<1>1. /\ HandshakeTyped /\ OneRequest /\ FdInv /\ Fd(buf) = {} /\ client' = "failed"
      /\ client \in Reading \cup Receiving
      /\ UNCHANGED <<config, session, fds, clientRings, buf, toServer, toClient, pushes>>
  BY DEF HandshakeInv, GiveUp, FdInv
<1>2. UNCHANGED <<config, handler, authenticated, serverRings, fds, clientRings, buf, toServer, toClient, pushes>>
  BY <1>1 DEF session
<1>3. /\ mishaps' \subseteq Faults /\ mishaps \subseteq mishaps'
      /\ \/ handler = "ended"
         \/ client \in Receiving /\ "slow" \in mishaps'
  BY <1>1 DEF GiveUp, Mishap, HandshakeTyped
<1>4. HandshakeTyped'
  BY <1>1, <1>2, <1>3 DEF HandshakeTyped, Clients
<1>5. ~ Undisturbed'
  <2>1. SUFFICES ASSUME Undisturbed' PROVE FALSE
    OBVIOUS
  <2>2. Coming
    BY <1>1, <1>2, <1>3, <2>1, Calmer DEF HandshakeInv
  <2>3. client \in Receiving /\ "slow" \in mishaps' /\ config.shm = "yes"
    BY <1>3, <2>2 DEF Coming, HandshakeInv
  <2>4. QED BY <1>2, <2>1, <2>3 DEF Undisturbed
<1>6. QED BY <1>1, <1>2, <1>4, <1>5, ClientFailed DEF Fd

-----------------------------------------------------------------------------
\* Theorems

\* Every step keeps the invariant.
LEMMA NextHandshake ==
    ASSUME HandshakeInv, [HandshakeNext]_handshakeVars
    PROVE  HandshakeInv'
<1>1. CASE SessionStep
  BY <1>1, HandleAuthStep, HandleUnauthenticatedStep, HandleInitializeStep, HandleShmSetupStep,
     SendDownStep, SendUpStep, DeclineStep, SetUpStep DEF SessionStep
<1>2. CASE ClientStep
  BY <1>2, StartStep, ProceedStep, ReadStep, AwaitAuthStep, ReceiveDownStep, ReceiveUpStep,
     AwaitResultStep, AwaitInitStep, GiveUpStep DEF ClientStep
<1>3. CASE Push
  BY <1>3, PushStep
<1>4. CASE EndSession
  BY <1>4, EndSessionStep
<1>5. CASE UNCHANGED handshakeVars
  <2>1. UNCHANGED <<config, handler, authenticated, serverRings, client, fds, clientRings, buf,
                    toServer, toClient, pushes, mishaps>>
    BY <1>5 DEF handshakeVars, session, caller
  <2>2. HandshakeTyped' /\ OneRequest' /\ FdInv'
    BY <2>1 DEF HandshakeInv, HandshakeTyped, OneRequest, FdInv, Fd, Once
  <2>3. (Agreeing => Agreeing') /\ (Undisturbed' => Undisturbed) /\ (Coming => Coming')
    BY <2>1 DEF Agreeing, ToldRings, Undisturbed, Entitled, Coming
  <2>4. QED BY <2>1, <2>2, <2>3 DEF HandshakeInv
<1>6. QED BY <1>1, <1>2, <1>3, <1>4, <1>5 DEF HandshakeNext

\* HandshakeInv holds throughout connect_inner and the handlers it talks to, whatever the
\* tokens, whichever step of the exchange of descriptors fails, and however many
\* notifications are pushed meanwhile.
THEOREM HandshakeInductive == HandshakeSpec => []HandshakeInv
<1>1. HandshakeInit => HandshakeInv
  BY InitHandshake
<1>2. HandshakeInv /\ [HandshakeNext]_handshakeVars => HandshakeInv'
  BY NextHandshake
<1>3. QED BY <1>1, <1>2, PTL DEF HandshakeSpec

\* The bytes that carry descriptors never get into the client's FrameReader, whose reads
\* would drop what SCM_RIGHTS attaches to them: while one is under way or may still be
\* sent, the client is in recv_fd_blocking.
THEOREM NoFdInBufferAlways == HandshakeSpec => []NoFdInBuffer
<1>1. HandshakeInv => NoFdInBuffer
  BY DEF HandshakeInv, FdInv, Fd, FdBytes, Range, NoFdInBuffer
<1>2. QED BY <1>1, HandshakeInductive, PTL

\* Where no notification came in between, a connected client has mapped the rings that
\* the session uses, or neither end has any, whichever step of setup_shm failed.
THEOREM RingsAgreeAlways == HandshakeSpec => []RingsAgreeUndisturbed
<1>1. HandshakeInv => RingsAgreeUndisturbed
  <2>1. HandshakeInv => HandshakeTypeOK
    BY DEF HandshakeInv, HandshakeTyped, Handlers, Clients, HandshakeTypeOK
  <2>2. HandshakeInv /\ pushes = 0 /\ client = "connected" => clientRings = serverRings
    BY DEF HandshakeInv, Agreeing
  <2>3. QED BY <2>1, <2>2 DEF RingsAgreeUndisturbed
<1>2. QED BY <1>1, HandshakeInductive, PTL

\* A client whose token is right, or that needs none, is refused only when something
\* broke or, with connect_shm, when a notification came in between; and one for which the
\* server had no memfd connects without rings.
THEOREM EntitledConnectAlways == HandshakeSpec => []EntitledConnect
<1>1. HandshakeInv => EntitledConnect
  <2>1. SUFFICES ASSUME HandshakeInv, client = "failed", Entitled
                 PROVE  (mishaps = {} => config.shm = "yes" /\ pushes > 0) /\ (pushes = 0 => mishaps # {"memfd"})
    BY DEF EntitledConnect
  <2>2. ~ Undisturbed /\ pushes \in Nat
    BY <2>1 DEF HandshakeInv, Coming, HandshakeTyped
  <2>3. QED BY <2>1, <2>2 DEF Undisturbed
<1>2. QED BY <1>1, HandshakeInductive, PTL
=============================================================================

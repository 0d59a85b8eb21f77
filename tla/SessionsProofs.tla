--------------------------- MODULE SessionsProofs ---------------------------
(***************************************************************************)
(* Proofs about Sessions, for any clients and any room in vector_threads.  *)
(***************************************************************************)
EXTENDS Sessions, SequenceTheorems, TLAPS

(* Types. *)

LEMMA InitTypeOK == Init => TypeOK
  <1> SUFFICES ASSUME Init PROVE TypeOK
    OBVIOUS
  <1>1. Len(session) = 0 /\ Len(accepted) = 0 /\ DOMAIN session = {} /\ DOMAIN socket = {}
    BY EmptySeq DEF Init
  <1>2. socket \in [DOMAIN session -> 0..Len(accepted)]
    BY <1>1 DEF Init
  <1>3. /\ accepted \in Seq(Client)
        /\ backlog \in Seq(Client)
        /\ session \in Seq({"starting", "serving", "applying", "ended"})
        /\ inbox \in [Client -> Seq({"request", "e"})]
    BY DEF Init
  <1> QED
    BY <1>1, <1>2, <1>3, MaxClientsAssumption DEF Init, TypeOK, no_threads

Status == {"starting", "serving", "applying", "ended"}

\* A thread's state changes and the sequence of threads stays a sequence.
LEMMA SessionTypes ==
  ASSUME TypeOK, NEW k, NEW from \in Status, NEW to \in Status, ThreadStep(k, from, to)
  PROVE  /\ session' \in Seq(Status)
         /\ Len(session') = Len(session) /\ DOMAIN session' = DOMAIN session
         /\ k \in 1..Len(session)
         /\ session'[k] = to
         /\ \A j \in DOMAIN session \ {k} : session'[j] = session[j]
  <1>1. session \in Seq(Status) /\ k \in 1..Len(session)
    BY LenProperties DEF TypeOK, ThreadStep, Status
  <1>2. session' = [session EXCEPT ![k] = to]
    BY DEF ThreadStep
  <1> QED
    BY <1>1, <1>2, ExceptSeq, LenProperties

LEMMA ThreadTypes ==
  ASSUME TypeOK, NEW k, applyComands(k)
  PROVE  TypeOK'
  <1>1. CASE Start(k)
    <2>1. ThreadStep(k, "starting", "serving") /\ socket' = [socket EXCEPT ![k] = newsockfd]
      BY <1>1 DEF Start
    <2>2. socket' \in [DOMAIN session' -> 0..Len(accepted)]
      BY <2>1, SessionTypes DEF Status, TypeOK
    <2> QED
      BY <1>1, <2>1, <2>2, SessionTypes DEF Start, Status, ThreadStep, mainVars, TypeOK
  <1>2. CASE Receive(k)
    <2>1. PICK to \in Status : ThreadStep(k, "serving", to)
      BY <1>2 DEF Receive, Status
    <2>2. Peer(k) \in Client
      <3>1. socket[k] \in 1..Len(accepted)
        BY <1>2 DEF Receive, TypeOK
      <3> QED
        BY <3>1, ElementOfSeq DEF Peer, TypeOK
    <2>3. inbox' \in [Client -> Seq({"request", "e"})]
      <3>1. Tail(inbox[Peer(k)]) \in Seq({"request", "e"})
        BY <1>2, <2>2, HeadTailProperties DEF Receive, TypeOK
      <3> QED
        BY <1>2, <3>1 DEF Receive, TypeOK
    <2> QED
      BY <1>2, <2>1, <2>3, SessionTypes DEF Receive, Status, ThreadStep, mainVars, TypeOK
  <1>3. CASE Respond(k)
    <2>1. ThreadStep(k, "applying", "serving")
      BY <1>3 DEF Respond
    <2> QED
      BY <1>3, <2>1, SessionTypes DEF Respond, Status, ThreadStep, mainVars, TypeOK
  <1>4. CASE Spin(k)
    BY <1>4 DEF Spin, vars, mainVars, threadVars, clientVars, TypeOK
  <1> QED
    BY <1>1, <1>2, <1>3, <1>4 DEF applyComands

LEMMA ClientTypes ==
  ASSUME TypeOK, NEW c \in Client, tfsMount(c) \/ Ask(c) \/ tfsUnmount(c) \/ Die(c)
  PROVE  TypeOK'
  <1>1. /\ client' \in [Client -> {"new", "mounted", "waiting", "gone"}]
        /\ UNCHANGED <<process, mainVars, threadVars>>
    BY DEF TypeOK, ClientStep, tfsMount, Ask, tfsUnmount, Die
  <1>2. backlog' \in Seq(Client)
    <2>1. backlog' = Append(backlog, c) \/ backlog' = backlog
      BY DEF tfsMount, Ask, tfsUnmount, Die
    <2>2. backlog \in Seq(Client) /\ Append(backlog, c) \in Seq(Client)
      BY AppendProperties DEF TypeOK
    <2> QED
      BY <2>1, <2>2
  <1>3. inbox' \in [Client -> Seq({"request", "e"})]
    <2>1. inbox' = inbox \/ \E m \in {"request", "e"} : Send(c, m)
      BY DEF tfsMount, Ask, tfsUnmount, Die
    <2>2. ASSUME NEW m \in {"request", "e"}, Send(c, m)
          PROVE  inbox' \in [Client -> Seq({"request", "e"})]
      <3>1. Append(inbox[c], m) \in Seq({"request", "e"})
        BY AppendProperties DEF TypeOK
      <3> QED
        BY <2>2, <3>1 DEF Send, TypeOK
    <2> QED
      BY <2>1, <2>2 DEF TypeOK
  <1> QED
    BY <1>1, <1>2, <1>3 DEF TypeOK, mainVars, threadVars

\* A new thread joins the sequence at its end.
LEMMA ThreadCreated ==
  ASSUME TypeOK, NEW next, CreateThread(next)
  PROVE  /\ session' \in Seq(Status)
         /\ Len(session') = Len(session) + 1
         /\ session'[Len(session) + 1] = "starting"
         /\ \A j \in 1..Len(session) : session'[j] = session[j]
         /\ socket' \in [1..(Len(session) + 1) -> 0..Len(accepted)]
         /\ \A j \in 1..Len(session) : socket'[j] = socket[j]
  <1>1. session \in Seq(Status) /\ session' = Append(session, "starting") /\ "starting" \in Status
    BY DEF TypeOK, CreateThread, Status
  <1>2. socket \in Seq(0..Len(accepted)) /\ Len(socket) = Len(session)
    <2>1. DOMAIN session = 1..Len(session) /\ Len(session) \in Nat
      BY <1>1, LenProperties
    <2>2. socket \in [1..Len(session) -> 0..Len(accepted)]
      BY <2>1 DEF TypeOK
    <2> QED
      BY <2>1, <2>2, LenProperties
  <1>3. socket' = Append(socket, 0) /\ 0 \in 0..Len(accepted)
    BY LenProperties DEF TypeOK, CreateThread
  <1>4. /\ socket' \in Seq(0..Len(accepted))
        /\ Len(socket') = Len(session) + 1
        /\ \A j \in 1..Len(session) : socket'[j] = socket[j]
    BY <1>2, <1>3, AppendProperties
  <1> QED
    BY <1>1, <1>4, AppendProperties, LenProperties

LEMMA MainTypes ==
  ASSUME TypeOK, socket_create \/ Fail \/ SIGINT \/ end_server
  PROVE  TypeOK'
  <1>1. CASE Accept("pthread_create") /\ process = "running"
    <2>1. backlog \in Seq(Client) /\ backlog # <<>>
      BY <1>1 DEF TypeOK, Accept
    <2>2. Head(backlog) \in Client /\ Tail(backlog) \in Seq(Client)
      BY <2>1, HeadTailProperties
    <2>3. accepted' \in Seq(Client) /\ Len(accepted') = Len(accepted) + 1 /\ Len(accepted) \in Nat
      BY <1>1, <2>2, AppendProperties, LenProperties DEF TypeOK, Accept
    <2>4. newsockfd' \in 0..Len(accepted') /\ socket' \in [DOMAIN session' -> 0..Len(accepted')]
      BY <1>1, <2>3 DEF TypeOK, Accept, threadVars
    <2> QED
      BY <1>1, <2>2, <2>3, <2>4 DEF TypeOK, Accept, threadVars
  <1>2. CASE CreateThread("accept")
    <2>1. Len(session) \in Nat
      BY LenProperties DEF TypeOK
    <2>2. vector_threads' \in [0..(MAX_CLIENTS - 1) -> 0..Len(session')]
      <3> DEFINE k == Len(session) + 1
      <3>1. /\ vector_threads \in [0..(MAX_CLIENTS - 1) -> 0..Len(session)]
            /\ Len(session') = k
        BY <1>2, ThreadCreated DEF TypeOK
      <3>2. \/ vector_threads' = vector_threads
            \/ vector_threads' = [vector_threads EXCEPT ![k - 1] = k]
        BY <1>2 DEF CreateThread
      <3> QED
        BY <2>1, <3>1, <3>2
    <2>3. DOMAIN session' = 1..(Len(session) + 1)
      BY <1>2, ThreadCreated, LenProperties
    <2>4. process' \in {"running", "crashed", process}
      BY <1>2 DEF CreateThread
    <2> QED
      BY <1>2, <2>2, <2>3, <2>4, ThreadCreated DEF TypeOK, CreateThread, clientVars, Status
  <1>3. CASE Join
    BY <1>3, MaxClientsAssumption DEF TypeOK, Join, threadVars, clientVars
  <1>4. CASE Fail \/ SIGINT \/ (process' = "exited" /\ UNCHANGED <<mainVars, threadVars, clientVars>>)
    BY <1>4 DEF TypeOK, Fail, SIGINT, mainVars, threadVars, clientVars
  <1> QED
    BY <1>1, <1>2, <1>3, <1>4 DEF socket_create, end_server

LEMMA NextTypeOK == TypeOK /\ [Next]_vars => TypeOK'
  <1> SUFFICES ASSUME TypeOK, [Next]_vars PROVE TypeOK'
    OBVIOUS
  <1>1. CASE UNCHANGED vars \/ Ended
    BY <1>1 DEF Ended, TypeOK, vars, mainVars, threadVars, clientVars
  <1> QED
    BY <1>1, ThreadTypes, ClientTypes, MainTypes DEF Next

\* The state of the server and of its clients stays in the types given for it,
\* whatever connects, dies, or interrupts.
THEOREM TypeCorrect == Spec => []TypeOK
  BY InitTypeOK, NextTypeOK, PTL DEF Spec

-----------------------------------------------------------------------------
(* The connection a thread serves. *)

\* There is a connection for each thread, one more while the thread for the
\* last one is being created, and newsockfd is the last.
Connections ==
  /\ newsockfd = Len(accepted)
  /\ Len(session) <= Len(accepted)
  /\ main = "pthread_create" => Len(session) < Len(accepted)

SInv == TypeOK /\ Connections /\ SocketsRunAhead

LEMMA InitSInv == Init => SInv
  <1> SUFFICES ASSUME Init PROVE SInv
    OBVIOUS
  <1>1. Len(session) = 0 /\ Len(accepted) = 0 /\ DOMAIN session = {}
    BY EmptySeq DEF Init
  <1> QED
    BY <1>1, InitTypeOK DEF SInv, Connections, SocketsRunAhead, Init

LEMMA NextSInv == SInv /\ [Next]_vars => SInv'
  <1> SUFFICES ASSUME SInv, [Next]_vars PROVE SInv'
    OBVIOUS
  <1> USE DEF SInv
  <1>1. TypeOK'
    BY NextTypeOK
  <1>2. /\ Len(session) \in Nat /\ Len(accepted) \in Nat
        /\ DOMAIN session = 1..Len(session)
    BY LenProperties DEF TypeOK
  <1>3. CASE Accept("pthread_create") /\ main = "accept"
    <2>1. accepted' = Append(accepted, Head(backlog)) /\ Head(backlog) \in Client
      BY <1>3, HeadTailProperties DEF Accept, TypeOK
    <2>2. Len(accepted') = Len(accepted) + 1
      BY <2>1, AppendProperties DEF TypeOK
    <2>3. newsockfd' = Len(accepted) + 1 /\ session' = session /\ socket' = socket
      BY <1>3 DEF Accept, threadVars
    <2> QED
      BY <1>1, <1>2, <2>2, <2>3 DEF Connections, SocketsRunAhead
  <1>4. CASE CreateThread("accept") /\ main = "pthread_create"
    <2>1. /\ newsockfd' = newsockfd /\ accepted' = accepted /\ main' = "accept"
          /\ DOMAIN session' = 1..(Len(session) + 1)
      BY <1>4, ThreadCreated, LenProperties DEF CreateThread
    <2>2. SocketsRunAhead'
      BY <1>2, <1>4, <2>1, ThreadCreated DEF SocketsRunAhead
    <2> QED
      BY <1>1, <1>2, <1>4, <2>1, <2>2, ThreadCreated DEF Connections
  <1>5. ASSUME NEW k, applyComands(k)
        PROVE  Connections' /\ SocketsRunAhead'
    <2>1. CASE Start(k)
      <3>1. ThreadStep(k, "starting", "serving") /\ socket' = [socket EXCEPT ![k] = newsockfd]
        BY <2>1 DEF Start
      <3>2. /\ Len(session') = Len(session) /\ DOMAIN session' = DOMAIN session
            /\ k \in 1..Len(session)
            /\ \A j \in DOMAIN session \ {k} : session'[j] = session[j]
        BY <3>1, SessionTypes DEF Status
      <3>3. UNCHANGED <<main, newsockfd, accepted>>
        BY <3>1 DEF ThreadStep, mainVars
      <3>4. socket'[k] = Len(accepted) /\ \A j \in DOMAIN session \ {k} : socket'[j] = socket[j]
        BY <1>2, <3>1, <3>2 DEF TypeOK, Connections
      <3> QED
        BY <1>2, <3>2, <3>3, <3>4 DEF Connections, SocketsRunAhead
    <2>2. CASE Receive(k) \/ Respond(k)
      <3>1. PICK from \in Status \ {"starting"}, to \in Status \ {"starting"} : ThreadStep(k, from, to)
        BY <2>2 DEF Receive, Respond, Status
      <3>2. /\ Len(session') = Len(session) /\ DOMAIN session' = DOMAIN session
            /\ \A j \in DOMAIN session \ {k} : session'[j] = session[j]
            /\ session[k] # "starting"
        BY <3>1, SessionTypes DEF ThreadStep
      <3>3. UNCHANGED <<main, newsockfd, accepted, socket>>
        BY <2>2, <3>1 DEF Receive, Respond, ThreadStep, mainVars
      <3> QED
        BY <3>2, <3>3 DEF Connections, SocketsRunAhead
    <2>3. CASE Spin(k)
      BY <2>3 DEF Spin, vars, mainVars, threadVars, Connections, SocketsRunAhead
    <2> QED
      BY <2>1, <2>2, <2>3, <1>5 DEF applyComands
  <1>6. CASE UNCHANGED <<newsockfd, accepted, session, socket>> /\ main' \in {main, "end_server"}
    BY <1>1, <1>6 DEF Connections, SocketsRunAhead
  <1>7. CASE Next
    <2>1. ASSUME NEW c \in Client, tfsMount(c) \/ Ask(c) \/ tfsUnmount(c) \/ Die(c)
          PROVE  UNCHANGED <<newsockfd, accepted, session, socket, main>>
      BY <2>1 DEF tfsMount, Ask, tfsUnmount, Die, ClientStep, mainVars, threadVars
    <2>2. Fail \/ SIGINT \/ end_server \/ Ended =>
            UNCHANGED <<newsockfd, accepted, session, socket>> /\ main' \in {main, "end_server"}
      BY DEF Fail, SIGINT, end_server, Join, Ended, vars, mainVars, threadVars
    <2> QED
      BY <1>1, <1>3, <1>4, <1>5, <1>6, <1>7, <2>1, <2>2 DEF Next, socket_create
  <1>8. CASE UNCHANGED vars
    BY <1>1, <1>6, <1>8 DEF vars, mainVars, threadVars
  <1> QED
    BY <1>7, <1>8

\* The thread created for a connection serves it or a later one, never an
\* earlier one and never none, though all of them read the one newsockfd
\* (main.c:248).
THEOREM SocketsOnlyRunAhead == Spec => []SocketsRunAhead
  <1>1. SInv => SocketsRunAhead
    BY DEF SInv
  <1> QED
    BY <1>1, InitSInv, NextSInv, PTL DEF Spec

-----------------------------------------------------------------------------
(* The end. *)

\* Each thread that fits has the entry before its number, main joins nothing
\* before it is interrupted, and what it has joined has ended.
Joins ==
  /\ \A j \in 0..(MAX_CLIENTS - 1) : vector_threads[j] = IF j < Len(session) THEN j + 1 ELSE 0
  /\ main # "end_server" => joined = 0
  /\ \A j \in 0..(joined - 1) : j < Len(session) => session[j + 1] = "ended"
  /\ process = "exited" => joined = MAX_CLIENTS

JInv == TypeOK /\ Joins

LEMMA InitJInv == Init => JInv
  <1> SUFFICES ASSUME Init PROVE JInv
    OBVIOUS
  <1>1. Len(session) = 0
    BY EmptySeq DEF Init
  <1> QED
    BY <1>1, InitTypeOK DEF JInv, Joins, Init, no_threads

LEMMA NextJInv == JInv /\ [Next]_vars => JInv'
  <1> SUFFICES ASSUME JInv, [Next]_vars PROVE JInv'
    OBVIOUS
  <1> USE DEF JInv
  <1>1. TypeOK'
    BY NextTypeOK
  <1>2. /\ Len(session) \in Nat /\ DOMAIN session = 1..Len(session)
        /\ joined \in 0..MAX_CLIENTS
    BY LenProperties DEF TypeOK
  <1>3. CASE CreateThread("accept") /\ main = "pthread_create"
    <2> DEFINE k == Len(session) + 1
    <2>1. /\ joined = 0 /\ joined' = 0 /\ main' = "accept"
          /\ process' # "exited" \/ process' = process
          /\ Len(session') = k
      BY <1>3, ThreadCreated DEF CreateThread, Joins
    <2>2. ASSUME NEW j \in 0..(MAX_CLIENTS - 1)
          PROVE  vector_threads'[j] = IF j < k THEN j + 1 ELSE 0
      <3>1. CASE k <= MAX_CLIENTS
        <4>1. vector_threads' = [vector_threads EXCEPT ![k - 1] = k]
          BY <1>3, <3>1 DEF CreateThread
        <4>2. /\ vector_threads \in [0..(MAX_CLIENTS - 1) -> 0..Len(session)]
              /\ vector_threads[j] = IF j < Len(session) THEN j + 1 ELSE 0
          BY DEF TypeOK, Joins
        <4>3. vector_threads'[j] = IF j = k - 1 THEN k ELSE vector_threads[j]
          BY <4>1, <4>2
        <4>4. j \in Int
          BY MaxClientsAssumption
        <4>5. Len(session) \in Int
          BY <1>2
        <4>6. j < k <=> j = k - 1 \/ j < Len(session)
          BY <4>4, <4>5
        <4>7. CASE j = k - 1
          BY <4>3, <4>7, <4>6
        <4>8. CASE j # k - 1
          BY <4>2, <4>3, <4>8, <4>6
        <4> QED
          BY <4>7, <4>8
      <3>2. CASE ~(k <= MAX_CLIENTS)
        <4>1. vector_threads' = vector_threads
          BY <1>3, <3>2 DEF CreateThread
        <4> QED
          BY <1>2, <3>2, <4>1, MaxClientsAssumption DEF Joins
      <3> QED
        BY <3>1, <3>2
    <2> QED
      BY <1>1, <2>1, <2>2 DEF Joins
  <1>4. ASSUME NEW k, applyComands(k)
        PROVE  Joins'
    <2>1. CASE Spin(k)
      BY <2>1 DEF Spin, vars, mainVars, threadVars, Joins
    <2>2. CASE Start(k) \/ Receive(k) \/ Respond(k)
      <3>1. PICK from \in Status \ {"ended"}, to \in Status : ThreadStep(k, from, to)
        BY <2>2 DEF Start, Receive, Respond, Status
      <3>2. /\ Len(session') = Len(session)
            /\ \A j \in DOMAIN session \ {k} : session'[j] = session[j]
            /\ session[k] # "ended"
        BY <3>1, SessionTypes DEF ThreadStep
      <3>3. UNCHANGED <<vector_threads, joined, main>> /\ process' # "exited"
        BY <2>2, <3>1 DEF Start, Receive, Respond, ThreadStep, mainVars
      <3>4. ASSUME NEW j \in 0..(joined' - 1), j < Len(session')
            PROVE  session'[j + 1] = "ended"
        BY <1>2, <3>2, <3>3, <3>4 DEF Joins
      <3> QED
        BY <3>2, <3>3, <3>4 DEF Joins
    <2> QED
      BY <1>4, <2>1, <2>2 DEF applyComands
  <1>5. CASE Join /\ main = "end_server" /\ process = "running"
    <2>1. /\ joined \in 0..(MAX_CLIENTS - 1) /\ joined' = joined + 1
          /\ UNCHANGED <<main, vector_threads, session>>
          /\ process' # "exited"
      BY <1>2, <1>5, MaxClientsAssumption DEF Join, threadVars
    <2>2. joined < Len(session) => session[joined + 1] = "ended"
      BY <1>2, <1>5, <2>1 DEF Join, Joins
    <2> QED
      BY <1>1, <1>2, <1>5, <2>1, <2>2 DEF Joins
  <1>6. CASE AllJoined /\ UNCHANGED <<mainVars, threadVars>>
    BY <1>1, <1>6 DEF Joins, AllJoined, mainVars, threadVars
  <1>7. CASE /\ UNCHANGED <<vector_threads, joined, session>>
             /\ main' # "end_server" => main # "end_server"
             /\ process' = "exited" => process = "exited"
    BY <1>1, <1>7 DEF Joins
  <1>8. CASE Next
    <2>1. ASSUME NEW c \in Client, tfsMount(c) \/ Ask(c) \/ tfsUnmount(c) \/ Die(c)
          PROVE  UNCHANGED <<vector_threads, joined, session, main, process>>
      BY <2>1 DEF tfsMount, Ask, tfsUnmount, Die, ClientStep, mainVars, threadVars
    <2>2. CASE \E c \in Client : tfsMount(c) \/ Ask(c) \/ tfsUnmount(c) \/ Die(c)
      BY <1>7, <2>1, <2>2
    <2>3. CASE Fail \/ SIGINT \/ Ended \/ (Accept("pthread_create") /\ main = "accept")
      BY <1>7, <2>3 DEF Fail, SIGINT, Ended, Accept, vars, mainVars, threadVars
    <2>4. CASE end_server
      BY <1>5, <1>6, <2>4 DEF end_server
    <2>5. CASE socket_create
      BY <1>3, <2>3, <2>5 DEF socket_create
    <2> QED
      BY <1>1, <1>4, <1>8, <2>2, <2>3, <2>4, <2>5 DEF Next
  <1>9. CASE UNCHANGED vars
    BY <1>7, <1>9 DEF vars, mainVars, threadVars
  <1> QED
    BY <1>8, <1>9

\* When the server has freed the tree and exited no session thread is left, as
\* long as all of them have fitted in vector_threads (main.c:340, 353).
THEOREM NothingFreedInUse == Spec => []NoSessionAtShutdown
  <1>1. JInv => NoSessionAtShutdown
    <2> SUFFICES ASSUME JInv, process = "exited", Len(session) <= MAX_CLIENTS,
                        NEW k \in DOMAIN session
                 PROVE  session[k] = "ended"
      BY DEF NoSessionAtShutdown
    <2>1. Len(session) \in Nat /\ DOMAIN session = 1..Len(session)
      BY LenProperties DEF JInv, TypeOK
    <2>2. joined = MAX_CLIENTS /\ k - 1 \in 0..(joined - 1) /\ k - 1 < Len(session)
      BY <2>1, MaxClientsAssumption DEF JInv, Joins
    <2>3. session[(k - 1) + 1] = "ended"
      BY <2>2 DEF JInv, Joins
    <2> QED
      BY <2>1, <2>3
  <1> QED
    BY <1>1, InitJInv, NextJInv, PTL DEF Spec
=============================================================================

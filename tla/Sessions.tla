------------------------------ MODULE Sessions ------------------------------
(***************************************************************************)
(* Connections, session threads and shutdown of the third program: the     *)
(* accept loop of socket_create, the life of a session thread              *)
(* (applyComands; what it does with a request is in module Server), the    *)
(* end by SIGINT in end_server, and the clients' side of a connection      *)
(* (api.c).                                                                *)
(*                                                                         *)
(* Connections are numbered in the order they are accepted, threads in the *)
(* order they are created; the thread k is created for the connection k.   *)
(***************************************************************************)
EXTENDS Integers, Sequences, FiniteSets

CONSTANTS
  Client,      \* clients; each connects once
  MAX_CLIENTS  \* room in vector_threads

ASSUME ClientAssumption == IsFiniteSet(Client)
ASSUME MaxClientsAssumption == MAX_CLIENTS \in Nat \ {0}

VARIABLES
  process,         \* "running", or how it has ended
  main,            \* where the main thread is
  accepted,        \* the clients accepted so far, by connection
  newsockfd,       \* the connection accepted last; 0 before there is one
  vector_threads,  \* the threads to join; 0 where there is none
  joined,          \* how many entries end_server has joined
  session,         \* the state of each thread
  socket,          \* the connection of each thread (its local userid)
  backlog,         \* clients connected and not accepted yet
  client,          \* the state of each client
  inbox            \* what each client has sent and no thread has read

threadVars == <<session, socket>>
mainVars == <<main, accepted, newsockfd, vector_threads, joined>>
clientVars == <<backlog, client, inbox>>
vars == <<process, mainVars, threadVars, clientVars>>

TypeOK ==
  /\ process \in {"running", "exited", "error", "crashed", "killed"}
  /\ main \in {"accept", "pthread_create", "end_server"}
  /\ accepted \in Seq(Client)
  /\ newsockfd \in 0..Len(accepted)
  /\ vector_threads \in [0..(MAX_CLIENTS - 1) -> 0..Len(session)]
  /\ joined \in 0..MAX_CLIENTS
  /\ session \in Seq({"starting", "serving", "applying", "ended"})
  /\ socket \in [DOMAIN session -> 0..Len(accepted)]
  /\ backlog \in Seq(Client)
  /\ client \in [Client -> {"new", "mounted", "waiting", "gone"}]
  /\ inbox \in [Client -> Seq({"request", "e"})]

\* (a fault: -1 is taken for no thread)
minus_one_threads == vector_threads = [n \in 0..(MAX_CLIENTS - 1) |-> -1]
no_threads == vector_threads = [n \in 0..(MAX_CLIENTS - 1) |-> 0]

Init ==
  /\ process = "running"
  /\ main = "accept"
  /\ accepted = <<>>
  /\ newsockfd = 0
  /\ no_threads
  /\ joined = 0
  /\ session = <<>>
  /\ socket = <<>>
  /\ backlog = <<>>
  /\ client = [c \in Client |-> "new"]
  /\ inbox = [c \in Client |-> <<>>]
-----------------------------------------------------------------------------
(* Clients. *)

ClientStep(c, from, to) ==
  /\ process = "running"
  /\ client[c] = from
  /\ client' = [client EXCEPT ![c] = to]
  /\ UNCHANGED <<process, mainVars, threadVars>>

Send(c, m) == inbox' = [inbox EXCEPT ![c] = Append(@, m)]

\* connect returns before the server accepts.
tfsMount(c) ==
  /\ ClientStep(c, "new", "mounted")
  /\ backlog' = Append(backlog, c)
  /\ UNCHANGED inbox

\* Every other call writes one request and waits for the answer.
Ask(c) ==
  /\ ClientStep(c, "mounted", "waiting")
  /\ Send(c, "request")
  /\ UNCHANGED backlog

tfsUnmount(c) ==
  /\ ClientStep(c, "mounted", "gone")
  /\ Send(c, "e")
  /\ UNCHANGED backlog

\* The client's process ends without tfsUnmount, be it in the middle of a call.
Die(c) ==
  /\ ClientStep(c, "mounted", "gone") \/ ClientStep(c, "waiting", "gone")
  /\ UNCHANGED <<backlog, inbox>>
-----------------------------------------------------------------------------
(* Session threads. *)

Peer(k) == accepted[socket[k]]

ThreadStep(k, from, to) ==
  /\ process = "running"
  /\ k \in DOMAIN session
  /\ session[k] = from
  /\ session' = [session EXCEPT ![k] = to]
  /\ UNCHANGED <<mainVars, backlog>>

\* int userid = *(int*) args: the argument is the address of newsockfd.
Start(k) ==
  /\ ThreadStep(k, "starting", "serving")
  /\ socket' = [socket EXCEPT ![k] = newsockfd]
  /\ UNCHANGED <<process, client, inbox>>

Receive(k) ==
  /\ k \in DOMAIN session /\ socket[k] # 0
  /\ inbox[Peer(k)] # <<>>
  /\ ThreadStep(k, "serving", IF Head(inbox[Peer(k)]) = "e" THEN "ended" ELSE "applying")
  /\ inbox' = [inbox EXCEPT ![Peer(k)] = Tail(@)]
  /\ UNCHANGED <<process, socket, client>>

\* (a fault: no answer is sent)
SilentRespond(k) ==
  /\ ThreadStep(k, "applying", "serving")
  /\ UNCHANGED <<process, socket, client, inbox>>

\* The answer.  To a client that is gone it raises SIGPIPE, which nobody blocks.
Respond(k) ==
  /\ ThreadStep(k, "applying", "serving")
  /\ UNCHANGED <<socket, inbox>>
  /\ IF client[Peer(k)] = "gone"
     THEN process' = "killed" /\ UNCHANGED client
     ELSE client' = [client EXCEPT ![Peer(k)] = "mounted"] /\ UNCHANGED process

\* The connection is closed and read to its end.
AtEOF(k) ==
  /\ session[k] = "serving"
  /\ socket[k] # 0
  /\ client[Peer(k)] = "gone"
  /\ inbox[Peer(k)] = <<>>

\* read answers 0, which is no request: the loop goes round.
Spin(k) ==
  /\ process = "running"
  /\ k \in DOMAIN session
  /\ AtEOF(k)
  /\ UNCHANGED vars

applyComands(k) == Start(k) \/ Receive(k) \/ Respond(k) \/ Spin(k)
-----------------------------------------------------------------------------
(* The main thread. *)

\* accept or pthread_create fails, socket_create returns and so does main.
Fail ==
  /\ process = "running"
  /\ main # "end_server"
  /\ process' = "error"
  /\ UNCHANGED <<mainVars, threadVars, clientVars>>

Accept(next) ==
  /\ backlog # <<>>
  /\ accepted' = Append(accepted, Head(backlog))
  /\ newsockfd' = Len(accepted) + 1
  /\ backlog' = Tail(backlog)
  /\ main' = next
  /\ UNCHANGED <<process, vector_threads, joined, threadVars, client, inbox>>

\* An entry past the last of vector_threads is somebody else's memory.
CreateThread(next) ==
  LET k == Len(session) + 1 IN
  /\ session' = Append(session, "starting")
  /\ socket' = Append(socket, 0)
  /\ main' = next
  /\ IF k <= MAX_CLIENTS
     THEN vector_threads' = [vector_threads EXCEPT ![k - 1] = k] /\ UNCHANGED process
     ELSE process' \in {"running", "crashed"} /\ UNCHANGED vector_threads
  /\ UNCHANGED <<accepted, newsockfd, joined, clientVars>>

\* A fault: the thread is created before its connection is accepted.
socket_create_early ==
  /\ process = "running"
  /\ \/ main = "accept" /\ backlog # <<>> /\ CreateThread("pthread_create")
     \/ main = "pthread_create" /\ Accept("accept")

socket_create ==
  /\ process = "running"
  /\ \/ main = "accept" /\ Accept("pthread_create")
     \/ main = "pthread_create" /\ CreateThread("accept")

\* The handler runs in the main thread, wherever that is in its loop, and does
\* not return: the system gives the signal to the main thread as long as that
\* does not block it, and session threads do.
SIGINT ==
  /\ process = "running"
  /\ main # "end_server"
  /\ main' = "end_server"
  /\ UNCHANGED <<process, accepted, newsockfd, vector_threads, joined, threadVars, clientVars>>

\* (faults: the last entry is not joined, one past the last is waited for)
JoinedButOne == joined = MAX_CLIENTS - 1
JoinedPast == joined = MAX_CLIENTS + 1
AllJoined == joined = MAX_CLIENTS

\* To join an entry that never was a thread is undefined: it follows the null
\* pointer, or is refused.
Join ==
  /\ joined < MAX_CLIENTS
  /\ joined' = joined + 1
  /\ LET k == vector_threads[joined] IN
     \/ k # 0 /\ session[k] = "ended" /\ UNCHANGED process
     \/ k = 0 /\ process' \in {"running", "crashed"}
  /\ UNCHANGED <<main, accepted, newsockfd, vector_threads, threadVars, clientVars>>

\* With every thread joined the tree is printed and everything freed.
end_server ==
  /\ process = "running"
  /\ main = "end_server"
  /\ \/ ~AllJoined /\ Join
     \/ /\ AllJoined
        /\ process' = "exited"
        /\ UNCHANGED <<mainVars, threadVars, clientVars>>

Ended == process # "running" /\ UNCHANGED vars

Thread == 1..Cardinality(Client)

Next ==
  \/ socket_create \/ Fail \/ SIGINT \/ end_server \/ Ended
  \/ \E k \in Thread : applyComands(k)
  \/ \E c \in Client : tfsMount(c) \/ Ask(c) \/ tfsUnmount(c) \/ Die(c)

Spec == Init /\ [][Next]_vars

\* Every thread runs when it can, and a client whose calls are answered
\* unmounts in the end; nobody has to connect, to die, to fail or to interrupt.
FairSpec ==
  /\ Spec
  /\ WF_vars(socket_create) /\ WF_vars(end_server)
  /\ \A k \in Thread : WF_vars(applyComands(k))
  /\ \A c \in Client : SF_vars(tfsUnmount(c))
-----------------------------------------------------------------------------
(* Properties. *)

\* A session thread reads the shared newsockfd when it gets to it (main.c:248),
\* by when later connections may have overwritten it: it serves its own client
\* or a later one, never an earlier one and never none.
SocketsRunAhead ==
  \A k \in DOMAIN session :
    session[k] # "starting" => socket[k] \in k..Len(accepted)

\* The tree is printed and freed when no session thread is left to use it, as
\* long as the threads have fitted in vector_threads (main.c:340, 353).
NoSessionAtShutdown ==
  process = "exited" /\ Len(session) <= MAX_CLIENTS =>
    \A k \in DOMAIN session : session[k] = "ended"

\* A request is answered, unless no thread ever serves the client: its
\* connection was overwritten, or not accepted before the shutdown.
Unserved(c) == \A k \in DOMAIN socket : socket[k] # 0 => Peer(k) # c

RequestsAnswered ==
  \A c \in Client :
    client[c] = "waiting" ~>
      client[c] # "waiting" \/ process # "running" \/ []Unserved(c)

\* Once interrupted the server ends, unless a thread is left with a connection
\* that is closed: its client died, or another thread took the "e" (main.c:264).
ShutdownEnds ==
  main = "end_server" ~>
    process # "running" \/ \E k \in DOMAIN session : AtEOF(k)
=============================================================================

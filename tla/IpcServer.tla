------------------------------ MODULE IpcServer ------------------------------
(***************************************************************************)
(* The service of the sysmodule: the port and the sessions that            *)
(* nxExt/ipc_server.c keeps in one table, the IPC thread that serves them, *)
(* and main, which starts and stops it all.  The kernel is modelled as the *)
(* code uses it: a wait returns the lowest index that is signalled, and a  *)
(* cancellation is remembered until a wait finds nothing signalled.        *)
(***************************************************************************)
EXTENDS Naturals, Sequences, FiniteSets

CONSTANTS
  Session,      \* the kernel's sessions
  MaxSessions,  \* max_sessions of ipcServerInit
  MaxAsk        \* bound on the sessions and requests of all clients

ASSUME IpcAssumption ==
  IsFiniteSet(Session) /\ MaxSessions \in Nat \ {0} /\ MaxAsk \in Nat

VARIABLES
  client,      \* the sessions that a client holds its end of
  port,        \* those that wait at the port, oldest first
  handles,     \* server->handles, from index 1 on: index 0 is the port
  message,     \* what the client of each session waits for an answer to
  handleIndex, request, \* the IPC thread's: the handle signalled, and what was received
  cancelled,   \* svcCancelSynchronization was called, and no wait has returned it
  running,     \* clockManager's gRunning
  main, ipc,   \* the two threads
  asked        \* sessions and requests so far

kernel == <<client, port, message, asked>>
local == <<handleIndex, request>>
vars == <<kernel, handles, local, cancelled, running, main, ipc>>

\* What a request may be: a command of ServiceHandlerFunc, with Exit on its own, a
\* close request, a type the server does not know, data it cannot parse.
Kind == {"command", "exit", "close", "unknown", "malformed"}
Nothing == "nothing"
NoRequest == [from |-> Nothing, kind |-> Nothing]
Request == {NoRequest} \cup [from : Session, kind : Kind]

Held == {handles[i] : i \in DOMAIN handles}
Queued == {port[i] : i \in DOMAIN port}
\* The kernel frees a session when both its ends are closed.
Live == client \cup Queued \cup Held
Registered == main \notin {"boot", "closed"}
Serving == {"receive", "handle", "reply"}

TypeOK ==
  /\ client \subseteq Session /\ port \in Seq(Session) /\ handles \in Seq(Session)
  /\ message \in [Session -> Kind \cup {Nothing}]
  /\ handleIndex \in Nat /\ request \in Request
  /\ cancelled \in BOOLEAN /\ running \in BOOLEAN /\ asked \in 0 .. MaxAsk
  /\ main \in {"boot", "set", "start", "loop", "cancel", "join", "close", "closed"}
  /\ ipc \in {"created", "wait", "accept", "ended"} \cup Serving

Init ==
  /\ client = {} /\ port = <<>> /\ handles = <<>> /\ message = [s \in Session |-> Nothing]
  /\ handleIndex = 0 /\ request = NoRequest /\ cancelled = FALSE /\ running = FALSE
  /\ main = "boot" /\ ipc = "created" /\ asked = 0

-----------------------------------------------------------------------------
(* Clients: the overlay, the Monitor, any program that knows the service.   *)

Ask == asked < MaxAsk /\ asked' = asked + 1

\* The kernel lets as many sessions live as the port was registered for.
Connect(s) ==
  /\ Registered /\ s \notin Live /\ Cardinality(Live) < MaxSessions /\ Ask
  /\ client' = client \cup {s} /\ port' = Append(port, s)
  /\ UNCHANGED <<message, handles, local, cancelled, running, main, ipc>>

\* A client sends one request at a time, accepted or not.
Send(s, kind) ==
  /\ s \in client \cap (Queued \cup Held) /\ message[s] = Nothing /\ Ask
  /\ message' = [message EXCEPT ![s] = kind]
  /\ UNCHANGED <<client, port, handles, local, cancelled, running, main, ipc>>

\* A client closes its end, or its process dies while it waits.
Leave(s) ==
  /\ s \in client
  /\ client' = client \ {s} /\ message' = [message EXCEPT ![s] = Nothing]
  /\ UNCHANGED <<port, handles, local, cancelled, running, main, ipc, asked>>

-----------------------------------------------------------------------------
(* ipc_server.c *)

\* Index 0 is signalled by a client at the port, another by a request or by a client
\* that has gone.
Signalled ==
  {i \in 0 .. Len(handles) :
     IF i = 0 THEN port # <<>> ELSE message[handles[i]] # Nothing \/ handles[i] \notin client}

WaitSynchronization(i) ==
  /\ ipc = "wait" /\ i \in Signalled /\ \A j \in Signalled : i <= j
  /\ handleIndex' = i /\ ipc' = (IF i = 0 THEN "accept" ELSE "receive")
  /\ UNCHANGED <<kernel, handles, request, cancelled, running, main>>

\* ProcessThreadFunc returns on a cancellation, and on no other error.
WaitCancelled ==
  /\ ipc = "wait" /\ Signalled = {} /\ cancelled
  /\ cancelled' = FALSE /\ ipc' = "ended"
  /\ UNCHANGED <<kernel, handles, local, running, main>>

\* A mutant: max counts the sessions only.
HasRoomForSessions == Len(handles) + 1 < MaxSessions
\* _ipcServerAddSession, with count = Len(handles) + 1 and max = MaxSessions + 1.
HasRoom == Len(handles) + 1 < MaxSessions + 1

\* A session for which there is no room is closed.
ProcessNewSession ==
  /\ ipc = "accept"
  /\ port' = Tail(port)
  /\ IF HasRoom
     THEN handles' = Append(handles, Head(port)) /\ UNCHANGED message
     ELSE message' = [message EXCEPT ![Head(port)] = Nothing] /\ UNCHANGED handles
  /\ handleIndex' = 0 /\ ipc' = "wait"
  /\ UNCHANGED <<client, asked, request, cancelled, running, main>>

\* Mutants: the handles behind it do not move; they do, and the last one stays; the
\* handle is cleared.
WithoutLast(i) == SubSeq(handles, 1, Len(handles) - 1)
WithLastTwice(i) == [j \in DOMAIN handles |-> IF j < i \/ j = Len(handles) THEN handles[j] ELSE handles[j + 1]]
WithZero(i) == [handles EXCEPT ![i] = 0]
\* _ipcServerDeleteSession: the handles behind it move down.
Without(i) == [j \in 1 .. Len(handles) - 1 |-> IF j < i THEN handles[j] ELSE handles[j + 1]]

Done == handleIndex' = 0 /\ request' = NoRequest /\ ipc' = "wait"
DeleteSession ==
  /\ handles' = Without(handleIndex)
  /\ message' = [message EXCEPT ![handles[handleIndex]] = Nothing]
  /\ Done

\* A mutant: a client that has gone is reported, and its session kept.
ReceiveKeeping ==
  /\ ipc = "receive" /\ handles[handleIndex] \notin client
  /\ Done /\ UNCHANGED <<kernel, handles, cancelled, running, main>>

\* The client has gone, or the data has no valid header: the session is deleted.
ReceiveFails ==
  /\ ipc = "receive"
  /\ handles[handleIndex] \notin client \/ message[handles[handleIndex]] = "malformed"
  /\ DeleteSession
  /\ UNCHANGED <<client, port, asked, cancelled, running, main>>

Receive ==
  /\ ipc = "receive"
  /\ handles[handleIndex] \in client /\ message[handles[handleIndex]] # "malformed"
  /\ request' = [from |-> handles[handleIndex], kind |-> message[handles[handleIndex]]]
  /\ ipc' = "handle"
  /\ UNCHANGED <<kernel, handles, handleIndex, cancelled, running, main>>

\* ServiceHandlerFunc; of its commands only Exit matters to main.
Handle ==
  /\ ipc = "handle"
  /\ running' = (running /\ request.kind # "exit") /\ ipc' = "reply"
  /\ UNCHANGED <<kernel, handles, local, cancelled, main>>

\* The answer goes to the handle at handleIndex.
Reply ==
  /\ ipc = "reply"
  /\ handles[handleIndex] \in client /\ request.kind # "close"
  /\ message' = [message EXCEPT ![handles[handleIndex]] = Nothing]
  /\ Done
  /\ UNCHANGED <<client, port, asked, handles, cancelled, running, main>>

\* A close request is answered first.
ReplyCloses ==
  /\ ipc = "reply"
  /\ handles[handleIndex] \notin client \/ request.kind = "close"
  /\ DeleteSession
  /\ UNCHANGED <<client, port, asked, cancelled, running, main>>

-----------------------------------------------------------------------------
(* main.cpp and ipc_service.cpp *)

Step(from, to) == main = from /\ main' = to

\* ipcService::Initialize registers the port: clients may connect from here on.
Initialize == Step("boot", "set") /\ UNCHANGED <<kernel, handles, local, cancelled, running, ipc>>

\* The flag is set before the service runs: an Exit that comes early is not undone.
SetRunning ==
  /\ Step("set", "start") /\ running' = TRUE
  /\ UNCHANGED <<kernel, handles, local, cancelled, ipc>>
StartThread ==
  /\ Step("start", "loop") /\ ipc' = "wait"
  /\ UNCHANGED <<kernel, handles, local, cancelled, running>>

LoopEnds ==
  /\ ~running /\ Step("loop", "cancel")
  /\ UNCHANGED <<kernel, handles, local, cancelled, running, ipc>>

\* ipcService::SetRunning(false).  A mutant: it only waits.
CancelForgotten == Step("cancel", "join") /\ UNCHANGED <<kernel, handles, local, cancelled, running, ipc>>
CancelSynchronization ==
  /\ Step("cancel", "join") /\ cancelled' = TRUE
  /\ UNCHANGED <<kernel, handles, local, running, ipc>>
\* A mutant: the thread is not waited for.
DoNotWait == Step("join", "close") /\ UNCHANGED <<kernel, handles, local, cancelled, running, ipc>>
WaitForExit ==
  /\ ipc = "ended" /\ Step("join", "close")
  /\ UNCHANGED <<kernel, handles, local, cancelled, running, ipc>>

\* ipcServerExit: every handle is closed, and with the port those who wait at it.
ServerExit ==
  /\ Step("close", "closed")
  /\ handles' = <<>> /\ port' = <<>> /\ message' = [s \in Session |-> Nothing]
  /\ UNCHANGED <<client, asked, local, cancelled, running, ipc>>

-----------------------------------------------------------------------------
Ipc ==
  \/ \E i \in 0 .. Len(handles) : WaitSynchronization(i)
  \/ WaitCancelled \/ ProcessNewSession
  \/ ReceiveFails \/ Receive \/ Handle \/ Reply \/ ReplyCloses
Main ==
  \/ Initialize \/ SetRunning \/ StartThread \/ LoopEnds
  \/ CancelSynchronization \/ WaitForExit \/ ServerExit
Clients == \E s \in Session : Connect(s) \/ Leave(s) \/ \E kind \in Kind : Send(s, kind)

Next == Ipc \/ Main \/ Clients

Spec == Init /\ [][Next]_vars

\* Handlers return, service calls return, and the scheduler runs both threads.
FairSpec == Spec /\ WF_vars(Ipc) /\ WF_vars(Main)

-----------------------------------------------------------------------------
\* The table and the port hold every session whose server end is open, once: no
\* session is served under two indices, none that was deleted comes back.
TableIsExact ==
  /\ \A i, j \in DOMAIN handles : handles[i] = handles[j] => i = j
  /\ \A i, j \in DOMAIN port : port[i] = port[j] => i = j
  /\ Held \cap Queued = {}

\* As many sessions as the port admits have room in the table with the port itself: a
\* client that the kernel let in is never turned away by _ipcServerAddSession.
RoomForAll == ipc = "accept" => port # <<>> /\ HasRoom

\* Between receiving a request and answering it nothing moves the table, in which main
\* closes every handle in the end: the answer goes to the client that asked.
AnswerGoesToAsker ==
  /\ ipc \in Serving => handleIndex \in DOMAIN handles
  /\ ipc \in {"handle", "reply"} => handles[handleIndex] = request.from

\* A client that waits for an answer loses its session only by a request that closes it
\* or cannot be parsed, or when the whole service ends.
NobodyCutOff ==
  [][\A s \in client \cap client' :
       s \in Held \cup Queued /\ s \notin (Held \cup Queued)' =>
         message[s] \in {"close", "malformed"} \/ main = "close"]_vars

\* Everybody who asks is answered, or told that the session is closed: a client that
\* died, a bad request or the end of the service keeps nobody waiting.
EveryoneAnswered == \A s \in Session : message[s] # Nothing ~> message[s] = Nothing

\* An Exit command ends the program, also when it comes before main is in its loop.
ExitEnds == (ipc = "reply" /\ request.kind = "exit") ~> main = "closed"
=============================================================================

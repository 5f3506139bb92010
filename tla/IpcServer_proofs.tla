-------------------------- MODULE IpcServer_proofs ---------------------------
(***************************************************************************)
(* Theorems on the service, for any number of sessions and clients: its    *)
(* table holds each open session once and has room for every session the   *)
(* port admits, an answer goes to the client that asked, and no client     *)
(* loses its session while it waits, except by its own request or when the *)
(* service ends.                                                            *)
(***************************************************************************)
EXTENDS IpcServer, FiniteSetTheorems, TLAPS

\* Only the IPC thread moves the table, until main has seen it end.
Phases == main \in {"close", "closed"} => ipc = "ended"

\* The kernel keeps to the number of sessions it was given; an accept finds a client.
Admitted ==
  /\ Cardinality(Live) <= MaxSessions
  /\ ipc = "accept" => port # <<>>

\* A session that is signalled has a request, and it stays the one its client waits for
\* until it is answered, as long as the client is there.
Asked ==
  /\ ipc = "receive" => handles[handleIndex] \notin client \/ message[handles[handleIndex]] # Nothing
  /\ ipc \in {"handle", "reply"} =>
       /\ request.kind \in Kind
       /\ handles[handleIndex] \notin client \/ message[handles[handleIndex]] = request.kind

\* Who waits is a client of a session that the server has not closed.
Waiting == \A s \in Session : message[s] # Nothing => s \in client \cap (Queued \cup Held)

IpcInv == TypeOK /\ TableIsExact /\ Phases /\ Admitted /\ AnswerGoesToAsker /\ Asked /\ Waiting
-----------------------------------------------------------------------------
(* Sequences without repetitions.                                          *)

Elements(q) == {q[i] : i \in DOMAIN q}
Distinct(q) == \A i, j \in DOMAIN q : q[i] = q[j] => i = j

LEMMA Appended ==
  ASSUME NEW q \in Seq(Session), NEW s \in Session, Distinct(q), s \notin Elements(q)
  PROVE  /\ Append(q, s) \in Seq(Session) /\ Distinct(Append(q, s))
         /\ Elements(Append(q, s)) = Elements(q) \cup {s}
<1> DEFINE a == Append(q, s)
<1>1. /\ a \in Seq(Session) /\ Len(q) \in Nat /\ Len(a) = Len(q) + 1
      /\ DOMAIN q = 1 .. Len(q) /\ DOMAIN a = 1 .. Len(q) + 1
      /\ \A i \in 1 .. Len(q) : a[i] = q[i]
      /\ a[Len(q) + 1] = s
  OBVIOUS
<1>2. Elements(a) = Elements(q) \cup {s}
  BY <1>1 DEF Elements
<1>3. Distinct(a)
  <2> SUFFICES ASSUME NEW i \in 1 .. Len(q) + 1, NEW j \in 1 .. Len(q) + 1, a[i] = a[j]
               PROVE  i = j
    BY <1>1 DEF Distinct
  <2> HIDE DEF a
  <2> QED
    BY <1>1 DEF Distinct, Elements
<1> QED
  BY <1>1, <1>2, <1>3

LEMMA HeadTaken ==
  ASSUME NEW q \in Seq(Session), q # <<>>, Distinct(q)
  PROVE  /\ Tail(q) \in Seq(Session) /\ Distinct(Tail(q))
         /\ Head(q) \in Elements(q) /\ Head(q) \in Session
         /\ Elements(Tail(q)) = Elements(q) \ {Head(q)}
<1> DEFINE t == Tail(q)
<1>1. /\ t \in Seq(Session) /\ Len(q) \in Nat \ {0} /\ Len(t) = Len(q) - 1
      /\ DOMAIN q = 1 .. Len(q) /\ DOMAIN t = 1 .. Len(q) - 1
      /\ \A i \in 1 .. Len(q) - 1 : t[i] = q[i + 1]
      /\ Head(q) = q[1] /\ q[1] \in Session
  OBVIOUS
<1> HIDE DEF t
<1>2. Distinct(t)
  BY <1>1 DEF Distinct
<1>3. Elements(t) \subseteq Elements(q) \ {Head(q)}
  <2> SUFFICES ASSUME NEW i \in 1 .. Len(q) - 1 PROVE t[i] \in Elements(q) /\ t[i] # q[1]
    BY <1>1 DEF Elements
  <2>1. i + 1 \in DOMAIN q /\ i + 1 # 1 /\ 1 \in DOMAIN q /\ t[i] = q[i + 1]
    BY <1>1
  <2> QED
    BY <2>1 DEF Elements, Distinct
<1>4. Elements(q) \ {Head(q)} \subseteq Elements(t)
  <2> SUFFICES ASSUME NEW i \in 1 .. Len(q), q[i] # q[1] PROVE q[i] \in Elements(t)
    BY <1>1 DEF Elements
  <2>1. i - 1 \in DOMAIN t /\ t[i - 1] = q[i]
    BY <1>1
  <2> QED
    BY <2>1 DEF Elements
<1>5. Head(q) \in Elements(q)
  BY <1>1 DEF Elements
<1> QED
  BY <1>1, <1>2, <1>3, <1>4, <1>5 DEF t

\* The shift of _ipcServerDeleteSession takes out one session and no other.
LEMMA Deleted ==
  ASSUME handles \in Seq(Session), Distinct(handles), NEW i \in DOMAIN handles
  PROVE  /\ Without(i) \in Seq(Session) /\ Distinct(Without(i))
         /\ Elements(Without(i)) = Elements(handles) \ {handles[i]}
<1> DEFINE n == Len(handles)
           w == Without(i)
<1>1. /\ n \in Nat /\ DOMAIN handles = 1 .. n /\ i \in 1 .. n
      /\ \A j \in 1 .. n : handles[j] \in Session
  OBVIOUS
<1>2. /\ w = [j \in 1 .. n - 1 |-> IF j < i THEN handles[j] ELSE handles[j + 1]]
      /\ n - 1 \in Nat
  BY <1>1 DEF Without
<1> HIDE DEF n, w
<1>3. /\ DOMAIN w = 1 .. n - 1
      /\ \A j \in 1 .. n - 1 : w[j] = IF j < i THEN handles[j] ELSE handles[j + 1]
  BY <1>2
<1>4. w \in Seq(Session)
  <2>1. w \in [1 .. n - 1 -> Session]
    BY <1>1, <1>2
  <2>2. \A k \in Nat : [1 .. k -> Session] \subseteq Seq(Session)
    OBVIOUS
  <2> QED
    BY <1>2, <2>1, <2>2, Zenon
<1>5. Distinct(w)
  <2> SUFFICES ASSUME NEW j \in 1 .. n - 1, NEW k \in 1 .. n - 1, w[j] = w[k] PROVE j = k
    BY <1>3 DEF Distinct
  <2> DEFINE from(m) == IF m < i THEN m ELSE m + 1
  <2>1. from(j) \in 1 .. n /\ from(k) \in 1 .. n /\ w[j] = handles[from(j)] /\ w[k] = handles[from(k)]
    BY <1>1, <1>3
  <2>2. from(j) = from(k)
    BY <1>1, <2>1 DEF Distinct
  <2> QED
    BY <1>1, <2>2
<1>6. Elements(w) \subseteq Elements(handles) \ {handles[i]}
  <2> SUFFICES ASSUME NEW j \in 1 .. n - 1 PROVE w[j] \in Elements(handles) /\ w[j] # handles[i]
    BY <1>3 DEF Elements
  <2>1. PICK k \in 1 .. n : k # i /\ w[j] = handles[k]
    <3>1. CASE j < i
      BY <1>1, <1>3, <3>1
    <3>2. CASE ~(j < i)
      BY <1>1, <1>3, <3>2
    <3> QED
      BY <3>1, <3>2
  <2> QED
    BY <1>1, <2>1 DEF Elements, Distinct
<1>7. Elements(handles) \ {handles[i]} \subseteq Elements(w)
  <2> SUFFICES ASSUME NEW k \in 1 .. n, handles[k] # handles[i] PROVE handles[k] \in Elements(w)
    BY <1>1 DEF Elements
  <2>1. PICK j \in 1 .. n - 1 : w[j] = handles[k]
    <3>1. CASE k < i
      BY <1>1, <1>3, <3>1
    <3>2. CASE k > i
      <4>1. k - 1 \in 1 .. n - 1 /\ ~(k - 1 < i)
        BY <1>1, <3>2
      <4> QED
        BY <1>1, <1>3, <4>1
    <3> QED
      BY <1>1, <3>1, <3>2
  <2> QED
    BY <1>3, <2>1 DEF Elements
<1> QED
  BY <1>4, <1>5, <1>6, <1>7 DEF w

\* As many elements as positions.
LEMMA DistinctCount ==
  ASSUME NEW q \in Seq(Session), Distinct(q)
  PROVE  Cardinality(Elements(q)) = Len(q)
<1>1. Len(q) \in Nat /\ DOMAIN q = 1 .. Len(q) /\ q \in [1 .. Len(q) -> Elements(q)]
  BY DEF Elements
<1>2. q \in Bijection(1 .. Len(q), Elements(q))
  BY <1>1 DEF Elements, Distinct, Bijection, Injection, Surjection, IsInjective
<1> QED
  BY <1>1, <1>2, FS_CountingElements DEF ExistsBijection

-----------------------------------------------------------------------------
LEMMA LiveFinite == ASSUME TypeOK PROVE IsFiniteSet(Live) /\ Live \subseteq Session
<1>1. Live \subseteq Session
  BY DEF TypeOK, Live, Queued, Held
<1> QED
  BY <1>1, IpcAssumption, FS_Subset

\* The port admits no more than there is room for.
LEMMA RoomInTable == IpcInv => RoomForAll
<1> SUFFICES ASSUME IpcInv, ipc = "accept" PROVE HasRoom
  BY DEF RoomForAll, IpcInv, Admitted
<1>1. handles \in Seq(Session) /\ port \in Seq(Session) /\ port # <<>> /\ Distinct(handles) /\ Distinct(port)
  BY DEF IpcInv, TypeOK, TableIsExact, Admitted, Distinct
<1>2. Held = Elements(handles) /\ Queued = Elements(port)
  BY DEF Held, Queued, Elements
<1>3. Head(port) \in Queued /\ Head(port) \notin Held
  BY <1>1, <1>2, HeadTaken DEF IpcInv, TableIsExact
<1>4. Held \cup {Head(port)} \subseteq Live
  BY <1>3 DEF Live
<1>5. IsFiniteSet(Live) /\ IsFiniteSet(Held)
  BY LiveFinite, FS_Subset DEF IpcInv, Live
<1>6. Cardinality(Held \cup {Head(port)}) = Cardinality(Held) + 1 /\ IsFiniteSet(Held \cup {Head(port)})
  BY <1>3, <1>5, FS_AddElement
<1>7. Cardinality(Held) = Len(handles)
  BY <1>1, <1>2, DistinctCount
<1>8. Cardinality(Held \cup {Head(port)}) <= Cardinality(Live)
  BY <1>4, <1>5, FS_Subset
<1>9. Len(handles) \in Nat /\ Cardinality(Live) \in Nat /\ Cardinality(Live) <= MaxSessions /\ MaxSessions \in Nat
  BY <1>1, <1>5, FS_CardinalityType, IpcAssumption DEF IpcInv, Admitted
<1> QED
  BY <1>6, <1>7, <1>8, <1>9 DEF HasRoom
-----------------------------------------------------------------------------
(* Each step keeps the invariant.                                          *)

\* What the invariant says of the two sequences.
LEMMA Sequences ==
  ASSUME IpcInv
  PROVE  /\ handles \in Seq(Session) /\ port \in Seq(Session)
         /\ Distinct(handles) /\ Distinct(port)
         /\ Held = Elements(handles) /\ Queued = Elements(port)
         /\ Held \subseteq Session /\ Queued \subseteq Session /\ Held \cap Queued = {}
<1>1. handles \in Seq(Session) /\ port \in Seq(Session)
  BY DEF IpcInv, TypeOK
<1>2. Distinct(handles) /\ Distinct(port) /\ Held \cap Queued = {}
  BY DEF IpcInv, TableIsExact, Distinct
<1>3. Held = Elements(handles) /\ Queued = Elements(port)
  BY DEF Held, Queued, Elements
<1>4. \A q \in Seq(Session) : Elements(q) \subseteq Session
  BY DEF Elements
<1> QED
  BY <1>1, <1>2, <1>3, <1>4

LEMMA FewerLive == ASSUME IpcInv, Live' \subseteq Live PROVE Cardinality(Live') <= MaxSessions
<1>1. IsFiniteSet(Live)
  BY LiveFinite DEF IpcInv
<1>2. IsFiniteSet(Live') /\ Cardinality(Live') <= Cardinality(Live)
  BY <1>1, FS_Subset
<1>3. Cardinality(Live) \in Nat /\ Cardinality(Live') \in Nat /\ MaxSessions \in Nat
  BY <1>1, <1>2, FS_CardinalityType, IpcAssumption
<1> QED
  BY <1>2, <1>3 DEF IpcInv, Admitted

\* Steps that leave the sessions alone.
LEMMA SameSessions ==
  ASSUME IpcInv, UNCHANGED <<client, port, handles>>
  PROVE  /\ TableIsExact' /\ Held' = Held /\ Queued' = Queued /\ Live' = Live
         /\ Cardinality(Live') <= MaxSessions
<1>1. Held' = Held /\ Queued' = Queued /\ Live' = Live
  BY DEF Held, Queued, Live
<1> QED
  BY <1>1, FewerLive DEF IpcInv, TableIsExact

LEMMA MainStep ==
  ASSUME IpcInv, Main
  PROVE  IpcInv'
<1> DEFINE Quiet == UNCHANGED <<kernel, handles, local>>
<1>1. ASSUME Quiet, Step("boot", "set") \/ Step("set", "start") \/ Step("loop", "cancel") \/ Step("cancel", "join"),
             UNCHANGED ipc, running' \in BOOLEAN, cancelled' \in BOOLEAN
      PROVE  IpcInv'
  <2>1. UNCHANGED <<client, port, handles, message, asked, handleIndex, request, ipc>>
    BY <1>1 DEF kernel, local
  <2>2. TypeOK' /\ Phases' /\ AnswerGoesToAsker' /\ Asked'
    BY <1>1, <2>1 DEF IpcInv, TypeOK, Phases, AnswerGoesToAsker, Asked, Step, Request
  <2>3. Admitted' /\ Waiting' /\ TableIsExact'
    BY <2>1, SameSessions DEF IpcInv, Admitted, Waiting
  <2> QED
    BY <2>2, <2>3 DEF IpcInv
<1>2. CASE Initialize
  BY <1>1, <1>2 DEF Initialize, IpcInv, TypeOK
<1>3. CASE SetRunning
  BY <1>1, <1>3 DEF SetRunning, IpcInv, TypeOK
<1>4. CASE LoopEnds
  BY <1>1, <1>4 DEF LoopEnds, IpcInv, TypeOK
<1>5. CASE CancelSynchronization
  BY <1>1, <1>5 DEF CancelSynchronization, IpcInv, TypeOK
<1>6. CASE StartThread
  <2>1. UNCHANGED <<client, port, handles, message, asked, handleIndex, request, cancelled, running>> /\ ipc' = "wait"
    BY <1>6 DEF StartThread, kernel, local
  <2>2. TypeOK' /\ Phases' /\ AnswerGoesToAsker' /\ Asked'
    BY <1>6, <2>1 DEF IpcInv, TypeOK, Phases, AnswerGoesToAsker, Asked, Step, StartThread, Request, Serving
  <2>3. Admitted' /\ Waiting' /\ TableIsExact'
    BY <2>1, SameSessions DEF IpcInv, Admitted, Waiting
  <2> QED
    BY <2>2, <2>3 DEF IpcInv
<1>7. CASE WaitForExit
  <2>1. UNCHANGED <<client, port, handles, message, asked, handleIndex, request, cancelled, running, ipc>> /\ ipc = "ended"
    BY <1>7 DEF WaitForExit, kernel, local
  <2>2. TypeOK' /\ Phases' /\ AnswerGoesToAsker' /\ Asked'
    BY <1>7, <2>1 DEF IpcInv, TypeOK, Phases, AnswerGoesToAsker, Asked, Step, WaitForExit, Request, Serving
  <2>3. Admitted' /\ Waiting' /\ TableIsExact'
    BY <2>1, SameSessions DEF IpcInv, Admitted, Waiting
  <2> QED
    BY <2>2, <2>3 DEF IpcInv
<1>8. CASE ServerExit
  <2>1. /\ handles' = <<>> /\ port' = <<>> /\ message' = [s \in Session |-> Nothing]
        /\ UNCHANGED <<client, asked, handleIndex, request, cancelled, running, ipc>>
        /\ main = "close" /\ main' = "closed" /\ ipc = "ended"
    BY <1>8 DEF ServerExit, local, Step, IpcInv, Phases
  <2>2. TypeOK' /\ Phases' /\ AnswerGoesToAsker' /\ Asked'
    BY <2>1 DEF IpcInv, TypeOK, Phases, AnswerGoesToAsker, Asked, Request, Serving
  <2>3. Held' = {} /\ Queued' = {} /\ Live' \subseteq Live
    BY <2>1 DEF Held, Queued, Live
  <2>4. Admitted' /\ Waiting' /\ TableIsExact'
    BY <2>1, <2>3, FewerLive DEF IpcInv, Admitted, Waiting, TableIsExact
  <2> QED
    BY <2>2, <2>4 DEF IpcInv
<1> QED
  BY <1>2, <1>3, <1>4, <1>5, <1>6, <1>7, <1>8 DEF Main

LEMMA ClientStep ==
  ASSUME IpcInv, NEW s \in Session, Connect(s) \/ Leave(s) \/ \E kind \in Kind : Send(s, kind)
  PROVE  IpcInv'
<1>1. MaxAsk \in Nat /\ asked \in 0 .. MaxAsk
  BY IpcAssumption DEF IpcInv, TypeOK
<1>2. ipc \in Serving => handles[handleIndex] \in Held /\ handles[handleIndex] \in Session
  BY Sequences DEF IpcInv, AnswerGoesToAsker, Serving, Held
<1>3. message \in [Session -> Kind \cup {Nothing}] /\ Nothing \notin Kind
  BY DEF IpcInv, TypeOK, Nothing, Kind
<1>4. CASE Connect(s)
  <2>1. /\ client' = client \cup {s} /\ port' = Append(port, s) /\ s \notin Live
        /\ Cardinality(Live) < MaxSessions
        /\ UNCHANGED <<message, handles, handleIndex, request, cancelled, running, main, ipc>>
        /\ asked' \in 0 .. MaxAsk
    BY <1>1, <1>4 DEF Connect, local, Ask
  <2>2. s \notin Elements(port) /\ s \notin Held /\ s \notin Queued
    BY <2>1, Sequences DEF Live
  <2>3. port' \in Seq(Session) /\ Distinct(port') /\ Elements(port') = Elements(port) \cup {s}
    BY <2>1, <2>2, Sequences, Appended
  <2>4. Queued' = Queued \cup {s} /\ Held' = Held /\ Live' = Live \cup {s}
    BY <2>1, <2>3, Sequences DEF Queued, Held, Live, Elements
  <2>5. TypeOK' /\ Phases' /\ AnswerGoesToAsker'
    BY <2>1, <2>3 DEF IpcInv, TypeOK, Phases, AnswerGoesToAsker, Request
  <2>6. TableIsExact'
    BY <2>1, <2>2, <2>3, <2>4 DEF IpcInv, TableIsExact, Distinct
  <2>7. IsFiniteSet(Live) /\ Cardinality(Live) \in Nat /\ MaxSessions \in Nat
    BY LiveFinite, FS_CardinalityType, IpcAssumption DEF IpcInv
  <2>8. Cardinality(Live') = Cardinality(Live) + 1
    BY <2>1, <2>4, <2>7, FS_AddElement
  <2>9. port' # <<>>
    BY <2>1, Sequences
  <2>10. Asked'
    BY <1>2, <2>1, <2>2 DEF IpcInv, Asked, Serving
  <2> QED
    BY <2>1, <2>4, <2>5, <2>6, <2>7, <2>8, <2>9, <2>10 DEF IpcInv, Admitted, Waiting
<1>5. CASE Leave(s)
  <2>1. /\ client' = client \ {s} /\ message' = [message EXCEPT ![s] = Nothing]
        /\ UNCHANGED <<port, handles, handleIndex, request, cancelled, running, main, ipc, asked>>
    BY <1>5 DEF Leave, local
  <2>2. Queued' = Queued /\ Held' = Held /\ Live' \subseteq Live
    BY <2>1 DEF Queued, Held, Live
  <2>3. TypeOK' /\ Phases' /\ AnswerGoesToAsker' /\ TableIsExact'
    BY <2>1, <2>2 DEF IpcInv, TypeOK, Phases, AnswerGoesToAsker, TableIsExact, Request
  <2>4. Waiting'
    BY <2>1, <2>2 DEF IpcInv, Waiting, TypeOK
  <2>5. Asked'
    BY <1>2, <1>3, <2>1 DEF IpcInv, Asked, Serving
  <2> QED
    BY <2>1, <2>2, <2>3, <2>4, <2>5, FewerLive DEF IpcInv, Admitted
<1>6. ASSUME NEW kind \in Kind, Send(s, kind)
      PROVE  IpcInv'
  <2>1. /\ message' = [message EXCEPT ![s] = kind] /\ s \in client \cap (Queued \cup Held)
        /\ UNCHANGED <<client, port, handles, handleIndex, request, cancelled, running, main, ipc>>
        /\ asked' \in 0 .. MaxAsk
    BY <1>1, <1>6 DEF Send, local, Ask
  <2>2. TypeOK' /\ Phases' /\ AnswerGoesToAsker'
    BY <2>1 DEF IpcInv, TypeOK, Phases, AnswerGoesToAsker, Request
  <2>3. Waiting'
    BY <2>1, SameSessions DEF IpcInv, Waiting, TypeOK
  <2>4. Asked'
    BY <1>2, <1>3, <1>6, <2>1 DEF IpcInv, Asked, Serving, Send
  <2> QED
    BY <2>1, <2>2, <2>3, <2>4, SameSessions DEF IpcInv, Admitted
<1> QED
  BY <1>4, <1>5, <1>6

\* A session that is deleted is not waited for, and no other one moves out of the table.
LEMMA DeleteStep ==
  ASSUME IpcInv, ipc \in Serving, DeleteSession,
         UNCHANGED <<client, port, asked, cancelled, running, main>>
  PROVE  /\ IpcInv'
         /\ Queued' = Queued /\ Held' = Held \ {handles[handleIndex]}
<1> DEFINE gone == handles[handleIndex]
<1>1. /\ handles' = Without(handleIndex) /\ message' = [message EXCEPT ![gone] = Nothing]
      /\ handleIndex' = 0 /\ request' = NoRequest /\ ipc' = "wait"
      /\ handleIndex \in DOMAIN handles
  BY DEF DeleteSession, Done, IpcInv, AnswerGoesToAsker
<1>2. handles' \in Seq(Session) /\ Distinct(handles') /\ Elements(handles') = Elements(handles) \ {gone}
  BY <1>1, Sequences, Deleted
<1>3. Queued' = Queued /\ Held' = Held \ {gone} /\ gone \in Session
  BY <1>1, <1>2, Sequences DEF Queued, Held, Elements
<1>4. Live' \subseteq Live
  BY <1>3 DEF Live
<1>5. TypeOK' /\ Phases' /\ AnswerGoesToAsker' /\ Asked'
  BY <1>1, <1>2, <1>3 DEF IpcInv, TypeOK, Phases, AnswerGoesToAsker, Asked, Request, Serving
<1>6. TableIsExact'
  BY <1>2, <1>3 DEF IpcInv, TableIsExact, Distinct
<1>7. Waiting'
  BY <1>1, <1>3 DEF IpcInv, Waiting, TypeOK
<1> QED
  BY <1>1, <1>3, <1>4, <1>5, <1>6, <1>7, FewerLive DEF IpcInv, Admitted

LEMMA IpcStep ==
  ASSUME IpcInv, Ipc
  PROVE  IpcInv'
<1>1. ASSUME NEW i \in 0 .. Len(handles), WaitSynchronization(i)
      PROVE  IpcInv'
  <2>1. /\ handleIndex' = i /\ ipc = "wait" /\ ipc' = IF i = 0 THEN "accept" ELSE "receive"
        /\ UNCHANGED <<client, port, message, asked, handles, request, cancelled, running, main>>
        /\ i \in Signalled
    BY <1>1 DEF WaitSynchronization, kernel
  <2>2. Len(handles) \in Nat /\ DOMAIN handles = 1 .. Len(handles)
    BY Sequences
  <2>3. i \in Nat /\ (i # 0 => i \in DOMAIN handles) /\ (i = 0 => port # <<>>)
    BY <2>1, <2>2 DEF Signalled
  <2>4. TypeOK' /\ Phases' /\ AnswerGoesToAsker'
    BY <2>1, <2>3 DEF IpcInv, TypeOK, Phases, AnswerGoesToAsker, Request, Serving
  <2>5. Asked'
    BY <2>1, <2>3 DEF Asked, Signalled
  <2> QED
    BY <2>1, <2>3, <2>4, <2>5, SameSessions DEF IpcInv, Admitted, Waiting
<1>2. CASE WaitCancelled
  <2>1. /\ ipc' = "ended" /\ cancelled' = FALSE
        /\ UNCHANGED <<client, port, message, asked, handles, handleIndex, request, running, main>>
    BY <1>2 DEF WaitCancelled, kernel, local
  <2>2. TypeOK' /\ Phases' /\ AnswerGoesToAsker' /\ Asked'
    BY <2>1 DEF IpcInv, TypeOK, Phases, AnswerGoesToAsker, Asked, Request, Serving
  <2> QED
    BY <2>1, <2>2, SameSessions DEF IpcInv, Admitted, Waiting
<1>3. CASE ProcessNewSession
  <2>1. /\ ipc = "accept" /\ port' = Tail(port) /\ handles' = Append(handles, Head(port))
        /\ handleIndex' = 0 /\ ipc' = "wait"
        /\ UNCHANGED <<client, asked, message, request, cancelled, running, main>>
    BY <1>3, RoomInTable DEF ProcessNewSession, RoomForAll
  <2>2. port # <<>>
    BY <2>1 DEF IpcInv, Admitted
  <2>3. /\ port' \in Seq(Session) /\ Distinct(port') /\ Elements(port') = Elements(port) \ {Head(port)}
        /\ Head(port) \in Elements(port) /\ Head(port) \in Session
    BY <2>1, <2>2, Sequences, HeadTaken
  <2>4. Head(port) \notin Elements(handles)
    BY <2>3, Sequences
  <2>5. /\ handles' \in Seq(Session) /\ Distinct(handles')
        /\ Elements(handles') = Elements(handles) \cup {Head(port)}
    BY <2>1, <2>3, <2>4, Sequences, Appended
  <2>6. Queued' = Queued \ {Head(port)} /\ Held' = Held \cup {Head(port)} /\ Head(port) \in Queued
    BY <2>3, <2>5, Sequences DEF Queued, Held, Elements
  <2>7. Live' \subseteq Live
    BY <2>1, <2>6 DEF Live
  <2>8. TypeOK' /\ Phases' /\ AnswerGoesToAsker' /\ Asked'
    BY <2>1, <2>3, <2>5 DEF IpcInv, TypeOK, Phases, AnswerGoesToAsker, Asked, Request, Serving
  <2>9. TableIsExact'
    BY <2>3, <2>5, <2>6 DEF IpcInv, TableIsExact, Distinct
  <2>10. Waiting'
    BY <2>1, <2>6 DEF IpcInv, Waiting
  <2> QED
    BY <2>1, <2>7, <2>8, <2>9, <2>10, FewerLive DEF IpcInv, Admitted
<1>4. CASE ReceiveFails
  BY <1>4, DeleteStep DEF ReceiveFails, Serving
<1>5. CASE Receive
  <2>1. /\ request' = [from |-> handles[handleIndex], kind |-> message[handles[handleIndex]]]
        /\ ipc = "receive" /\ ipc' = "handle" /\ handles[handleIndex] \in client
        /\ UNCHANGED <<client, port, message, asked, handles, handleIndex, cancelled, running, main>>
    BY <1>5 DEF Receive, kernel
  <2>2. handleIndex \in DOMAIN handles /\ handles[handleIndex] \in Session
    BY <2>1, Sequences DEF IpcInv, AnswerGoesToAsker, Serving
  <2>3. message[handles[handleIndex]] \in Kind
    BY <2>1, <2>2 DEF IpcInv, TypeOK, Asked
  <2>4. TypeOK' /\ Phases' /\ AnswerGoesToAsker' /\ Asked'
    BY <2>1, <2>2, <2>3 DEF IpcInv, TypeOK, Phases, AnswerGoesToAsker, Asked, Request, Serving
  <2> QED
    BY <2>1, <2>4, SameSessions DEF IpcInv, Admitted, Waiting
<1>6. CASE Handle
  <2>1. /\ ipc = "handle" /\ ipc' = "reply" /\ running' \in BOOLEAN
        /\ UNCHANGED <<client, port, message, asked, handles, handleIndex, request, cancelled, main>>
    BY <1>6 DEF Handle, kernel, local, IpcInv, TypeOK
  <2>2. TypeOK' /\ Phases' /\ AnswerGoesToAsker' /\ Asked'
    BY <2>1 DEF IpcInv, TypeOK, Phases, AnswerGoesToAsker, Asked, Request, Serving
  <2> QED
    BY <2>1, <2>2, SameSessions DEF IpcInv, Admitted, Waiting
<1>7. CASE Reply
  <2>1. /\ message' = [message EXCEPT ![handles[handleIndex]] = Nothing]
        /\ ipc = "reply" /\ ipc' = "wait" /\ handleIndex' = 0 /\ request' = NoRequest
        /\ UNCHANGED <<client, port, asked, handles, cancelled, running, main>>
    BY <1>7 DEF Reply, Done
  <2>2. TypeOK' /\ Phases' /\ AnswerGoesToAsker' /\ Asked'
    BY <2>1 DEF IpcInv, TypeOK, Phases, AnswerGoesToAsker, Asked, Request, Serving
  <2>3. Waiting'
    BY <2>1, SameSessions DEF IpcInv, Waiting, TypeOK
  <2> QED
    BY <2>1, <2>2, <2>3, SameSessions DEF IpcInv, Admitted
<1>8. CASE ReplyCloses
  BY <1>8, DeleteStep DEF ReplyCloses, Serving
<1> QED
  BY <1>1, <1>2, <1>3, <1>4, <1>5, <1>6, <1>7, <1>8 DEF Ipc

LEMMA NextStep ==
  ASSUME IpcInv, [Next]_vars
  PROVE  IpcInv'
<1>1. CASE UNCHANGED vars
  <2>1. UNCHANGED <<client, port, message, asked, handles, handleIndex, request, cancelled, running, main, ipc>>
    BY <1>1 DEF vars, kernel, local
  <2> QED
    BY <2>1, SameSessions DEF IpcInv, TypeOK, Phases, Admitted, AnswerGoesToAsker, Asked, Waiting, Request
<1> QED
  BY <1>1, IpcStep, MainStep, ClientStep DEF Next, Clients

LEMMA InitInv == Init => IpcInv
<1> SUFFICES ASSUME Init PROVE IpcInv
  OBVIOUS
<1>1. Held = {} /\ Queued = {} /\ Live = {}
  BY DEF Init, Held, Queued, Live
<1>2. Cardinality(Live) = 0
  BY <1>1, FS_EmptySet
<1>3. 0 <= MaxSessions /\ 0 \in 0 .. MaxAsk
  BY IpcAssumption
<1>4. Admitted
  BY <1>2, <1>3 DEF Init, Admitted
<1>5. <<>> \in Seq(Session) /\ NoRequest \in Request /\ Session \subseteq Session
  BY DEF Request
<1>6. TypeOK
  BY <1>3, <1>5 DEF Init, TypeOK
<1>7. TableIsExact /\ Phases /\ AnswerGoesToAsker /\ Asked /\ Waiting
  BY DEF Init, TableIsExact, Phases, AnswerGoesToAsker, Asked, Waiting, Serving, Held
<1> QED
  BY <1>4, <1>6, <1>7 DEF IpcInv

\* Who is cut off.
Cut(s) ==
  s \in client /\ s \in client' /\ s \in Held \cup Queued /\ s \notin (Held \cup Queued)'
Excused(s) == message[s] \in {"close", "malformed"} \/ main = "close"

LEMMA CutStep ==
  ASSUME IpcInv, [Next]_vars, NEW s \in Session, Cut(s)
  PROVE  Excused(s)
<1>1. ~UNCHANGED <<handles, port>>
  BY DEF Cut, Held, Queued
<1>2. CASE Main
  BY <1>1, <1>2
  DEF Main, Initialize, SetRunning, StartThread, LoopEnds, CancelSynchronization, WaitForExit, ServerExit,
      Step, kernel, Excused
<1>3. CASE Clients
  <2>1. PICK c \in Session : Connect(c)
    BY <1>1, <1>3 DEF Clients, Leave, Send
  <2>2. port' = Append(port, c) /\ handles' = handles /\ c \notin Elements(port)
    BY <2>1, Sequences DEF Connect, Live
  <2>3. Elements(port') = Elements(port) \cup {c} /\ Queued' = Elements(port') /\ Held' = Held
    BY <2>2, Sequences, Appended DEF Queued, Held, Elements
  <2> QED
    BY <2>3, Sequences DEF Cut
<1>4. CASE ProcessNewSession
  <2>1. port' = Tail(port) /\ handles' = Append(handles, Head(port)) /\ port # <<>>
    BY <1>4, RoomInTable DEF ProcessNewSession, RoomForAll, IpcInv, Admitted
  <2>2. /\ Elements(port') = Elements(port) \ {Head(port)} /\ Head(port) \in Elements(port)
        /\ Head(port) \in Session
    BY <2>1, Sequences, HeadTaken
  <2>3. Elements(handles') = Elements(handles) \cup {Head(port)}
    BY <2>1, <2>2, Sequences, Appended
  <2>4. Queued' = Elements(port') /\ Held' = Elements(handles')
    BY DEF Queued, Held, Elements
  <2> QED
    BY <2>2, <2>3, <2>4, Sequences DEF Cut
<1>5. CASE ReceiveFails
  <2>1. Queued' = Queued /\ Held' = Held \ {handles[handleIndex]}
    BY <1>5, DeleteStep DEF ReceiveFails, Serving
  <2>2. s = handles[handleIndex]
    BY <2>1 DEF Cut
  <2> QED
    BY <1>5, <2>2 DEF ReceiveFails, Cut, Excused
<1>6. CASE ReplyCloses
  <2>1. Queued' = Queued /\ Held' = Held \ {handles[handleIndex]}
    BY <1>6, DeleteStep DEF ReplyCloses, Serving
  <2>2. s = handles[handleIndex] /\ ipc = "reply" /\ request.kind = "close"
    BY <1>6, <2>1 DEF Cut, ReplyCloses
  <2> QED
    BY <2>2 DEF IpcInv, Asked, Cut, Excused
<1> QED
  BY <1>1, <1>2, <1>3, <1>4, <1>5, <1>6
  DEF Next, Ipc, vars, kernel, WaitSynchronization, WaitCancelled, Receive, Handle, Reply

-----------------------------------------------------------------------------
\* The invariant holds at every step.
THEOREM IpcInvariant == Spec => []IpcInv
BY InitInv, NextStep, PTL DEF Spec

\* The variables keep their types: the table is a sequence of sessions at every moment.
THEOREM IpcTypeCorrect == Spec => []TypeOK
<1>1. IpcInv => TypeOK
  BY DEF IpcInv
<1> QED
  BY <1>1, IpcInvariant, PTL

\* ipc_server.c:60-87: what is added and deleted leaves each open session in the table
\* once, for any number of sessions and any order of arrivals and departures.
THEOREM TableStaysExact == Spec => []TableIsExact
<1>1. IpcInv => TableIsExact
  BY DEF IpcInv
<1> QED
  BY <1>1, IpcInvariant, PTL

\* ipc_server.c:62: the test for a full table never turns a client away.
THEOREM RoomForEveryone == Spec => []RoomForAll
BY RoomInTable, IpcInvariant, PTL

\* ipc_server.c:182: the index that was waited for still names the client that asked.
THEOREM AnswersGoHome == Spec => []AnswerGoesToAsker
<1>1. IpcInv => AnswerGoesToAsker
  BY DEF IpcInv
<1> QED
  BY <1>1, IpcInvariant, PTL

\* ipc_server.c:72: taking one session out of the table cuts nobody else off.
THEOREM OnlyItsOwnRequestCutsOff == Spec => NobodyCutOff
<1>1. IpcInv /\ [Next]_vars =>
        [\A s \in client \cap client' :
           s \in Held \cup Queued /\ s \notin (Held \cup Queued)' =>
             message[s] \in {"close", "malformed"} \/ main = "close"]_vars
  <2> SUFFICES ASSUME IpcInv, [Next]_vars, NEW s \in client, s \in client',
                      s \in Held \cup Queued, s \notin (Held \cup Queued)'
               PROVE  message[s] \in {"close", "malformed"} \/ main = "close"
    OBVIOUS
  <2>1. s \in Session /\ Cut(s)
    BY DEF IpcInv, TypeOK, Cut
  <2> QED
    BY <2>1, CutStep DEF Excused
<1> QED
  BY <1>1, IpcInvariant, PTL DEF Spec, NobodyCutOff
=============================================================================

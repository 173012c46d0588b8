------------------------- MODULE MCServices_proofs -------------------------
(***************************************************************************)
(* Proofs about WebSocket and HttpClient, for any number of sockets, of    *)
(* messages and of requests, and about the two together.                   *)
(*                                                                         *)
(* A socket is told its end once because the end is posted by the thread   *)
(* when it sets the state to closed, and never otherwise; what is posted   *)
(* is performed in order; and closing by the cocos thread, which reports   *)
(* the end itself, is only known of the restart of the virtual machine.    *)
(* The invariant follows a socket through its three lives: in the queue of *)
(* the thread, in its connection, and in the functions posted to the cocos *)
(* thread.  What it says of the last holds until the restart begins        *)
(* (Running), after which only the end of a socket is told.                *)
(***************************************************************************)
EXTENDS MCServices, TLAPS, SequenceTheorems, FiniteSetTheorems, FunctionTheorems

-----------------------------------------------------------------------------
(***************************************************************************)
(* The inductive invariant.                                                *)
(***************************************************************************)
\* Function i is about socket s.
About(i, s) == functions[i].socket = s

Told(s, what) == \E i \in 1..Len(events[s]) : events[s][i] = what

Pending(s, what) == \E i \in 1..Len(functions) : About(i, s) /\ functions[i].what = what

\* Nothing was posted about the socket yet.
Silent(s) == events[s] = << >> /\ \A i \in 1..Len(functions) : ~About(i, s)

\* The delegate was told of an error or of the end, or will be.
EndPosted(s) == \E what \in {"error", "close"} : Told(s, what) \/ Pending(s, what)

\* The socket has been created.
Born(s) == IsInstance(s) \/ finalized[s]

IsOpen(i) == queue[i].what = "open"

\* The request to open the socket is still in the queue.
Waits(s) == \E i \in 1..Len(queue) : IsOpen(i) /\ queue[i].user = s

OpensOnce ==
  \A i, j \in 1..Len(queue) : IsOpen(i) /\ IsOpen(j) /\ queue[i].user = queue[j].user => i = j

Closings == {"close", "wait", "woken", "onClose"}

Running == msock = NoSocket

\* A socket is requested once, before it has a connection.
ThreadInv ==
  /\ tsock = NoSocket <=> tpc \in {"none", "loop", "ended"}
  /\ tpc = "connect" => wire[tsock] = "none"
  /\ tpc \in {"error", "closed"} => wire[tsock] \in {"none", "ending", "gone"}
  /\ \A s \in Sockets : Waits(s) => wire[s] = "none" /\ tsock # s /\ readyState[s] # "closed"
  /\ OpensOnce

\* closeAllConnections closes each of the sockets that there are, one after the other.
CloseInv ==
  /\ Running => main \in {"idle", "join"} /\ toClose = << >>
  /\ main = "idle" => Running
  /\ main \in Closings =>
       toClose # << >> /\ msock = Head(toClose) /\ closeState[msock] \in {"sync", "synced"}
  /\ \A i \in 1..Len(toClose) : IsInstance(toClose[i])
  /\ \A i, j \in 1..Len(toClose) : toClose[i] = toClose[j] => i = j

\* The sockets with references are the instances.  One that has a reference left and may
\* yet be closed by close() has ended.
CountInv ==
  /\ \A i, j \in 1..Len(instances) : instances[i] = instances[j] => i = j
  /\ \A s \in Sockets : IsInstance(s) <=> refs[s] > 0
  /\ \A s \in Sockets : closeState[s] = "none" /\ refs[s] = 1 => readyState[s] = "closed"
  /\ main \in Closings /\ refs[msock] = 1 => readyState[msock] = "closed"

\* Until the virtual machine is restarted: nothing is posted about a socket before its
\* handshake has ended, ...
StartInv ==
  /\ \A s \in Sockets : Waits(s) => Silent(s)
  /\ tpc \in {"connect", "error"} => Silent(tsock)
  /\ \A s \in Sockets : wire[s] = "connecting" => Silent(s)
  /\ \A s \in Sockets : wire[s] \in {"established", "writable"} => ~EndPosted(s)

\* ... and what is posted, with what was told already, is in order.
OrderInv ==
  /\ \A i, j \in 1..Len(functions) : i < j /\ About(j, functions[i].socket) =>
       /\ functions[j].what # "open" /\ functions[i].what # "close"
       /\ functions[i].what = "error" => functions[j].what = "close"
  /\ \A i \in 1..Len(functions) : functions[i].what = "open" => events[functions[i].socket] = << >>
  /\ \A i \in 1..Len(functions) :
       /\ ~Told(functions[i].socket, "close")
       /\ Told(functions[i].socket, "error") => functions[i].what = "close"

StreamInv == StartInv /\ OrderInv

\* What is known of a socket is known since it was created.
BornInv ==
  /\ \A s \in Sockets : Waits(s) => Born(s)
  /\ \A i \in 1..Len(functions) : Born(functions[i].socket)
  /\ tsock # NoSocket => Born(tsock)
  /\ \A s \in Sockets : wire[s] # "none" \/ readyState[s] = "closed" => Born(s)
  /\ \A s \in Sockets : events[s] # << >> => Born(s)

\* The end is posted once, when the socket is closed, and a reference is held until then.
EndInv ==
  /\ \A s \in Sockets : Told(s, "close") \/ Pending(s, "close") => readyState[s] = "closed"
  /\ \A s \in Sockets : IsInstance(s) =>
       refs[s] = (IF Told(s, "close") THEN 0 ELSE 1) + (IF finalized[s] THEN 0 ELSE 1)

WsInv ==
  /\ TypeOK /\ ThreadInv /\ CloseInv /\ CountInv /\ ThreadUsesLiveSockets /\ EventsInOrder
  /\ Running => StreamInv /\ BornInv /\ EndInv

-----------------------------------------------------------------------------
(***************************************************************************)
(* Queues and functions.                                                   *)
(***************************************************************************)
\* What is erased from a queue leaves the others, in their order.
LEMMA RemoveAtProperties ==
  ASSUME NEW S, NEW s \in Seq(S), NEW i \in 1..Len(s)
  PROVE  /\ RemoveAt(s, i) \in Seq(S)
         /\ Len(RemoveAt(s, i)) = Len(s) - 1
         /\ \A j \in 1..(Len(s) - 1) :
              RemoveAt(s, i)[j] = IF j < i THEN s[j] ELSE s[j + 1]
<1> DEFINE a == SubSeq(s, 1, i - 1)
           b == SubSeq(s, i + 1, Len(s))
<1>1. RemoveAt(s, i) = a \o b
  BY DEF RemoveAt
<1>2. a \in Seq(S) /\ Len(a) = i - 1 /\ \A j \in 1..(i - 1) : a[j] = s[j]
  OBVIOUS
<1>3. b \in Seq(S) /\ Len(b) = Len(s) - i /\ \A j \in 1..(Len(s) - i) : b[j] = s[i + j]
  OBVIOUS
<1> HIDE DEF a, b
<1>4. a \o b \in Seq(S) /\ Len(a \o b) = Len(s) - 1
  <2>1. a \o b \in Seq(S) /\ Len(a \o b) = Len(a) + Len(b)
    BY <1>2, <1>3, ConcatProperties
  <2>2. Len(s) \in Nat /\ i \in Int
    OBVIOUS
  <2>3. QED
    BY <1>2, <1>3, <2>1, <2>2
<1>5. \A j \in 1..(Len(s) - 1) : (a \o b)[j] = IF j < i THEN s[j] ELSE s[j + 1]
  BY <1>2, <1>3
<1>6. QED
  BY <1>1, <1>4, <1>5

\* With element k erased, element i is the one that was at From(i, k).
From(i, k) == IF i < k THEN i ELSE i + 1

LEMMA Erased ==
  ASSUME NEW S, NEW s \in Seq(S), NEW k \in 1..Len(s)
  PROVE  /\ RemoveAt(s, k) \in Seq(S)
         /\ \A i \in 1..Len(RemoveAt(s, k)) :
              RemoveAt(s, k)[i] = s[From(i, k)] /\ From(i, k) \in 1..Len(s) /\ From(i, k) # k
         /\ \A i, j \in 1..Len(RemoveAt(s, k)) : From(i, k) = From(j, k) => i = j
<1>1. Len(s) \in Nat
  OBVIOUS
<1>2. /\ RemoveAt(s, k) \in Seq(S)
      /\ Len(RemoveAt(s, k)) = Len(s) - 1
      /\ \A j \in 1..(Len(s) - 1) : RemoveAt(s, k)[j] = IF j < k THEN s[j] ELSE s[j + 1]
  BY RemoveAtProperties
<1>3. /\ RemoveAt(s, k) \in Seq(S) /\ Len(RemoveAt(s, k)) = Len(s) - 1 /\ Len(s) \in Nat
      /\ \A j \in 1..(Len(s) - 1) : RemoveAt(s, k)[j] = IF j < k THEN s[j] ELSE s[j + 1]
  BY ONLY <1>1, <1>2
<1>4. \A i \in 1..Len(RemoveAt(s, k)) :
        RemoveAt(s, k)[i] = s[From(i, k)] /\ From(i, k) \in 1..Len(s) /\ From(i, k) # k
  BY <1>3 DEF From
<1>5. \A i, j \in 1..Len(RemoveAt(s, k)) : From(i, k) = From(j, k) => i = j
  BY <1>3 DEF From
<1>6. QED
  BY <1>3, <1>4, <1>5

\* Every other element is still there.
LEMMA ErasedKeeps ==
  ASSUME NEW S, NEW s \in Seq(S), NEW k \in 1..Len(s), NEW j \in 1..Len(s), j # k
  PROVE  \E i \in 1..Len(RemoveAt(s, k)) : RemoveAt(s, k)[i] = s[j]
<1>1. Len(RemoveAt(s, k)) = Len(s) - 1
  BY RemoveAtProperties
<1>2. \A i \in 1..(Len(s) - 1) : RemoveAt(s, k)[i] = IF i < k THEN s[i] ELSE s[i + 1]
  BY RemoveAtProperties
<1>3. Len(s) \in Nat
  OBVIOUS
<1>4. CASE j < k
  BY <1>1, <1>2, <1>3, <1>4
<1>5. CASE j > k
  <2>1. j - 1 \in 1..Len(RemoveAt(s, k)) /\ ~(j - 1 < k) /\ (j - 1) + 1 = j
    BY <1>1, <1>3, <1>5
  <2>2. QED
    BY <1>1, <1>2, <2>1
<1>6. QED
  BY <1>4, <1>5

FunctionSet == [socket : Sockets, what : {"open", "message", "error", "close"}]

\* A function is posted behind the others.
LEMMA PostEffect ==
  ASSUME TypeOK, NEW s \in Sockets, NEW what \in {"open", "message", "error", "close"}, Post(s, what)
  PROVE  /\ functions' \in Seq(FunctionSet)
         /\ Len(functions) \in Nat /\ Len(functions') = Len(functions) + 1
         /\ 1..Len(functions') = (1..Len(functions)) \cup {Len(functions) + 1}
         /\ \A i \in 1..Len(functions) : functions'[i] = functions[i]
         /\ functions'[Len(functions) + 1].socket = s
         /\ functions'[Len(functions) + 1].what = what
<1>1. functions' = Append(functions, [socket |-> s, what |-> what])
  BY DEF Post, Posted
<1>2. functions \in Seq(FunctionSet) /\ [socket |-> s, what |-> what] \in FunctionSet
  BY DEF TypeOK, FunctionSet
<1>3. /\ functions' \in Seq(FunctionSet) /\ Len(functions') = Len(functions) + 1
      /\ \A i \in 1..Len(functions) : functions'[i] = functions[i]
      /\ functions'[Len(functions) + 1] = [socket |-> s, what |-> what]
  BY <1>1, <1>2, AppendProperties
<1>4. Len(functions) \in Nat
  BY <1>2
<1>5. QED
  BY <1>3, <1>4

\* What is posted keeps the order, if nothing was to be told after it.
LEMMA PostOrder ==
  ASSUME TypeOK, OrderInv, NEW s \in Sockets, NEW what \in {"open", "message", "error", "close"},
         Post(s, what), events' = events,
         ~Told(s, "close"), ~Pending(s, "close"), what = "open" => Silent(s),
         Told(s, "error") \/ Pending(s, "error") => what = "close"
  PROVE  /\ OrderInv'
         /\ \A x : x # s /\ Silent(x) => Silent(x)'
         /\ \A x : (x # s \/ what \in {"open", "message"}) /\ EndPosted(x)' => EndPosted(x)
         /\ \A x : Pending(x, "close")' => Pending(x, "close") \/ (x = s /\ what = "close")
<1> DEFINE n == Len(functions)
<1>1. /\ n \in Nat /\ Len(functions') = n + 1
      /\ \A i \in 1..n : functions'[i] = functions[i]
      /\ functions'[n + 1].socket = s /\ functions'[n + 1].what = what
  BY PostEffect
<1>2. \A i \in 1..(n + 1) : i \in 1..n \/ i = n + 1
  BY <1>1
<1>3. \A x, w : Told(x, w)' <=> Told(x, w)
  BY DEF Told
<1>4. \A x, w : Pending(x, w)' => Pending(x, w) \/ (x = s /\ w = what)
  BY <1>1, <1>2 DEF Pending, About
<1>5. ASSUME NEW i \in 1..(n + 1), NEW j \in 1..(n + 1), i < j, functions'[j].socket = functions'[i].socket
      PROVE  /\ functions'[j].what # "open" /\ functions'[i].what # "close"
             /\ functions'[i].what = "error" => functions'[j].what = "close"
  <2>1. i \in 1..n
    BY <1>1, <1>5
  <2>2. CASE j \in 1..n
    BY <1>1, <1>5, <2>1, <2>2 DEF OrderInv, About
  <2>3. CASE j = n + 1
    <3>1. functions[i].socket = s /\ functions'[j].what = what /\ functions'[i] = functions[i]
      BY <1>1, <1>5, <2>1, <2>3
    <3>2. functions[i].what # "close" /\ (functions[i].what = "error" => what = "close")
      BY <2>1, <3>1 DEF Pending, About
    <3>3. what # "open"
      BY <2>1, <3>1 DEF Silent, About
    <3>4. QED
      BY <3>1, <3>2, <3>3
  <2>4. QED
    BY <1>2, <2>2, <2>3
<1>6. \A i \in 1..(n + 1) : functions'[i].what = "open" => events'[functions'[i].socket] = << >>
  BY <1>1, <1>2 DEF OrderInv, Silent
<1>7. \A i \in 1..(n + 1) :
        /\ ~Told(functions'[i].socket, "close")
        /\ Told(functions'[i].socket, "error") => functions'[i].what = "close"
  BY <1>1, <1>2 DEF OrderInv
<1>8. OrderInv'
  <2>1. \A i, j \in 1..Len(functions') : i < j /\ functions'[j].socket = functions'[i].socket =>
          /\ functions'[j].what # "open" /\ functions'[i].what # "close"
          /\ functions'[i].what = "error" => functions'[j].what = "close"
    BY <1>1, <1>5
  <2>2. QED
    BY <1>1, <1>3, <1>6, <1>7, <2>1 DEF OrderInv, About
<1>9. \A x : x # s /\ Silent(x) => Silent(x)'
  BY <1>1, <1>2 DEF Silent, About
<1>10. \A x : (x # s \/ what \in {"open", "message"}) /\ EndPosted(x)' => EndPosted(x)
  BY <1>3, <1>4 DEF EndPosted
<1>11. QED
  BY <1>4, <1>8, <1>9, <1>10

\* What is erased from the queue of the thread waits no longer, and nothing else begins to.
LEMMA QueueErased ==
  ASSUME TypeOK, NEW k \in DOMAIN queue, queue' = RemoveAt(queue, k)
  PROVE  /\ queue' \in Seq([what : {"open", "send"}, user : Sockets])
         /\ \A s : Waits(s)' => Waits(s)
         /\ OpensOnce => OpensOnce'
         /\ \A s : OpensOnce /\ IsOpen(k) /\ queue[k].user = s => ~Waits(s)'
<1>1. queue \in Seq([what : {"open", "send"}, user : Sockets]) /\ k \in 1..Len(queue)
  BY DEF TypeOK
<1>2. /\ queue' \in Seq([what : {"open", "send"}, user : Sockets])
      /\ \A i \in 1..Len(queue') :
           queue'[i] = queue[From(i, k)] /\ From(i, k) \in 1..Len(queue) /\ From(i, k) # k
      /\ \A i, j \in 1..Len(queue') : From(i, k) = From(j, k) => i = j
  <2>1. /\ RemoveAt(queue, k) \in Seq([what : {"open", "send"}, user : Sockets])
        /\ \A i \in 1..Len(RemoveAt(queue, k)) :
             RemoveAt(queue, k)[i] = queue[From(i, k)] /\ From(i, k) \in 1..Len(queue) /\ From(i, k) # k
        /\ \A i, j \in 1..Len(RemoveAt(queue, k)) : From(i, k) = From(j, k) => i = j
    BY <1>1, Erased
  <2>2. QED
    BY <2>1
<1>3. \A s : Waits(s)' => Waits(s)
  BY <1>2 DEF Waits, IsOpen
<1>4. OpensOnce => OpensOnce'
  BY <1>2 DEF OpensOnce, IsOpen
<1>5. ASSUME NEW s, OpensOnce, IsOpen(k), queue[k].user = s PROVE ~Waits(s)'
  BY <1>1, <1>2, <1>5 DEF OpensOnce, Waits, IsOpen
<1>6. QED
  BY <1>2, <1>3, <1>4, <1>5

\* What ThreadUsesLiveSockets says of the queue, socket by socket.
LEMMA LiveWaiting ==
  ASSUME TypeOK, ThreadUsesLiveSockets, NEW s \in Sockets, Waits(s) PROVE refs[s] > 0
BY DEF ThreadUsesLiveSockets, Waits, IsOpen, TypeOK

LEMMA WaitingLive ==
  ASSUME TypeOK', \A s \in Sockets : Waits(s)' => refs'[s] > 0,
         tsock' # NoSocket /\ readyState'[tsock'] # "closed" => refs'[tsock'] > 0
  PROVE  ThreadUsesLiveSockets'
<1>1. queue' \in Seq([what : {"open", "send"}, user : Sockets])
  BY DEF TypeOK
<1>2. \A i \in 1..Len(queue') : queue'[i] \in [what : {"open", "send"}, user : Sockets]
  BY <1>1, ElementOfSeq
<1>3. \A i \in DOMAIN queue' : queue'[i].what = "open" => refs'[queue'[i].user] > 0
  BY <1>1, <1>2 DEF Waits, IsOpen
<1>4. QED
  BY <1>3 DEF ThreadUsesLiveSockets

-----------------------------------------------------------------------------
(***************************************************************************)
(* What a step leaves alone.                                               *)
(***************************************************************************)
\* The queue is as it was.
LEMMA QueueFrame ==
  ASSUME UNCHANGED queue
  PROVE  /\ \A s : Waits(s)' <=> Waits(s)
         /\ \A i : IsOpen(i)' <=> IsOpen(i)
         /\ OpensOnce' <=> OpensOnce
BY DEF Waits, IsOpen, OpensOnce

LEMMA ThreadFrame ==
  ASSUME ThreadInv, UNCHANGED <<readyState, queue, tpc, tsock, wire>> PROVE ThreadInv'
BY QueueFrame DEF ThreadInv

LEMMA UseFrame ==
  ASSUME ThreadUsesLiveSockets, UNCHANGED <<readyState, refs, queue, tsock>>
  PROVE  ThreadUsesLiveSockets'
BY DEF ThreadUsesLiveSockets

LEMMA StreamFrame ==
  ASSUME StreamInv, UNCHANGED <<events, queue, tpc, tsock, wire, functions>> PROVE StreamInv'
BY QueueFrame DEF StreamInv, StartInv, OrderInv, Silent, EndPosted, Told, Pending, About

LEMMA OrderFrame == ASSUME OrderInv, UNCHANGED <<events, functions>> PROVE OrderInv'
BY DEF OrderInv, Told, About

LEMMA BornFrame ==
  ASSUME BornInv, UNCHANGED <<readyState, finalized, instances, events, queue, tsock, wire, functions>>
  PROVE  BornInv'
BY QueueFrame DEF BornInv, Born, IsInstance

\* The thread is in no socket when it is in none, and the queue is about sockets.
LEMMA Sorts ==
  ASSUME TypeOK
  PROVE  /\ \A i \in 1..Len(queue) : queue[i].user \in Sockets /\ queue[i].what \in {"open", "send"}
         /\ \A i \in 1..Len(functions) : functions[i].socket \in Sockets
         /\ NoSocket \notin Sockets
<1>1. \A i \in 1..Len(queue) : queue[i].user \in Sockets /\ queue[i].what \in {"open", "send"}
  <2>1. queue \in Seq([what : {"open", "send"}, user : Sockets])
    BY DEF TypeOK
  <2>2. \A i \in 1..Len(queue) : queue[i] \in [what : {"open", "send"}, user : Sockets]
    BY <2>1, ElementOfSeq
  <2>3. QED
    BY <2>2
<1>2. \A i \in 1..Len(functions) : functions[i].socket \in Sockets
  <2>1. functions \in Seq([socket : Sockets, what : {"open", "message", "error", "close"}])
    BY DEF TypeOK
  <2>2. \A i \in 1..Len(functions) :
          functions[i] \in [socket : Sockets, what : {"open", "message", "error", "close"}]
    BY <2>1, ElementOfSeq
  <2>3. QED
    BY <2>2
<1>3. QED
  BY <1>1, <1>2, NullAssumption

\* A step that ends no socket and leaves the references alone.
LEMMA QuietStep ==
  ASSUME WsInv, TypeOK', UNCHANGED <<refs, finalized, instances, events, mainVars>>,
         \A s \in Sockets :
           /\ readyState[s] = "closed" => readyState'[s] = "closed"
           /\ closeState'[s] = "none" => closeState[s] = "none"
           /\ closeState[s] \in {"sync", "synced"} => closeState'[s] \in {"sync", "synced"},
         ThreadInv', ThreadUsesLiveSockets',
         Running => StreamInv' /\ BornInv' /\ \A s \in Sockets : Pending(s, "close")' => readyState'[s] = "closed"
  PROVE  WsInv'
<1>1. /\ TypeOK /\ CloseInv /\ CountInv /\ EventsInOrder
      /\ Running => EndInv
  BY DEF WsInv
<1>2. main \in Closings => msock \in Sockets
  <2>1. toClose # << >> /\ toClose \in Seq(Sockets) => Head(toClose) \in Sockets
    OBVIOUS
  <2>2. QED
    BY <1>1, <2>1 DEF CloseInv, TypeOK
<1>3. main' = main /\ msock' = msock /\ toClose' = toClose /\ \A s : IsInstance(s)' <=> IsInstance(s)
  BY DEF mainVars, IsInstance
<1>4. \A s \in Sockets : readyState[s] = "closed" => readyState'[s] = "closed"
  OBVIOUS
<1>5. \A s \in Sockets : closeState'[s] = "none" => closeState[s] = "none"
  OBVIOUS
<1>6. \A s \in Sockets : closeState[s] \in {"sync", "synced"} => closeState'[s] \in {"sync", "synced"}
  OBVIOUS
<1>7. CloseInv'
  <2>1. main \in Closings => closeState'[msock] \in {"sync", "synced"}
    BY ONLY <1>1, <1>2, <1>6 DEF CloseInv
  <2>2. QED
    BY <1>1, <1>3, <2>1 DEF CloseInv, Running, Closings
<1>8. CountInv'
  <2>1. main \in Closings /\ refs[msock] = 1 => readyState'[msock] = "closed"
    BY ONLY <1>1, <1>2, <1>4 DEF CountInv
  <2>2. \A s \in Sockets : closeState'[s] = "none" /\ refs[s] = 1 => readyState'[s] = "closed"
    BY ONLY <1>1, <1>4, <1>5 DEF CountInv
  <2>3. QED
    BY <1>1, <1>3, <2>1, <2>2 DEF CountInv, Closings
<1>9. EventsInOrder'
  BY <1>1 DEF EventsInOrder
<1>10. ASSUME Running' PROVE EndInv'
  <2>1. EndInv /\ \A s \in Sockets : Pending(s, "close")' => readyState'[s] = "closed"
    BY <1>1, <1>10 DEF Running, mainVars
  <2>2. \A s : (Told(s, "close")' <=> Told(s, "close")) /\ (IsInstance(s)' <=> IsInstance(s))
    BY DEF Told, IsInstance
  <2>3. \A s \in Sockets : Told(s, "close")' \/ Pending(s, "close")' => readyState'[s] = "closed"
    BY <2>1, <2>2 DEF EndInv
  <2>4. \A s \in Sockets : IsInstance(s)' =>
          refs'[s] = (IF Told(s, "close")' THEN 0 ELSE 1) + (IF finalized'[s] THEN 0 ELSE 1)
    BY <2>1, <2>2 DEF EndInv
  <2>5. QED
    BY <2>3, <2>4 DEF EndInv
<1>11. Running' => Running
  BY DEF Running, mainVars
<1>12. QED
  BY <1>7, <1>8, <1>9, <1>10, <1>11 DEF WsInv

-----------------------------------------------------------------------------
(***************************************************************************)
(* The thread.                                                             *)
(***************************************************************************)
\* A connection begins.
LEMMA ConnectKeeps == ASSUME WsInv, Connect PROVE WsInv'
<1>1. /\ tpc = "connect" /\ wire' = [wire EXCEPT ![tsock] = "connecting"]
      /\ opening' = FALSE /\ tpc' = "loop" /\ tsock' = NoSocket
      /\ UNCHANGED <<readyState, closeState, refs, held, finalized, instances, events, queue,
                     needQuit, requested, mainVars, functions, messages>>
  BY DEF Connect, BackToLoop, Goto, socketVars
<1>2. /\ TypeOK /\ ThreadInv /\ ThreadUsesLiveSockets
      /\ Running => StreamInv /\ BornInv /\ EndInv
  BY DEF WsInv
<1>3. tsock \in Sockets /\ wire \in [Sockets -> {"none", "connecting", "established", "writable", "ending", "gone"}]
  BY <1>1, <1>2 DEF TypeOK, ThreadInv
<1>4. TypeOK'
  BY <1>1, <1>2, <1>3 DEF TypeOK, mainVars
<1>5. ThreadInv'
  BY <1>1, <1>2, <1>3, Sorts, QueueFrame DEF ThreadInv
<1>6. ThreadUsesLiveSockets'
  BY <1>1, <1>2 DEF ThreadUsesLiveSockets
<1>7. ASSUME Running PROVE StreamInv' /\ BornInv' /\ \A s \in Sockets : Pending(s, "close")' => readyState'[s] = "closed"
  <2>1. StreamInv /\ BornInv /\ EndInv
    BY <1>2, <1>7
  <2>2. StreamInv'
    BY <1>1, <1>3, <2>1, QueueFrame DEF StreamInv, StartInv, OrderInv, Silent, EndPosted, Told, Pending, About
  <2>3. BornInv'
    <3>1. \A s : Born(s)' <=> Born(s)
      BY <1>1 DEF Born, IsInstance
    <3>2. \A s \in Sockets : wire'[s] # "none" => wire[s] # "none" \/ s = tsock
      BY <1>1, <1>3
    <3>3. Born(tsock)
      BY <1>3, <2>1, NullAssumption DEF BornInv
    <3>4. \A s \in Sockets : wire'[s] # "none" \/ readyState'[s] = "closed" => Born(s)'
      BY <1>1, <2>1, <3>1, <3>2, <3>3 DEF BornInv
    <3>5. QED
      BY <1>1, <2>1, <3>1, <3>4, QueueFrame DEF BornInv
  <2>4. \A s \in Sockets : Pending(s, "close")' => readyState'[s] = "closed"
    BY <1>1, <2>1 DEF EndInv, Pending, About
  <2>5. QED
    BY <2>2, <2>3, <2>4
<1>8. QED
  BY <1>1, <1>4, <1>5, <1>6, <1>7, QuietStep

\* What an action of the thread starts from.
LEMMA Here ==
  ASSUME WsInv
  PROVE  /\ TypeOK /\ ThreadInv /\ ThreadUsesLiveSockets /\ CloseInv /\ CountInv /\ EventsInOrder
         /\ Running => StartInv /\ OrderInv /\ BornInv /\ EndInv
         /\ tpc \notin {"none", "loop", "ended"} => tsock \in Sockets
         /\ tpc \in {"none", "loop", "ended"} => tsock = NoSocket
<1>1. /\ TypeOK /\ ThreadInv /\ ThreadUsesLiveSockets /\ CloseInv /\ CountInv /\ EventsInOrder
      /\ Running => StartInv /\ OrderInv /\ BornInv /\ EndInv
  BY DEF WsInv, StreamInv
<1>2. tsock \in Sockets \cup {NoSocket}
  BY <1>1 DEF TypeOK
<1>3. QED
  BY <1>1, <1>2 DEF ThreadInv

\* There is no connection.
LEMMA NoConnectionKeeps == ASSUME WsInv, NoConnection PROVE WsInv'
<1>1. /\ tpc = "connect" /\ tpc' = "error" /\ tsock' = tsock
      /\ UNCHANGED <<readyState, closeState, refs, held, finalized, instances, events, queue, opening,
                     wire, needQuit, requested, mainVars, functions, messages>>
  BY DEF NoConnection, Goto, socketVars
<1>2. /\ TypeOK /\ ThreadInv /\ ThreadUsesLiveSockets
      /\ Running => StartInv /\ OrderInv /\ BornInv /\ EndInv
  BY Here
<1>3. TypeOK'
  BY <1>1, <1>2 DEF TypeOK, mainVars
<1>4. ThreadInv'
  BY <1>1, <1>2, QueueFrame DEF ThreadInv
<1>5. ThreadUsesLiveSockets'
  BY <1>1, <1>2 DEF ThreadUsesLiveSockets
<1>6. ASSUME Running
      PROVE  StreamInv' /\ BornInv' /\ \A s \in Sockets : Pending(s, "close")' => readyState'[s] = "closed"
  <2>1. StartInv' /\ OrderInv'
    BY <1>1, <1>2, <1>6, QueueFrame DEF StartInv, OrderInv, Silent, EndPosted, Told, Pending, About
  <2>2. BornInv'
    BY <1>1, <1>2, <1>6, BornFrame
  <2>3. \A s \in Sockets : Pending(s, "close")' => readyState'[s] = "closed"
    BY <1>1, <1>2, <1>6 DEF EndInv, Pending, About
  <2>4. QED
    BY <2>1, <2>2, <2>3 DEF StreamInv
<1>7. QED
  BY <1>1, <1>3, <1>4, <1>5, <1>6, QuietStep

\* The handshake succeeds: nothing was posted about the socket yet.
LEMMA EstablishedKeeps == ASSUME WsInv, NEW s \in Sockets, Established(s) PROVE WsInv'
<1>1. /\ tpc = "loop" /\ wire[s] = "connecting"
      /\ wire' \in [Sockets -> {"none", "connecting", "established", "writable", "ending", "gone"}]
      /\ wire'[s] \in {"established", "writable"} /\ \A x \in Sockets : x # s => wire'[x] = wire[x]
      /\ UNCHANGED <<closeState, refs, held, finalized, instances, events, queue, opening, tpc, tsock,
                     needQuit, requested, mainVars, messages>>
  <2>1. wire \in [Sockets -> {"none", "connecting", "established", "writable", "ending", "gone"}]
    BY DEF WsInv, TypeOK
  <2>2. QED
    BY <2>1 DEF Established, AtLoop
<1>2. /\ TypeOK /\ ThreadInv /\ ThreadUsesLiveSockets /\ tsock = NoSocket
      /\ Running => StartInv /\ OrderInv /\ BornInv /\ EndInv
  BY <1>1, Here
<1>3. \/ UNCHANGED <<readyState, functions>>
      \/ readyState[s] # "closed" /\ readyState' = [readyState EXCEPT ![s] = "open"] /\ Post(s, "open")
  BY DEF Established
<1>4. \A x \in Sockets : readyState'[x] = "closed" <=> readyState[x] = "closed"
  BY <1>2, <1>3 DEF TypeOK
<1>5. TypeOK'
  <2>1. readyState' \in [Sockets -> {"connecting", "open", "closing", "closed"}]
    BY <1>2, <1>3 DEF TypeOK
  <2>2. functions' \in Seq(FunctionSet)
    BY <1>2, <1>3, PostEffect DEF TypeOK, FunctionSet
  <2>3. QED
    BY <1>1, <1>2, <2>1, <2>2 DEF TypeOK, mainVars, FunctionSet
<1>6. ThreadInv'
  BY <1>1, <1>2, <1>4, Sorts, QueueFrame DEF ThreadInv
<1>7. ThreadUsesLiveSockets'
  BY <1>1, <1>2, Sorts DEF ThreadUsesLiveSockets
<1>8. ASSUME Running
      PROVE  StreamInv' /\ BornInv' /\ \A x \in Sockets : Pending(x, "close")' => readyState'[x] = "closed"
  <2>1. StartInv /\ OrderInv /\ BornInv /\ EndInv
    BY <1>2, <1>8
  <2>2. Silent(s) /\ ~Told(s, "close") /\ ~Pending(s, "close") /\ ~Told(s, "error") /\ ~Pending(s, "error")
    BY <1>1, <2>1 DEF StartInv, Silent, Told, Pending
  <2>3. /\ OrderInv'
        /\ \A x : x # s /\ Silent(x) => Silent(x)'
        /\ \A x : EndPosted(x)' => EndPosted(x)
        /\ \A x : Pending(x, "close")' => Pending(x, "close")
    <3>1. CASE UNCHANGED <<readyState, functions>>
      BY <1>1, <2>1, <3>1 DEF OrderInv, Silent, EndPosted, Told, Pending, About
    <3>2. CASE Post(s, "open")
      BY <1>1, <1>2, <2>1, <2>2, <3>2, PostOrder
    <3>3. QED
      BY <1>3, <3>1, <3>2
  <2>4. StartInv'
    <3>2. ~Waits(s)
      BY <1>1, <1>2 DEF ThreadInv
    <3>3. \A x \in Sockets : Waits(x)' => Silent(x)'
      BY <1>1, <2>1, <2>3, <3>2, QueueFrame DEF StartInv
    <3>4. \A x \in Sockets : wire'[x] = "connecting" => Silent(x)'
      BY <1>1, <2>1, <2>3 DEF StartInv
    <3>5. ~EndPosted(s)
      BY <2>2 DEF EndPosted
    <3>6. \A x \in Sockets : wire'[x] \in {"established", "writable"} => ~EndPosted(x)'
      BY <1>1, <2>1, <2>3, <3>5 DEF StartInv
    <3>7. tpc' \notin {"connect", "error"}
      BY <1>1
    <3>8. QED
      BY <3>3, <3>4, <3>6, <3>7 DEF StartInv
  <2>5. BornInv'
    <3>1. \A x : Born(x)' <=> Born(x)
      BY <1>1 DEF Born, IsInstance
    <3>2. Born(s)
      BY <1>1, <2>1 DEF BornInv
    <3>3. \A i \in 1..Len(functions') : Born(functions'[i].socket)
      BY <1>2, <1>3, <2>1, <3>2, PostEffect DEF BornInv
    <3>4. \A x \in Sockets : wire'[x] # "none" \/ readyState'[x] = "closed" => Born(x)
      BY <1>1, <1>4, <2>1, <3>2 DEF BornInv
    <3>5. QED
      BY <1>1, <2>1, <3>1, <3>3, <3>4, QueueFrame DEF BornInv
  <2>6. \A x \in Sockets : Pending(x, "close")' => readyState'[x] = "closed"
    BY <1>4, <2>1, <2>3 DEF EndInv
  <2>7. QED
    BY <2>3, <2>4, <2>5, <2>6 DEF StreamInv
<1>9. QED
  BY <1>1, <1>4, <1>5, <1>6, <1>7, <1>8, QuietStep

\* A socket is opened: it was requested once.
LEMMA OpenRequestKeeps == ASSUME WsInv, NEW s \in Sockets, OpenRequest(s) PROVE WsInv'
<1>1. /\ tpc = "loop" /\ tpc' = "connect" /\ tsock' = s /\ opening' = TRUE
      /\ readyState' = [readyState EXCEPT ![s] = "connecting"]
      /\ requested' = [requested EXCEPT ![s] = TRUE]
      /\ UNCHANGED <<closeState, refs, held, finalized, instances, events, needQuit, wire, mainVars,
                     functions, messages>>
  BY DEF OpenRequest, AtLoop, Goto
<1>2. /\ TypeOK /\ ThreadInv /\ ThreadUsesLiveSockets /\ tsock = NoSocket
      /\ Running => StartInv /\ OrderInv /\ BornInv /\ EndInv
  BY <1>1, Here
<1>3. PICK k \in DOMAIN queue : queue[k] = Open(s) /\ queue' = RemoveAt(queue, k)
  BY DEF OpenRequest
<1>4. k \in 1..Len(queue) /\ IsOpen(k) /\ queue[k].user = s /\ Waits(s)
  <2>1. k \in 1..Len(queue)
    BY <1>2 DEF TypeOK
  <2>2. queue[k].what = "open" /\ queue[k].user = s
    BY <1>3 DEF Open
  <2>3. QED
    BY <2>1, <2>2 DEF IsOpen, Waits
<1>5. /\ queue' \in Seq([what : {"open", "send"}, user : Sockets])
      /\ \A x : Waits(x)' => Waits(x)
      /\ OpensOnce' /\ ~Waits(s)'
  <2>1. OpensOnce
    BY <1>2 DEF ThreadInv
  <2>2. QED
    BY <1>2, <1>3, <1>4, <2>1, QueueErased
<1>6. wire[s] = "none" /\ readyState[s] # "closed" /\ refs[s] > 0
  BY <1>2, <1>4, LiveWaiting DEF ThreadInv
<1>7. readyState' \in [Sockets -> {"connecting", "open", "closing", "closed"}]
  BY <1>1, <1>2 DEF TypeOK
<1>8. \A x \in Sockets : readyState'[x] = "closed" <=> readyState[x] = "closed"
  BY <1>1, <1>2, <1>6 DEF TypeOK
<1>9. TypeOK'
  <2>1. requested' \in [Sockets -> BOOLEAN]
    BY <1>1, <1>2 DEF TypeOK
  <2>2. QED
    BY <1>1, <1>2, <1>5, <1>7, <2>1 DEF TypeOK, mainVars
<1>10. ThreadInv'
  BY <1>1, <1>2, <1>5, <1>6, <1>8, NullAssumption DEF ThreadInv
<1>11. ThreadUsesLiveSockets'
  BY <1>1, <1>2, <1>5, <1>6, <1>9, LiveWaiting, WaitingLive
<1>12. ASSUME Running
       PROVE  StreamInv' /\ BornInv' /\ \A x \in Sockets : Pending(x, "close")' => readyState'[x] = "closed"
  <2>1. StartInv /\ OrderInv /\ BornInv /\ EndInv
    BY <1>2, <1>12
  <2>2. \A x, w : (Silent(x)' <=> Silent(x)) /\ (EndPosted(x)' <=> EndPosted(x)) /\ (Pending(x, w)' <=> Pending(x, w))
    BY <1>1 DEF Silent, EndPosted, Told, Pending, About
  <2>3. StartInv'
    BY <1>1, <1>4, <1>5, <2>1, <2>2 DEF StartInv
  <2>4. OrderInv'
    BY <1>1, <2>1 DEF OrderInv, Told, About
  <2>5. BornInv'
    <3>1. \A x : Born(x)' <=> Born(x)
      BY <1>1 DEF Born, IsInstance
    <3>2. \A x \in Sockets : wire'[x] # "none" \/ readyState'[x] = "closed" => Born(x)
      BY <1>1, <1>8, <2>1 DEF BornInv
    <3>3. QED
      BY <1>1, <1>4, <1>5, <2>1, <3>1, <3>2 DEF BornInv
  <2>6. \A x \in Sockets : Pending(x, "close")' => readyState'[x] = "closed"
    BY <1>8, <2>1, <2>2 DEF EndInv
  <2>7. QED
    BY <2>3, <2>4, <2>5, <2>6 DEF StreamInv
<1>13. QED
  BY <1>1, <1>8, <1>9, <1>10, <1>11, <1>12, QuietStep

\* A step of the thread that changes only where it is and the connection of a socket, which
\* it leaves with nothing more to be told than before.
LEMMA WireStep ==
  ASSUME WsInv, NEW s \in Sockets,
         UNCHANGED <<readyState, closeState, refs, held, finalized, instances, events, queue, opening,
                     needQuit, requested, mainVars, functions, messages>>,
         tpc = "loop", wire[s] # "none", wire'[s] \in {"established", "writable", "ending", "gone"},
         wire'[s] \in {"established", "writable"} => wire[s] \in {"established", "writable"},
         wire' \in [Sockets -> {"none", "connecting", "established", "writable", "ending", "gone"}],
         \A x \in Sockets : x # s => wire'[x] = wire[x],
         \/ tpc' = "loop" /\ tsock' = tsock
         \/ /\ tpc' \in {"error", "closed", "write"} /\ tsock' = s /\ IsInstance(s)
            /\ tpc' = "error" => wire[s] = "connecting"
            /\ tpc' \in {"error", "closed"} => wire'[s] \in {"ending", "gone"}
  PROVE  WsInv'
<1>1. /\ TypeOK /\ ThreadInv /\ ThreadUsesLiveSockets /\ CountInv /\ tsock = NoSocket
      /\ Running => StartInv /\ OrderInv /\ BornInv /\ EndInv
  BY Here
<1>2. \A x : (Waits(x)' <=> Waits(x)) /\ (IsInstance(x)' <=> IsInstance(x)) /\ (Born(x)' <=> Born(x))
  BY QueueFrame DEF IsInstance, Born
<1>3. ~Waits(s)
  BY <1>1 DEF ThreadInv
<1>4. tpc' \in {"loop", "error", "closed", "write"} /\ tsock' \in Sockets \cup {NoSocket}
  BY <1>1
<1>5. TypeOK'
  BY <1>1, <1>4 DEF TypeOK, mainVars
<1>6. ThreadInv'
  <2>1. tsock' = NoSocket <=> tpc' \in {"none", "loop", "ended"}
    BY <1>1, NullAssumption
  <2>2. OpensOnce'
    BY <1>1, QueueFrame DEF ThreadInv, OpensOnce
  <2>3. \A x \in Sockets : Waits(x)' => wire'[x] = "none" /\ tsock' # x /\ readyState'[x] # "closed"
    BY <1>1, <1>2, <1>3, NullAssumption DEF ThreadInv
  <2>4. tpc' # "connect" /\ (tpc' \in {"error", "closed"} => wire'[tsock'] \in {"none", "ending", "gone"})
    OBVIOUS
  <2>5. QED
    BY <2>1, <2>2, <2>3, <2>4 DEF ThreadInv
<1>7. ThreadUsesLiveSockets'
  <2>1. tsock' # NoSocket => refs[tsock'] > 0
    BY <1>1 DEF CountInv
  <2>2. QED
    BY <1>1, <2>1 DEF ThreadUsesLiveSockets
<1>8. ASSUME Running
      PROVE  StreamInv' /\ BornInv' /\ \A x \in Sockets : Pending(x, "close")' => readyState'[x] = "closed"
  <2>1. StartInv /\ OrderInv /\ BornInv /\ EndInv
    BY <1>1, <1>8
  <2>2. \A x, w : (Silent(x)' <=> Silent(x)) /\ (EndPosted(x)' <=> EndPosted(x)) /\ (Pending(x, w)' <=> Pending(x, w))
    BY DEF Silent, EndPosted, Told, Pending, About
  <2>3. StartInv'
    <3>1. \A x \in Sockets : Waits(x)' => Silent(x)'
      BY <1>2, <2>1, <2>2 DEF StartInv
    <3>2. tpc' \in {"connect", "error"} => Silent(tsock)'
      BY <1>1, <2>1, <2>2 DEF StartInv
    <3>3. \A x \in Sockets : wire'[x] = "connecting" => Silent(x)'
      BY <2>1, <2>2 DEF StartInv
    <3>4. \A x \in Sockets : wire'[x] \in {"established", "writable"} => ~EndPosted(x)'
      BY <2>1, <2>2 DEF StartInv
    <3>5. QED
      BY <3>1, <3>2, <3>3, <3>4 DEF StartInv
  <2>4. OrderInv'
    BY <2>1 DEF OrderInv, Told, About
  <2>5. BornInv'
    <3>1. Born(s)
      BY <2>1 DEF BornInv
    <3>2. \A x \in Sockets : wire'[x] # "none" \/ readyState'[x] = "closed" => Born(x)
      BY <2>1, <3>1 DEF BornInv
    <3>3. tsock' # NoSocket => Born(tsock')
      BY <1>1, <3>1
    <3>4. QED
      BY <1>2, <2>1, <3>2, <3>3 DEF BornInv
  <2>6. \A x \in Sockets : Pending(x, "close")' => readyState'[x] = "closed"
    BY <2>1, <2>2 DEF EndInv
  <2>7. QED
    BY <2>3, <2>4, <2>5, <2>6 DEF StreamInv
<1>9. QED
  BY <1>5, <1>6, <1>7, <1>8, QuietStep

LEMMA ConnectionFailsKeeps == ASSUME WsInv, NEW s \in Sockets, ConnectionFails(s) PROVE WsInv'
<1>1. wire \in [Sockets -> {"none", "connecting", "established", "writable", "ending", "gone"}]
  BY DEF WsInv, TypeOK
<1>2. /\ tpc = "loop" /\ wire[s] = "connecting" /\ wire' = [wire EXCEPT ![s] = "ending"]
      /\ UNCHANGED <<readyState, closeState, refs, held, finalized, instances, events, queue, opening,
                     needQuit, requested, mainVars, functions, messages>>
      /\ \/ tpc' = "loop" /\ tsock' = tsock
         \/ tpc' = "error" /\ tsock' = s /\ IsInstance(s)
  BY DEF ConnectionFails, AtLoop, Goto, socketVars
<1>3. /\ wire' \in [Sockets -> {"none", "connecting", "established", "writable", "ending", "gone"}]
      /\ wire'[s] = "ending" /\ \A x \in Sockets : x # s => wire'[x] = wire[x]
  BY <1>1, <1>2
<1>4. QED
  BY <1>2, <1>3, WireStep

LEMMA ConnectionEndsKeeps == ASSUME WsInv, NEW s \in Sockets, ConnectionEnds(s) PROVE WsInv'
<1>1. wire \in [Sockets -> {"none", "connecting", "established", "writable", "ending", "gone"}]
  BY DEF WsInv, TypeOK
<1>2. /\ tpc = "loop" /\ wire[s] \in {"established", "writable", "ending"}
      /\ wire' = [wire EXCEPT ![s] = "gone"]
      /\ UNCHANGED <<readyState, closeState, refs, held, finalized, instances, events, queue, opening,
                     needQuit, requested, mainVars, functions, messages>>
      /\ \/ tpc' = "loop" /\ tsock' = tsock
         \/ tpc' = "closed" /\ tsock' = s /\ IsInstance(s)
  BY DEF ConnectionEnds, AtLoop, Goto, socketVars
<1>3. /\ wire' \in [Sockets -> {"none", "connecting", "established", "writable", "ending", "gone"}]
      /\ wire'[s] = "gone" /\ \A x \in Sockets : x # s => wire'[x] = wire[x]
  BY <1>1, <1>2
<1>4. QED
  BY <1>2, <1>3, WireStep

LEMMA WritableEndsKeeps == ASSUME WsInv, NEW s \in Sockets, WritableEnds(s) PROVE WsInv'
<1>1. wire \in [Sockets -> {"none", "connecting", "established", "writable", "ending", "gone"}]
  BY DEF WsInv, TypeOK
<1>2. /\ tpc = "loop" /\ wire[s] = "writable" /\ wire' = [wire EXCEPT ![s] = "ending"]
      /\ UNCHANGED <<readyState, closeState, refs, held, finalized, instances, events, queue, opening,
                     needQuit, requested, mainVars, functions, messages>>
      /\ tpc' = "loop" /\ tsock' = tsock
  BY DEF WritableEnds, AtLoop, socketVars
<1>3. /\ wire' \in [Sockets -> {"none", "connecting", "established", "writable", "ending", "gone"}]
      /\ wire'[s] = "ending" /\ \A x \in Sockets : x # s => wire'[x] = wire[x]
  BY <1>1, <1>2
<1>4. QED
  BY <1>2, <1>3, WireStep

LEMMA WritableKeeps == ASSUME WsInv, NEW s \in Sockets, Writable(s) PROVE WsInv'
<1>1. wire \in [Sockets -> {"none", "connecting", "established", "writable", "ending", "gone"}]
  BY DEF WsInv, TypeOK
<1>2. /\ tpc = "loop" /\ wire[s] = "writable" /\ wire' = wire
      /\ UNCHANGED <<readyState, closeState, refs, held, finalized, instances, events, queue, opening,
                     needQuit, requested, mainVars, functions, messages>>
      /\ tpc' = "write" /\ tsock' = s /\ IsInstance(s)
  BY DEF Writable, AtLoop, Goto, socketVars
<1>3. /\ wire' \in [Sockets -> {"none", "connecting", "established", "writable", "ending", "gone"}]
      /\ wire'[s] = "writable" /\ \A x \in Sockets : x # s => wire'[x] = wire[x]
  BY <1>1, <1>2
<1>4. QED
  BY <1>2, <1>3, WireStep

\* closeAsync marks a socket as being closed, but never as closed.
Marked ==
  /\ readyState' \in [Sockets -> {"connecting", "open", "closing", "closed"}]
  /\ closeState' \in [Sockets -> {"none", "sync", "synced", "async"}]
  /\ \A s \in Sockets :
       /\ readyState'[s] = "closed" <=> readyState[s] = "closed"
       /\ closeState'[s] = "none" => closeState[s] = "none"
       /\ closeState[s] \in {"sync", "synced"} => closeState'[s] \in {"sync", "synced"}

LEMMA MarkEffect ==
  ASSUME TypeOK, NEW s \in Sockets, CloseAsyncEffect(s) \/ UNCHANGED <<closeState, readyState>>
  PROVE  Marked
<1>1. /\ readyState \in [Sockets -> {"connecting", "open", "closing", "closed"}]
      /\ closeState \in [Sockets -> {"none", "sync", "synced", "async"}]
  BY DEF TypeOK
<1>2. CASE UNCHANGED <<closeState, readyState>>
  BY <1>1, <1>2 DEF Marked
<1>3. CASE /\ closeState[s] = "none" /\ closeState' = [closeState EXCEPT ![s] = "async"]
           /\ readyState' = [readyState EXCEPT ![s] = IF @ = "closed" THEN @ ELSE "closing"]
  BY <1>1, <1>3 DEF Marked
<1>4. QED
  BY <1>2, <1>3 DEF CloseAsyncEffect

\* The thread leaves a socket, or goes on to wait for close().
LEMMA ReturnStep ==
  ASSUME WsInv, opening' \in BOOLEAN,
         UNCHANGED <<readyState, closeState, refs, held, finalized, instances, events, queue, needQuit,
                     wire, requested, mainVars, functions, messages>>,
         \/ tpc' = "loop" /\ tsock' = NoSocket
         \/ tpc' = "notify" /\ tsock' = tsock /\ tsock \in Sockets
  PROVE  WsInv'
<1>1. /\ TypeOK /\ ThreadInv /\ ThreadUsesLiveSockets
      /\ Running => StartInv /\ OrderInv /\ BornInv /\ EndInv
  BY Here
<1>2. TypeOK'
  BY <1>1 DEF TypeOK, mainVars
<1>3. ThreadInv'
  BY <1>1, QueueFrame, NullAssumption DEF ThreadInv
<1>4. ThreadUsesLiveSockets'
  BY <1>1 DEF ThreadUsesLiveSockets
<1>5. ASSUME Running
      PROVE  StreamInv' /\ BornInv' /\ \A s \in Sockets : Pending(s, "close")' => readyState'[s] = "closed"
  <2>1. StartInv /\ OrderInv /\ BornInv /\ EndInv
    BY <1>1, <1>5
  <2>2. \A x, w : (Silent(x)' <=> Silent(x)) /\ (EndPosted(x)' <=> EndPosted(x)) /\ (Pending(x, w)' <=> Pending(x, w))
    BY DEF Silent, EndPosted, Told, Pending, About
  <2>3. StartInv' /\ OrderInv'
    BY <2>1, <2>2, QueueFrame DEF StartInv, OrderInv, Told, About
  <2>4. BornInv'
    BY <2>1, QueueFrame DEF BornInv, Born, IsInstance
  <2>5. \A x \in Sockets : Pending(x, "close")' => readyState'[x] = "closed"
    BY <2>1, <2>2 DEF EndInv
  <2>6. QED
    BY <2>3, <2>4, <2>5 DEF StreamInv
<1>6. QED
  BY <1>2, <1>3, <1>4, <1>5, QuietStep

\* A step of the thread that posts something about a socket, and returns to the loop or goes
\* on with the socket.
LEMMA PostStep ==
  ASSUME WsInv, NEW s \in Sockets, NEW what \in {"message", "error", "close"}, Post(s, what), TypeOK',
         UNCHANGED <<closeState, refs, held, finalized, instances, events, queue, wire, needQuit,
                     requested, mainVars>>,
         \A x \in Sockets : readyState'[x] = "closed" <=> readyState[x] = "closed" \/ (x = s /\ what = "close"),
         readyState[s] = "closed" => what = "message",
         what = "message" => wire[s] \in {"established", "writable"} /\ tpc = "loop",
         what # "message" => tsock = s /\ wire[s] \notin {"connecting", "established", "writable"},
         what = "error" => tpc = "error",
         \/ tpc' = "loop" /\ tsock' = NoSocket
         \/ tpc' = "closed" /\ tsock' = s /\ what = "error" /\ tpc = "error"
  PROVE  WsInv'
<1>1. /\ TypeOK /\ ThreadInv /\ ThreadUsesLiveSockets
      /\ Running => StartInv /\ OrderInv /\ BornInv /\ EndInv
  BY Here
<1>2. \A x : (Waits(x)' <=> Waits(x)) /\ (Born(x)' <=> Born(x))
  BY QueueFrame DEF IsInstance, Born
<1>3. ~Waits(s)
  BY <1>1 DEF ThreadInv
<1>4. ThreadInv'
  <2>1. OpensOnce'
    BY <1>1, QueueFrame DEF ThreadInv
  <2>2. \A x \in Sockets : Waits(x)' => wire'[x] = "none" /\ tsock' # x /\ readyState'[x] # "closed"
    BY <1>1, <1>2, <1>3, NullAssumption DEF ThreadInv
  <2>3. tsock' = NoSocket <=> tpc' \in {"none", "loop", "ended"}
    BY NullAssumption
  <2>4. tpc' # "connect" /\ (tpc' \in {"error", "closed"} => wire'[tsock'] \in {"none", "ending", "gone"})
    BY <1>1 DEF ThreadInv
  <2>5. QED
    BY <2>1, <2>2, <2>3, <2>4 DEF ThreadInv
<1>5. ThreadUsesLiveSockets'
  BY <1>1, NullAssumption DEF ThreadUsesLiveSockets
<1>6. ASSUME Running
      PROVE  StreamInv' /\ BornInv' /\ \A x \in Sockets : Pending(x, "close")' => readyState'[x] = "closed"
  <2>1. StartInv /\ OrderInv /\ BornInv /\ EndInv
    BY <1>1, <1>6
  <2>2. ~Told(s, "close") /\ ~Pending(s, "close")
    <3>1. CASE what = "message"
      BY <2>1, <3>1 DEF StartInv, EndPosted
    <3>2. CASE what # "message"
      BY <2>1, <3>2 DEF EndInv
    <3>3. QED
      BY <3>1, <3>2
  <2>3. Told(s, "error") \/ Pending(s, "error") => what = "close"
    <3>1. what = "message" => ~Told(s, "error") /\ ~Pending(s, "error")
      BY <2>1 DEF StartInv, EndPosted
    <3>2. what = "error" => ~Told(s, "error") /\ ~Pending(s, "error")
      BY <2>1 DEF StartInv, Silent, Told, Pending
    <3>3. QED
      BY <3>1, <3>2
  <2>4. /\ OrderInv'
        /\ \A x : x # s /\ Silent(x) => Silent(x)'
        /\ \A x : (x # s \/ what = "message") /\ EndPosted(x)' => EndPosted(x)
        /\ \A x : Pending(x, "close")' => Pending(x, "close") \/ (x = s /\ what = "close")
    BY <1>1, <2>1, <2>2, <2>3, PostOrder
  <2>5. StartInv'
    <3>1. \A x \in Sockets : Waits(x)' => Silent(x)'
      BY <1>2, <1>3, <2>1, <2>4 DEF StartInv
    <3>2. tpc' \notin {"connect", "error"}
      OBVIOUS
    <3>3. \A x \in Sockets : wire'[x] = "connecting" => Silent(x)'
      BY <2>1, <2>4 DEF StartInv
    <3>4. \A x \in Sockets : wire'[x] \in {"established", "writable"} => ~EndPosted(x)'
      BY <2>1, <2>4 DEF StartInv
    <3>5. QED
      BY <3>1, <3>2, <3>3, <3>4 DEF StartInv
  <2>6. BornInv'
    <3>1. Born(s)
      BY <2>1, NullAssumption DEF BornInv
    <3>2. \A x \in Sockets : wire'[x] # "none" \/ readyState'[x] = "closed" => Born(x)
      BY <2>1, <3>1 DEF BornInv
    <3>3. \A i \in 1..Len(functions') : Born(functions'[i].socket)
      BY <1>1, <2>1, <3>1, PostEffect DEF BornInv
    <3>4. tsock' # NoSocket => Born(tsock')
      BY <3>1
    <3>5. QED
      BY <1>2, <2>1, <3>2, <3>3, <3>4 DEF BornInv
  <2>7. \A x \in Sockets : Pending(x, "close")' => readyState'[x] = "closed"
    BY <2>1, <2>4 DEF EndInv
  <2>8. QED
    BY <2>4, <2>5, <2>6, <2>7 DEF StreamInv
<1>7. QED
  BY <1>4, <1>5, <1>6, QuietStep

LEMMA ReceiveKeeps == ASSUME WsInv, NEW s \in Sockets, Receive(s) PROVE WsInv'
<1>1. /\ tpc = "loop" /\ wire[s] \in {"established", "writable"} /\ Post(s, "message")
      /\ messages < MaxMessages /\ messages' = messages + 1
      /\ UNCHANGED <<readyState, closeState, refs, held, finalized, instances, events, queue, needQuit,
                     tpc, tsock, opening, wire, requested, mainVars>>
  BY DEF Receive, AtLoop, socketVars
<1>2. TypeOK /\ tsock = NoSocket
  BY <1>1, Here
<1>3. TypeOK'
  <2>1. functions' \in Seq([socket : Sockets, what : {"open", "message", "error", "close"}])
    BY <1>1, <1>2, PostEffect DEF FunctionSet
  <2>2. messages' \in 0..MaxMessages
    BY <1>1, <1>2, BoundAssumption DEF TypeOK
  <2>3. QED
    BY <1>1, <1>2, <2>1, <2>2 DEF TypeOK, mainVars
<1>4. /\ readyState[s] = "closed" => "message" = "message"
      /\ \A x \in Sockets : readyState'[x] = "closed" <=> readyState[x] = "closed"
  BY <1>1
<1>5. QED
  BY <1>1, <1>2, <1>3, <1>4, PostStep

LEMMA ConnectionErrorKeeps == ASSUME WsInv, ConnectionError PROVE WsInv'
<1>1. /\ tpc = "error"
      /\ UNCHANGED <<closeState, refs, held, finalized, instances, events, queue, needQuit, wire,
                     requested, mainVars, messages>>
  BY DEF ConnectionError
<1>2. /\ TypeOK /\ ThreadInv /\ ThreadUsesLiveSockets /\ tsock \in Sockets
      /\ Running => StartInv /\ OrderInv /\ BornInv /\ EndInv
  BY <1>1, Here
<1>3. CASE readyState[tsock] = "closed"
  <2>1. /\ tpc' = "loop" /\ tsock' = NoSocket /\ opening' = FALSE
        /\ UNCHANGED <<readyState, functions>>
    BY <1>3 DEF ConnectionError, Return, BackToLoop, Goto
  <2>2. QED
    BY <1>1, <2>1, ReturnStep
<1>4. CASE readyState[tsock] # "closed"
  <2>1. /\ readyState' = [readyState EXCEPT ![tsock] = "closing"] /\ Post(tsock, "error")
        /\ tpc' = "closed" /\ tsock' = tsock /\ opening' = opening
    BY <1>4 DEF ConnectionError, Goto
  <2>2. /\ readyState' \in [Sockets -> {"connecting", "open", "closing", "closed"}]
        /\ \A x \in Sockets : readyState'[x] = "closed" <=> readyState[x] = "closed"
    BY <1>2, <1>4, <2>1 DEF TypeOK
  <2>3. TypeOK'
    <3>1. functions' \in Seq([socket : Sockets, what : {"open", "message", "error", "close"}])
      BY <1>2, <2>1, PostEffect DEF FunctionSet
    <3>2. QED
      BY <1>1, <1>2, <2>1, <2>2, <3>1 DEF TypeOK, mainVars
  <2>4. wire[tsock] \notin {"connecting", "established", "writable"}
    BY <1>1, <1>2 DEF ThreadInv
  <2>5. QED
    BY <1>1, <1>2, <1>4, <2>1, <2>2, <2>3, <2>4, PostStep
<1>5. QED
  BY <1>3, <1>4

LEMMA ConnectionClosedKeeps == ASSUME WsInv, ConnectionClosed PROVE WsInv'
<1>1. /\ tpc = "closed"
      /\ UNCHANGED <<closeState, refs, held, finalized, instances, events, queue, needQuit, wire,
                     requested, mainVars, messages>>
  BY DEF ConnectionClosed
<1>2. /\ TypeOK /\ ThreadInv /\ ThreadUsesLiveSockets /\ tsock \in Sockets
      /\ Running => StartInv /\ OrderInv /\ BornInv /\ EndInv
  BY <1>1, Here
<1>3. CASE /\ \/ tpc' = "loop" /\ tsock' = NoSocket /\ opening' = FALSE
              \/ tpc' = "notify" /\ tsock' = tsock /\ opening' = opening
           /\ UNCHANGED <<readyState, functions>>
  <2>1. opening' \in BOOLEAN
    BY <1>2, <1>3 DEF TypeOK
  <2>2. \/ tpc' = "loop" /\ tsock' = NoSocket
        \/ tpc' = "notify" /\ tsock' = tsock /\ tsock \in Sockets
    BY <1>2, <1>3
  <2>3. QED
    BY <1>1, <1>3, <2>1, <2>2, ReturnStep
<1>4. CASE /\ ~AlreadyReported(tsock) /\ readyState' = [readyState EXCEPT ![tsock] = "closed"]
           /\ Post(tsock, "close") /\ tpc' = "loop" /\ tsock' = NoSocket /\ opening' = FALSE
  <2>1. /\ readyState' \in [Sockets -> {"connecting", "open", "closing", "closed"}]
        /\ readyState[tsock] # "closed"
        /\ \A x \in Sockets : readyState'[x] = "closed" <=> readyState[x] = "closed" \/ x = tsock
    BY <1>2, <1>4 DEF TypeOK, AlreadyReported
  <2>2. TypeOK'
    <3>1. functions' \in Seq([socket : Sockets, what : {"open", "message", "error", "close"}])
      BY <1>2, <1>4, PostEffect DEF FunctionSet
    <3>2. QED
      BY <1>1, <1>2, <1>4, <2>1, <3>1 DEF TypeOK, mainVars
  <2>3. wire[tsock] \notin {"connecting", "established", "writable"}
    BY <1>1, <1>2 DEF ThreadInv
  <2>4. QED
    BY <1>1, <1>2, <1>4, <2>1, <2>2, <2>3, PostStep
<1>5. QED
  BY <1>3, <1>4 DEF ConnectionClosed, Return, BackToLoop, Goto

\* The notification is repeated until close() has seen it.
LEMMA NotifyCloseKeeps == ASSUME WsInv, NotifyClose PROVE WsInv'
<1>1. /\ tpc = "notify"
      /\ UNCHANGED <<readyState, closeState, refs, held, finalized, instances, events, queue, needQuit,
                     wire, requested, msock, toClose, functions, messages>>
      /\ \/ tpc' = "loop" /\ tsock' = NoSocket /\ opening' = FALSE /\ main' = main
         \/ /\ main' = main \/ (main = "wait" /\ main' = "woken")
            /\ UNCHANGED <<tpc, tsock, opening>>
  BY DEF NotifyClose, Return, BackToLoop, Goto, socketVars
<1>2. CASE main' = main
  <2>1. UNCHANGED mainVars
    BY <1>1, <1>2 DEF mainVars
  <2>2. opening \in BOOLEAN /\ tsock \in Sockets
    BY <1>1, Here DEF TypeOK
  <2>3. opening' \in BOOLEAN
    BY <1>1, <2>2
  <2>4. \/ tpc' = "loop" /\ tsock' = NoSocket
        \/ tpc' = "notify" /\ tsock' = tsock /\ tsock \in Sockets
    BY <1>1, <2>2
  <2>5. QED
    BY <1>1, <2>1, <2>3, <2>4, ReturnStep
<1>3. CASE main = "wait" /\ main' = "woken" /\ UNCHANGED <<tpc, tsock, opening>>
  <2>1. /\ TypeOK /\ ThreadInv /\ ThreadUsesLiveSockets /\ CloseInv /\ CountInv /\ EventsInOrder
        /\ ~Running
    BY <1>3, Here DEF CloseInv
  <2>2. TypeOK'
    BY <1>1, <1>3, <2>1 DEF TypeOK
  <2>3. ThreadInv' /\ ThreadUsesLiveSockets'
    BY <1>1, <1>3, <2>1, ThreadFrame, UseFrame
  <2>4. CloseInv' /\ CountInv'
    BY <1>1, <1>3, <2>1 DEF CloseInv, CountInv, Running, Closings, IsInstance
  <2>5. EventsInOrder' /\ ~Running'
    BY <1>1, <2>1 DEF EventsInOrder, Running
  <2>6. QED
    BY <2>2, <2>3, <2>4, <2>5 DEF WsInv
<1>4. QED
  BY <1>1, <1>2, <1>3

\* The context is destroyed with its connections.
LEMMA ThreadEndsKeeps == ASSUME WsInv, ThreadEnds PROVE WsInv'
<1>1. /\ tpc = "loop" /\ tpc' = "ended"
      /\ wire' = [s \in Sockets |-> IF wire[s] = "none" THEN "none" ELSE "gone"]
      /\ UNCHANGED <<readyState, closeState, refs, held, finalized, instances, events, queue, needQuit,
                     tsock, opening, requested, mainVars, functions, messages>>
  BY DEF ThreadEnds, socketVars
<1>2. /\ TypeOK /\ ThreadInv /\ ThreadUsesLiveSockets /\ tsock = NoSocket
      /\ Running => StartInv /\ OrderInv /\ BornInv /\ EndInv
  BY <1>1, Here
<1>3. /\ wire' \in [Sockets -> {"none", "connecting", "established", "writable", "ending", "gone"}]
      /\ \A s \in Sockets : (wire'[s] = "none" <=> wire[s] = "none") /\ wire'[s] \in {"none", "gone"}
  BY <1>1
<1>4. TypeOK'
  BY <1>1, <1>2, <1>3 DEF TypeOK, mainVars
<1>5. ThreadInv'
  BY <1>1, <1>2, <1>3, QueueFrame DEF ThreadInv
<1>6. ThreadUsesLiveSockets'
  BY <1>1, <1>2 DEF ThreadUsesLiveSockets
<1>7. ASSUME Running
      PROVE  StreamInv' /\ BornInv' /\ \A s \in Sockets : Pending(s, "close")' => readyState'[s] = "closed"
  <2>1. StartInv /\ OrderInv /\ BornInv /\ EndInv
    BY <1>2, <1>7
  <2>2. \A x, w : (Silent(x)' <=> Silent(x)) /\ (EndPosted(x)' <=> EndPosted(x)) /\ (Pending(x, w)' <=> Pending(x, w))
    BY <1>1 DEF Silent, EndPosted, Told, Pending, About
  <2>3. StartInv'
    BY <1>1, <1>3, <2>1, <2>2, QueueFrame DEF StartInv
  <2>4. OrderInv'
    BY <1>1, <2>1 DEF OrderInv, Told, About
  <2>5. BornInv'
    BY <1>1, <1>3, <2>1, QueueFrame DEF BornInv, Born, IsInstance
  <2>6. \A x \in Sockets : Pending(x, "close")' => readyState'[x] = "closed"
    BY <1>1, <2>1, <2>2 DEF EndInv
  <2>7. QED
    BY <2>3, <2>4, <2>5, <2>6 DEF StreamInv
<1>8. QED
  BY <1>1, <1>4, <1>5, <1>6, <1>7, QuietStep

\* What is written leaves the queue, and the connection may prove to be broken.
LEMMA WriteKeeps == ASSUME WsInv, Write PROVE WsInv'
<1>1. /\ tpc = "write" /\ tpc' = "loop" /\ tsock' = NoSocket
      /\ UNCHANGED <<refs, held, finalized, instances, events, needQuit, opening, wire, requested,
                     mainVars, functions, messages>>
  BY DEF Write, BackToLoop, Goto
<1>2. /\ TypeOK /\ ThreadInv /\ ThreadUsesLiveSockets /\ tsock \in Sockets
      /\ Running => StartInv /\ OrderInv /\ BornInv /\ EndInv
  BY <1>1, Here
<1>3. PICK k \in DOMAIN queue : queue' = RemoveAt(queue, k)
  BY DEF Write
<1>4. /\ queue' \in Seq([what : {"open", "send"}, user : Sockets])
      /\ \A x : Waits(x)' => Waits(x)
      /\ OpensOnce'
  BY <1>2, <1>3, QueueErased DEF ThreadInv
<1>5. Marked
  <2>1. CloseAsyncEffect(tsock) \/ UNCHANGED <<closeState, readyState>>
    BY DEF Write
  <2>2. QED
    BY <1>2, <2>1, MarkEffect
<1>6. TypeOK'
  BY <1>1, <1>2, <1>4, <1>5 DEF TypeOK, mainVars, Marked
<1>7. ThreadInv'
  <2>1. \A s \in Sockets : Waits(s)' => wire'[s] = "none" /\ tsock' # s /\ readyState'[s] # "closed"
    BY <1>1, <1>2, <1>4, <1>5, NullAssumption DEF ThreadInv, Marked
  <2>2. QED
    BY <1>1, <1>4, <2>1 DEF ThreadInv
<1>8. ThreadUsesLiveSockets'
  BY <1>1, <1>2, <1>4, <1>6, LiveWaiting, WaitingLive
<1>9. ASSUME Running
      PROVE  StreamInv' /\ BornInv' /\ \A s \in Sockets : Pending(s, "close")' => readyState'[s] = "closed"
  <2>1. StartInv /\ OrderInv /\ BornInv /\ EndInv
    BY <1>2, <1>9
  <2>2. \A x, w : (Silent(x)' <=> Silent(x)) /\ (EndPosted(x)' <=> EndPosted(x)) /\ (Pending(x, w)' <=> Pending(x, w))
    BY <1>1 DEF Silent, EndPosted, Told, Pending, About
  <2>3. StartInv'
    BY <1>1, <1>4, <2>1, <2>2 DEF StartInv
  <2>4. OrderInv'
    BY <1>1, <2>1 DEF OrderInv, Told, About
  <2>5. BornInv'
    BY <1>1, <1>4, <1>5, <2>1 DEF BornInv, Born, IsInstance, Marked
  <2>6. \A x \in Sockets : Pending(x, "close")' => readyState'[x] = "closed"
    BY <1>5, <2>1, <2>2 DEF EndInv, Marked
  <2>7. QED
    BY <2>3, <2>4, <2>5, <2>6 DEF StreamInv
<1>10. QED
  BY <1>1, <1>5, <1>6, <1>7, <1>8, <1>9, QuietStep DEF Marked

-----------------------------------------------------------------------------
(***************************************************************************)
(* The cocos thread: queues, references and events.                        *)
(***************************************************************************)
\* What is sent stands behind the rest of the queue.
LEMMA QueueGrown ==
  ASSUME TypeOK, NEW m \in [what : {"open", "send"}, user : Sockets], queue' = Append(queue, m)
  PROVE  /\ queue' \in Seq([what : {"open", "send"}, user : Sockets])
         /\ \A s : Waits(s)' <=> Waits(s) \/ (m.what = "open" /\ m.user = s)
         /\ OpensOnce /\ (m.what = "open" => ~Waits(m.user)) => OpensOnce'
<1> DEFINE n == Len(queue)
<1>1. queue \in Seq([what : {"open", "send"}, user : Sockets])
  BY DEF TypeOK
<1>2. n \in Nat
  BY <1>1
<1>3. /\ queue' \in Seq([what : {"open", "send"}, user : Sockets])
      /\ Len(queue') = n + 1 /\ queue'[n + 1] = m
      /\ \A i \in 1..n : queue'[i] = queue[i]
  BY <1>1, AppendProperties
<1>4. \A i \in 1..(n + 1) : i \in 1..n \/ i = n + 1
  BY <1>2
<1>5. \A i \in 1..n : i \in 1..(n + 1)
  BY <1>2
<1>6. n + 1 \in 1..(n + 1)
  BY <1>2
<1> HIDE DEF n
<1>7. ASSUME NEW s PROVE Waits(s)' <=> Waits(s) \/ (m.what = "open" /\ m.user = s)
  <2>1. Waits(s)' <=> \E i \in 1..(n + 1) : queue'[i].what = "open" /\ queue'[i].user = s
    BY <1>3 DEF Waits, IsOpen
  <2>2. Waits(s) <=> \E i \in 1..n : queue[i].what = "open" /\ queue[i].user = s
    BY DEF Waits, IsOpen, n
  <2>3. QED
    BY ONLY <1>3, <1>4, <1>5, <1>6, <2>1, <2>2
<1>8. ASSUME OpensOnce, m.what = "open" => ~Waits(m.user) PROVE OpensOnce'
  <2>1. ASSUME NEW i \in 1..(n + 1), NEW j \in 1..(n + 1), queue'[i].what = "open", queue'[j].what = "open",
               queue'[i].user = queue'[j].user
        PROVE  i = j
    <3>1. CASE i \in 1..n /\ j \in 1..n
      BY <1>3, <1>8, <2>1, <3>1 DEF OpensOnce, IsOpen, n
    <3>2. CASE i \in 1..n /\ j = n + 1
      BY <1>3, <1>8, <2>1, <3>2 DEF Waits, IsOpen, n
    <3>3. CASE i = n + 1 /\ j \in 1..n
      BY <1>3, <1>8, <2>1, <3>3 DEF Waits, IsOpen, n
    <3>4. QED
      BY <1>4, <3>1, <3>2, <3>3
  <2>2. QED
    BY <1>3, <2>1 DEF OpensOnce, IsOpen
<1>9. QED
  BY <1>3, <1>7, <1>8

\* Each socket is among the instances once.
InstancesOnce == \A i, j \in 1..Len(instances) : instances[i] = instances[j] => i = j

\* The destructor takes its own socket from the instances.
LEMMA InstanceErased ==
  ASSUME TypeOK, InstancesOnce, NEW s \in Sockets, IsInstance(s), instances' = InstancesWithout(s)
  PROVE  /\ instances' \in Seq(Sockets) /\ InstancesOnce'
         /\ \A x : IsInstance(x)' <=> IsInstance(x) /\ x # s
<1> DEFINE k == CHOOSE i \in DOMAIN instances : instances[i] = s
<1>1. instances \in Seq(Sockets) /\ DOMAIN instances = 1..Len(instances)
  BY DEF TypeOK
<1>2. k \in 1..Len(instances) /\ instances[k] = s
  BY <1>1 DEF IsInstance
<1>3. instances' = RemoveAt(instances, k)
  BY DEF InstancesWithout
<1> HIDE DEF k
<1>4. /\ RemoveAt(instances, k) \in Seq(Sockets)
      /\ \A i \in 1..Len(RemoveAt(instances, k)) :
           RemoveAt(instances, k)[i] = instances[From(i, k)] /\ From(i, k) \in 1..Len(instances) /\ From(i, k) # k
      /\ \A i, j \in 1..Len(RemoveAt(instances, k)) : From(i, k) = From(j, k) => i = j
      /\ \A j \in 1..Len(instances) : j # k =>
           \E i \in 1..Len(RemoveAt(instances, k)) : RemoveAt(instances, k)[i] = instances[j]
  <2>1. /\ RemoveAt(instances, k) \in Seq(Sockets)
        /\ \A i \in 1..Len(RemoveAt(instances, k)) :
             RemoveAt(instances, k)[i] = instances[From(i, k)] /\ From(i, k) \in 1..Len(instances) /\ From(i, k) # k
        /\ \A i, j \in 1..Len(RemoveAt(instances, k)) : From(i, k) = From(j, k) => i = j
    BY <1>1, <1>2, Erased
  <2>2. ASSUME NEW j \in 1..Len(instances), j # k
        PROVE  \E i \in 1..Len(RemoveAt(instances, k)) : RemoveAt(instances, k)[i] = instances[j]
    BY <1>1, <1>2, <2>2, ErasedKeeps
  <2>3. QED
    BY ONLY <2>1, <2>2
<1>5. instances' \in Seq(Sockets) /\ DOMAIN instances' = 1..Len(instances')
  BY <1>3, <1>4
<1>6. InstancesOnce'
  <2>1. ASSUME NEW i \in 1..Len(instances'), NEW j \in 1..Len(instances'), instances'[i] = instances'[j]
        PROVE  i = j
    <3>1. From(i, k) \in 1..Len(instances) /\ From(j, k) \in 1..Len(instances)
      BY <1>3, <1>4
    <3>2. instances[From(i, k)] = instances[From(j, k)]
      BY <1>3, <1>4, <2>1
    <3>3. From(i, k) = From(j, k)
      BY <3>1, <3>2 DEF InstancesOnce
    <3>4. QED
      BY <1>3, <1>4, <3>3
  <2>2. QED
    BY <2>1 DEF InstancesOnce
<1>7. ASSUME NEW x PROVE IsInstance(x)' <=> IsInstance(x) /\ x # s
  <2>1. IsInstance(x)' => IsInstance(x) /\ x # s
    BY <1>1, <1>2, <1>3, <1>4, <1>5 DEF IsInstance, InstancesOnce
  <2>2. IsInstance(x) /\ x # s => IsInstance(x)'
    BY <1>1, <1>2, <1>3, <1>4, <1>5 DEF IsInstance
  <2>3. QED
    BY <2>1, <2>2
<1>8. QED
  BY <1>5, <1>6, <1>7

\* A reference goes, and with the last one the socket.
LEMMA ReleaseEffect ==
  ASSUME TypeOK, CountInv, NEW s \in Sockets, refs[s] > 0, NEW next, Release(s, next)
  PROVE  /\ refs' \in [Sockets -> 0..2] /\ refs'[s] = refs[s] - 1
         /\ \A x \in Sockets : x # s => refs'[x] = refs[x]
         /\ instances' \in Seq(Sockets) /\ InstancesOnce'
         /\ \A x : IsInstance(x)' <=> IsInstance(x) /\ (x = s => refs[s] # 1)
         /\ \A x \in Sockets : IsInstance(x)' <=> refs'[x] > 0
         /\ needQuit' \in BOOLEAN
         /\ main' \in {next, "join"}
<1>1. /\ refs' = [refs EXCEPT ![s] = refs[s] - 1]
      /\ instances' = IF refs[s] = 1 THEN InstancesWithout(s) ELSE instances
      /\ needQuit' = Quits(refs[s] = 1 /\ InstancesWithout(s) = << >>)
      /\ main' = IF refs[s] = 1 /\ InstancesWithout(s) = << >> THEN "join" ELSE next
  BY DEF Release
<1>2. refs \in [Sockets -> 0..2] /\ instances \in Seq(Sockets) /\ needQuit \in BOOLEAN
  BY DEF TypeOK
<1>3. refs[s] \in {1, 2} /\ refs[s] - 1 \in 0..2
  BY <1>2
<1>4. /\ refs' \in [Sockets -> 0..2] /\ refs'[s] = refs[s] - 1
      /\ \A x \in Sockets : x # s => refs'[x] = refs[x]
  BY <1>1, <1>2, <1>3
<1>5. InstancesOnce /\ \A x \in Sockets : IsInstance(x) <=> refs[x] > 0
  BY DEF CountInv, InstancesOnce
<1>6. /\ instances' \in Seq(Sockets) /\ InstancesOnce'
      /\ \A x : IsInstance(x)' <=> IsInstance(x) /\ (x = s => refs[s] # 1)
  <2>1. CASE refs[s] = 1
    BY <1>1, <1>5, <2>1, InstanceErased
  <2>2. CASE refs[s] # 1
    BY <1>1, <1>2, <1>5, <2>2 DEF InstancesOnce, IsInstance
  <2>3. QED
    BY <2>1, <2>2
<1>7. \A x \in Sockets : IsInstance(x)' <=> refs'[x] > 0
  <2>1. IsInstance(s)' <=> refs'[s] > 0
    BY <1>3, <1>4, <1>5, <1>6
  <2>2. QED
    BY <1>4, <1>5, <1>6, <2>1
<1>8. needQuit' \in BOOLEAN
  BY <1>1, <1>2 DEF Quits
<1>9. main' \in {next, "join"}
  BY <1>1
<1>10. QED
  BY <1>4, <1>6, <1>7, <1>8, <1>9

\* What the delegate was told after one more event.
LEMMA ToldAfter ==
  ASSUME TypeOK, NEW s \in Sockets, NEW what \in {"open", "message", "error", "close"},
         events' = [events EXCEPT ![s] = Append(events[s], what)]
  PROVE  \A w : Told(s, w)' <=> Told(s, w) \/ w = what
<1> DEFINE n == Len(events[s])
<1>1. events[s] \in Seq({"open", "message", "error", "close"}) /\ events'[s] = Append(events[s], what)
  BY DEF TypeOK
<1>2. /\ Len(events'[s]) = n + 1 /\ n \in Nat
      /\ \A i \in 1..n : events'[s][i] = events[s][i]
      /\ events'[s][n + 1] = what
  BY <1>1, AppendProperties
<1>3. (\A i \in 1..(n + 1) : i \in 1..n \/ i = n + 1) /\ (\A i \in 1..n : i \in 1..(n + 1)) /\ n + 1 \in 1..(n + 1)
  BY <1>2
<1>4. QED
  BY <1>2, <1>3 DEF Told

\* One more event keeps the order, if it may come after what the delegate was told.
LEMMA EventAdded ==
  ASSUME TypeOK, EventsInOrder, NEW s \in Sockets, NEW what \in {"open", "message", "error", "close"},
         events' = [events EXCEPT ![s] = Append(events[s], what)],
         what = "open" => events[s] = << >>,
         Told(s, "error") \/ Told(s, "close") => what = "close"
  PROVE  /\ EventsInOrder'
         /\ events' \in [Sockets -> Seq({"open", "message", "error", "close"})]
         /\ \A w : Told(s, w)' <=> Told(s, w) \/ w = what
         /\ \A w : \A x \in Sockets : x # s => (Told(x, w)' <=> Told(x, w))
         /\ \A x \in Sockets : x # s => events'[x] = events[x]
<1> DEFINE n == Len(events[s])
<1>1. events \in [Sockets -> Seq({"open", "message", "error", "close"})]
  BY DEF TypeOK
<1>2. events[s] \in Seq({"open", "message", "error", "close"}) /\ n \in Nat /\ DOMAIN events[s] = 1..n
  BY <1>1
<1>3. /\ events'[s] = Append(events[s], what)
      /\ \A x \in Sockets : x # s => events'[x] = events[x]
  BY <1>1
<1>4. /\ Append(events[s], what) \in Seq({"open", "message", "error", "close"})
      /\ Len(Append(events[s], what)) = n + 1
      /\ \A i \in 1..n : Append(events[s], what)[i] = events[s][i]
      /\ Append(events[s], what)[n + 1] = what
  BY <1>2, AppendProperties
<1>5. events' \in [Sockets -> Seq({"open", "message", "error", "close"})]
  BY <1>1, <1>4
<1>6. /\ events'[s] \in Seq({"open", "message", "error", "close"})
      /\ Len(events'[s]) = n + 1 /\ events'[s][n + 1] = what
      /\ \A i \in 1..n : events'[s][i] = events[s][i]
  BY <1>3, <1>4
<1>7. DOMAIN events'[s] = 1..(n + 1)
  BY <1>6
<1>8. (\A i \in 1..(n + 1) : i \in 1..n \/ i = n + 1) /\ (\A i \in 1..n : i \in 1..(n + 1)) /\ n + 1 \in 1..(n + 1)
  BY <1>2
<1>9. \A w : Told(s, w)' <=> Told(s, w) \/ w = what
  BY <1>6, <1>8 DEF Told
<1>10. \A w : \A x \in Sockets : x # s => (Told(x, w)' <=> Told(x, w))
  BY <1>3 DEF Told
<1>11. ASSUME NEW i \in 1..(n + 1)
       PROVE  /\ events'[s][i] = "open" => i = 1
              /\ events'[s][i] \in {"error", "close"} =>
                   \A j \in 1..(n + 1) : j > i => events'[s][j] = "close"
  <2>1. CASE i \in 1..n
    <3>1. /\ events[s][i] = "open" => i = 1
          /\ events[s][i] \in {"error", "close"} => \A j \in 1..n : j > i => events[s][j] = "close"
      BY <1>2, <2>1 DEF EventsInOrder
    <3>2. events[s][i] \in {"error", "close"} => what = "close"
      BY <2>1 DEF Told
    <3>3. QED
      BY <1>6, <1>8, <2>1, <3>1, <3>2
  <2>2. CASE i = n + 1
    <3>1. what = "open" => n = 0
      BY <1>2
    <3>2. \A j \in 1..(n + 1) : ~(j > i)
      BY <1>2, <2>2
    <3>3. QED
      BY <1>2, <1>6, <2>2, <3>1, <3>2
  <2>3. QED
    BY <1>8, <2>1, <2>2
<1>12. EventsInOrder'
  <2>1. \A x \in Sockets : x # s =>
          \A i \in DOMAIN events'[x] :
            /\ events'[x][i] = "open" => i = 1
            /\ events'[x][i] \in {"error", "close"} => \A j \in DOMAIN events'[x] : j > i => events'[x][j] = "close"
    BY <1>3 DEF EventsInOrder
  <2>2. \A i \in DOMAIN events'[s] :
          /\ events'[s][i] = "open" => i = 1
          /\ events'[s][i] \in {"error", "close"} => \A j \in DOMAIN events'[s] : j > i => events'[s][j] = "close"
    BY <1>7, <1>11
  <2>3. QED
    BY <2>1, <2>2 DEF EventsInOrder
<1>13. QED
  BY <1>3, <1>5, <1>9, <1>10, <1>12

\* The cocos thread takes the first function: what it tells keeps the order.
LEMMA FunctionTaken ==
  ASSUME TypeOK, EventsInOrder, OrderInv, functions # << >>, functions' = Tail(functions),
         NEW s \in Sockets, NEW what \in {"open", "message", "error", "close"},
         s = Head(functions).socket, what = Head(functions).what,
         \/ events' = events
         \/ events' = [events EXCEPT ![s] = Append(events[s], what)]
  PROVE  /\ OrderInv' /\ EventsInOrder'
         /\ functions' \in Seq([socket : Sockets, what : {"open", "message", "error", "close"}])
         /\ events' \in [Sockets -> Seq({"open", "message", "error", "close"})]
         /\ \A x \in Sockets : Silent(x) => Silent(x)'
         /\ \A x \in Sockets : EndPosted(x)' => EndPosted(x)
         /\ \A w : \A x \in Sockets : Pending(x, w)' => Pending(x, w)
         /\ \A x \in Sockets : x # s => events'[x] = events[x]
         /\ \A i \in 1..Len(functions') : \E j \in 1..Len(functions) : functions'[i] = functions[j]
         /\ Pending(s, what) /\ ~Told(s, "close")
         /\ what = "close" => ~Pending(s, "close")'
<1> DEFINE n == Len(functions)
           F == [socket : Sockets, what : {"open", "message", "error", "close"}]
<1>1. functions \in Seq(F)
  BY DEF TypeOK
<1>2. n \in Nat /\ 1 \in 1..n /\ Head(functions) = functions[1]
  BY <1>1
<1>3. /\ functions' \in Seq(F) /\ Len(functions') = n - 1
      /\ \A i \in 1..(n - 1) : functions'[i] = functions[i + 1]
  BY <1>1
<1>4. \A i \in 1..(n - 1) : i + 1 \in 1..n /\ 1 < i + 1
  BY <1>2
<1>5. functions[1].socket = s /\ functions[1].what = what
  BY <1>2
<1>6. Pending(s, what) /\ ~Told(s, "close") /\ (Told(s, "error") => what = "close")
  BY <1>2, <1>5 DEF Pending, About, OrderInv
<1>7. what = "open" => events[s] = << >>
  BY <1>2, <1>5 DEF OrderInv
<1>8. /\ EventsInOrder' /\ events' \in [Sockets -> Seq({"open", "message", "error", "close"})]
      /\ \A w : Told(s, w)' => Told(s, w) \/ w = what
      /\ \A w : \A x \in Sockets : x # s => (Told(x, w)' <=> Told(x, w))
      /\ \A x \in Sockets : x # s => events'[x] = events[x]
  <2>1. CASE events' = events
    BY <2>1 DEF EventsInOrder, Told, TypeOK
  <2>2. CASE events' = [events EXCEPT ![s] = Append(events[s], what)]
    BY <1>6, <1>7, <2>2, EventAdded
  <2>3. QED
    BY <2>1, <2>2
<1> HIDE DEF n, F
\* What is behind the first function, about the same socket.
<1>9. \A i \in 1..(n - 1) : functions'[i].socket = s =>
        /\ functions'[i].what # "open" /\ what # "close"
        /\ what = "error" => functions'[i].what = "close"
  <2>1. \A i, j \in 1..n : i < j /\ functions[j].socket = functions[i].socket =>
          /\ functions[j].what # "open" /\ functions[i].what # "close"
          /\ functions[i].what = "error" => functions[j].what = "close"
    BY DEF OrderInv, About, n
  <2>2. \A j \in 1..n : 1 < j /\ functions[j].socket = s =>
          /\ functions[j].what # "open" /\ what # "close"
          /\ what = "error" => functions[j].what = "close"
    BY <1>2, <1>5, <2>1
  <2>3. QED
    BY <1>3, <1>4, <2>2
<1>10. \A x, w : Pending(x, w)' => Pending(x, w)
  BY <1>3, <1>4 DEF Pending, About, n
<1>11. \A x \in Sockets : Silent(x) => Silent(x)'
  <2>1. ~Silent(s)
    BY <1>2, <1>5 DEF Silent, About, n
  <2>2. QED
    BY <1>3, <1>4, <1>8, <2>1 DEF Silent, About, n
<1>12. \A x \in Sockets : EndPosted(x)' => EndPosted(x)
  BY <1>6, <1>8, <1>10 DEF EndPosted
<1>13. \A i \in 1..(n - 1) : functions'[i].socket \in Sockets
  <2>1. \A i \in 1..Len(functions') : functions'[i] \in F
    BY <1>3, ElementOfSeq
  <2>2. QED
    BY <1>3, <2>1 DEF F
<1>14. OrderInv'
  <2>1. \A i, j \in 1..(n - 1) : i < j /\ functions'[j].socket = functions'[i].socket =>
          /\ functions'[j].what # "open" /\ functions'[i].what # "close"
          /\ functions'[i].what = "error" => functions'[j].what = "close"
    <3>1. \A i, j \in 1..(n - 1) : i < j => i + 1 < j + 1
      BY <1>2
    <3>2. \A i, j \in 1..n : i < j /\ functions[j].socket = functions[i].socket =>
            /\ functions[j].what # "open" /\ functions[i].what # "close"
            /\ functions[i].what = "error" => functions[j].what = "close"
      BY DEF OrderInv, About, n
    <3>3. QED
      BY <1>3, <1>4, <3>1, <3>2
  <2>2. \A i \in 1..(n - 1) : functions'[i].what = "open" => events'[functions'[i].socket] = << >>
    <3>1. \A i \in 1..n : functions[i].what = "open" => events[functions[i].socket] = << >>
      BY DEF OrderInv, n
    <3>2. QED
      BY <1>3, <1>4, <1>8, <1>9, <1>13, <3>1
  <2>3. ASSUME NEW i \in 1..(n - 1), NEW x \in Sockets, functions'[i].socket = x
        PROVE  ~Told(x, "close")' /\ (Told(x, "error")' => functions'[i].what = "close")
    <3>1. ~Told(x, "close") /\ (Told(x, "error") => functions'[i].what = "close")
      BY <1>3, <1>4, <2>3 DEF OrderInv, n
    <3>2. CASE x = s
      BY <1>8, <1>9, <2>3, <3>1, <3>2
    <3>3. CASE x # s
      BY <1>8, <3>1, <3>3
    <3>4. QED
      BY <3>2, <3>3
  <2>4. ASSUME NEW i \in 1..(n - 1)
        PROVE  /\ ~Told(functions[i].socket, "close")'
               /\ Told(functions[i].socket, "error")' => functions'[i].what = "close"
    <3>1. functions'[i].socket \in Sockets
      BY <1>13
    <3>2. ~Told(functions[i].socket, "close")'
      BY <2>3, <3>1 DEF Told
    <3>3. Told(functions[i].socket, "error")' => functions'[i].what = "close"
      BY <2>3, <3>1 DEF Told
    <3>4. QED
      BY <3>2, <3>3
  <2>5. \A i, j \in 1..Len(functions') : i < j /\ About(j, functions[i].socket)' =>
          /\ functions'[j].what # "open" /\ functions'[i].what # "close"
          /\ functions'[i].what = "error" => functions'[j].what = "close"
    <3>1. 1..Len(functions') = 1..(n - 1)
      BY <1>3
    <3>2. \A i, j : About(j, functions[i].socket)' <=> functions'[j].socket = functions'[i].socket
      BY DEF About
    <3>3. QED
      BY ONLY <2>1, <3>1, <3>2
  <2>6. \A i \in 1..Len(functions') :
          /\ ~Told(functions[i].socket, "close")'
          /\ Told(functions[i].socket, "error")' => functions'[i].what = "close"
    BY <1>3, <2>4
  <2>7. \A i \in 1..Len(functions') : functions'[i].what = "open" => events'[functions'[i].socket] = << >>
    BY <1>3, <2>2
  <2>8. QED
    BY ONLY <2>5, <2>6, <2>7 DEF OrderInv
<1>15. what = "close" => ~Pending(s, "close")'
  BY <1>3, <1>9 DEF Pending, About
<1>16. \A i \in 1..Len(functions') : \E j \in 1..Len(functions) : functions'[i] = functions[j]
  BY <1>3, <1>4 DEF n
<1>17. QED
  BY <1>3, <1>6, <1>8, <1>10, <1>11, <1>12, <1>14, <1>15, <1>16 DEF F

-----------------------------------------------------------------------------
(***************************************************************************)
(* The cocos thread: its actions.                                          *)
(***************************************************************************)
\* A socket is created: nothing is known of it yet.
LEMMA CreateKeeps == ASSUME WsInv, NEW s \in Sockets, Create(s) PROVE WsInv'
<1>1. /\ main = "idle" /\ refs[s] = 0 /\ ~finalized[s] /\ events[s] = << >> /\ ~IsInstance(s)
      /\ refs' = [refs EXCEPT ![s] = 2] /\ held' = [held EXCEPT ![s] = {"root"}]
      /\ instances' = Append(instances, s) /\ queue' = Append(queue, Open(s))
      /\ tpc' = IF tpc = "none" THEN "loop" ELSE tpc
      /\ UNCHANGED <<readyState, closeState, finalized, events, needQuit, tsock, opening, wire,
                     requested, mainVars, functions, messages>>
  BY DEF Create, InitialReferences
<1>2. /\ TypeOK /\ ThreadInv /\ ThreadUsesLiveSockets /\ CloseInv /\ CountInv /\ EventsInOrder
      /\ Running /\ StartInv /\ OrderInv /\ BornInv /\ EndInv
  BY <1>1, Here DEF CloseInv
<1>3. Open(s) \in [what : {"open", "send"}, user : Sockets] /\ Open(s).what = "open" /\ Open(s).user = s
  BY DEF Open
<1>4. ~Born(s)
  BY <1>1 DEF Born
<1>5. /\ ~Waits(s) /\ tsock # s /\ wire[s] = "none" /\ readyState[s] # "closed"
      /\ \A i \in 1..Len(functions) : functions[i].socket # s
  BY <1>2, <1>4, NullAssumption DEF BornInv
<1>6. /\ queue' \in Seq([what : {"open", "send"}, user : Sockets])
      /\ \A x : Waits(x)' <=> Waits(x) \/ x = s
      /\ OpensOnce'
  <2>1. OpensOnce
    BY <1>2 DEF ThreadInv
  <2>2. QED
    BY <1>1, <1>2, <1>3, <1>5, <2>1, QueueGrown
<1>7. /\ refs' \in [Sockets -> 0..2] /\ refs'[s] = 2 /\ \A x \in Sockets : x # s => refs'[x] = refs[x]
  BY <1>1, <1>2 DEF TypeOK
<1>8. /\ instances' \in Seq(Sockets) /\ InstancesOnce'
      /\ \A x : IsInstance(x)' <=> IsInstance(x) \/ x = s
  <2>1. instances \in Seq(Sockets)
    BY <1>2 DEF TypeOK
  <2>2. /\ instances' \in Seq(Sockets) /\ Len(instances') = Len(instances) + 1
        /\ \A i \in 1..Len(instances) : instances'[i] = instances[i]
        /\ instances'[Len(instances) + 1] = s
    BY <1>1, <2>1, AppendProperties
  <2>3. /\ Len(instances) \in Nat /\ DOMAIN instances = 1..Len(instances)
        /\ DOMAIN instances' = 1..(Len(instances) + 1)
    BY <2>1, <2>2
  <2>4. (\A i \in 1..(Len(instances) + 1) : i \in 1..Len(instances) \/ i = Len(instances) + 1)
        /\ (\A i \in 1..Len(instances) : i \in 1..(Len(instances) + 1))
        /\ Len(instances) + 1 \in 1..(Len(instances) + 1)
    BY <2>3
  <2>5. \A x : IsInstance(x)' <=> IsInstance(x) \/ x = s
    BY <2>2, <2>3, <2>4 DEF IsInstance
  <2>6. InstancesOnce'
    BY <1>1, <1>2, <2>2, <2>3, <2>4 DEF InstancesOnce, CountInv, IsInstance
  <2>7. QED
    BY <2>2, <2>5, <2>6
<1>9. TypeOK'
  <2>1. held' \in [Sockets -> SUBSET {"root", "global"}]
    BY <1>1, <1>2 DEF TypeOK
  <2>2. tpc' \in {"none", "loop", "connect", "error", "closed", "notify", "write", "ended"}
    BY <1>1, <1>2 DEF TypeOK
  <2>3. QED
    BY <1>1, <1>2, <1>6, <1>7, <1>8, <2>1, <2>2 DEF TypeOK, mainVars
<1>10. ThreadInv'
  <2>1. \A x \in Sockets : Waits(x)' => wire'[x] = "none" /\ tsock' # x /\ readyState'[x] # "closed"
    BY <1>1, <1>2, <1>5, <1>6 DEF ThreadInv
  <2>2. /\ tsock' = NoSocket <=> tpc' \in {"none", "loop", "ended"}
        /\ tpc' = "connect" => wire'[tsock'] = "none"
        /\ tpc' \in {"error", "closed"} => wire'[tsock'] \in {"none", "ending", "gone"}
    BY <1>1, <1>2 DEF ThreadInv
  <2>3. QED
    BY <1>6, <2>1, <2>2 DEF ThreadInv
<1>11. CloseInv'
  BY <1>1, <1>2 DEF CloseInv, mainVars, Running, Closings
<1>12. CountInv'
  <2>1. \A x \in Sockets : IsInstance(x)' <=> refs'[x] > 0
    BY <1>2, <1>7, <1>8 DEF CountInv
  <2>2. \A x \in Sockets : closeState'[x] = "none" /\ refs'[x] = 1 => readyState'[x] = "closed"
    BY <1>1, <1>2, <1>7 DEF CountInv
  <2>3. main' \notin Closings
    BY <1>1 DEF mainVars, Closings
  <2>4. QED
    BY <1>8, <2>1, <2>2, <2>3 DEF CountInv, InstancesOnce
<1>13. ThreadUsesLiveSockets'
  <2>1. \A x \in Sockets : Waits(x)' => refs'[x] > 0
    BY <1>2, <1>6, <1>7, LiveWaiting
  <2>2. tsock' # NoSocket /\ readyState'[tsock'] # "closed" => refs'[tsock'] > 0
    BY <1>1, <1>2, <1>5, <1>7 DEF ThreadUsesLiveSockets, TypeOK
  <2>3. QED
    BY <1>9, <2>1, <2>2, WaitingLive
<1>14. EventsInOrder'
  BY <1>1, <1>2 DEF EventsInOrder
<1>15. \A x, w : (Silent(x)' <=> Silent(x)) /\ (EndPosted(x)' <=> EndPosted(x)) /\ (Pending(x, w)' <=> Pending(x, w))
                /\ (Told(x, w)' <=> Told(x, w))
  BY <1>1 DEF Silent, EndPosted, Told, Pending, About
<1>16. StartInv'
  <2>1. Silent(s)
    BY <1>1, <1>5 DEF Silent, About
  <2>2. \A x \in Sockets : Waits(x)' => Silent(x)'
    BY <1>2, <1>6, <1>15, <2>1 DEF StartInv
  <2>3. tpc' \in {"connect", "error"} => Silent(tsock)'
    BY <1>1, <1>2, <1>15 DEF StartInv
  <2>4. QED
    BY <1>1, <1>2, <1>15, <2>2, <2>3 DEF StartInv
<1>17. OrderInv'
  BY <1>1, <1>2, OrderFrame
<1>18. BornInv'
  <2>1. \A x : Born(x)' <=> Born(x) \/ x = s
    BY <1>1, <1>8 DEF Born
  <2>2. QED
    BY <1>1, <1>2, <1>6, <2>1 DEF BornInv
<1>19. EndInv'
  <2>1. \A x \in Sockets : Told(x, "close")' \/ Pending(x, "close")' => readyState'[x] = "closed"
    BY <1>1, <1>2, <1>15 DEF EndInv
  <2>2. ~Told(s, "close")' /\ ~finalized'[s]
    BY <1>1, <1>2, <1>5, <1>15 DEF EndInv
  <2>3. ASSUME NEW x \in Sockets, IsInstance(x)'
        PROVE  refs'[x] = (IF Told(x, "close")' THEN 0 ELSE 1) + (IF finalized'[x] THEN 0 ELSE 1)
    <3>1. CASE x = s
      BY <1>7, <2>2, <3>1
    <3>2. CASE x # s
      BY <1>1, <1>2, <1>7, <1>8, <1>15, <2>3, <3>2 DEF EndInv
    <3>3. QED
      BY <3>1, <3>2
  <2>4. QED
    BY <2>1, <2>3 DEF EndInv
<1>20. QED
  BY <1>9, <1>10, <1>11, <1>12, <1>13, <1>14, <1>16, <1>17, <1>18, <1>19 DEF WsInv, StreamInv

\* A message joins the queue.
LEMMA SendMessageKeeps == ASSUME WsInv, NEW s \in Sockets, SendMessage(s) PROVE WsInv'
<1>1. /\ messages < MaxMessages /\ messages' = messages + 1 /\ queue' = Append(queue, Message(s))
      /\ UNCHANGED <<readyState, closeState, refs, held, finalized, instances, events, needQuit, tpc,
                     tsock, opening, wire, requested, mainVars, functions>>
  BY DEF SendMessage, socketVars, threadVars, mainVars
<1>2. /\ TypeOK /\ ThreadInv /\ ThreadUsesLiveSockets
      /\ Running => StartInv /\ OrderInv /\ BornInv /\ EndInv
  BY Here
<1>3. Message(s) \in [what : {"open", "send"}, user : Sockets] /\ Message(s).what # "open"
  BY DEF Message
<1>4. /\ queue' \in Seq([what : {"open", "send"}, user : Sockets])
      /\ \A x : Waits(x)' <=> Waits(x)
      /\ OpensOnce'
  <2>1. OpensOnce
    BY <1>2 DEF ThreadInv
  <2>2. QED
    BY <1>1, <1>2, <1>3, <2>1, QueueGrown
<1>5. TypeOK'
  <2>1. messages' \in 0..MaxMessages
    BY <1>1, <1>2, BoundAssumption DEF TypeOK
  <2>2. QED
    BY <1>1, <1>2, <1>4, <2>1 DEF TypeOK, mainVars
<1>6. ThreadInv'
  <2>1. \A x \in Sockets : Waits(x)' => wire'[x] = "none" /\ tsock' # x /\ readyState'[x] # "closed"
    BY <1>1, <1>2, <1>4 DEF ThreadInv
  <2>2. QED
    BY <1>1, <1>2, <1>4, <2>1 DEF ThreadInv
<1>7. ThreadUsesLiveSockets'
  <2>1. \A x \in Sockets : Waits(x)' => refs'[x] > 0
    BY <1>1, <1>2, <1>4, LiveWaiting
  <2>2. tsock' # NoSocket /\ readyState'[tsock'] # "closed" => refs'[tsock'] > 0
    BY <1>1, <1>2 DEF ThreadUsesLiveSockets
  <2>3. QED
    BY <1>5, <2>1, <2>2, WaitingLive
<1>8. ASSUME Running
      PROVE  StreamInv' /\ BornInv' /\ \A x \in Sockets : Pending(x, "close")' => readyState'[x] = "closed"
  <2>1. StartInv /\ OrderInv /\ BornInv /\ EndInv
    BY <1>2, <1>8
  <2>2. \A x, w : (Silent(x)' <=> Silent(x)) /\ (EndPosted(x)' <=> EndPosted(x)) /\ (Pending(x, w)' <=> Pending(x, w))
    BY <1>1 DEF Silent, EndPosted, Told, Pending, About
  <2>3. StartInv'
    BY <1>1, <1>4, <2>1, <2>2 DEF StartInv
  <2>4. OrderInv'
    BY <1>1, <2>1 DEF OrderInv, Told, About
  <2>5. BornInv'
    BY <1>1, <1>4, <2>1 DEF BornInv, Born, IsInstance
  <2>6. \A x \in Sockets : Pending(x, "close")' => readyState'[x] = "closed"
    BY <1>1, <2>1, <2>2 DEF EndInv
  <2>7. QED
    BY <2>3, <2>4, <2>5, <2>6 DEF StreamInv
<1>9. QED
  BY <1>1, <1>5, <1>6, <1>7, <1>8, QuietStep

\* closeAsync only marks the socket.
LEMMA MarkStep ==
  ASSUME WsInv, Marked, held' \in [Sockets -> SUBSET {"root", "global"}],
         UNCHANGED <<refs, finalized, instances, events, queue, needQuit, tpc, tsock, opening, wire,
                     requested, mainVars, functions, messages>>
  PROVE  WsInv'
<1>1. /\ TypeOK /\ ThreadInv /\ ThreadUsesLiveSockets
      /\ Running => StartInv /\ OrderInv /\ BornInv /\ EndInv
      /\ tsock \in Sockets \cup {NoSocket}
  BY Here DEF TypeOK
<1>2. TypeOK'
  BY <1>1 DEF TypeOK, Marked, mainVars
<1>3. ThreadInv'
  BY <1>1, QueueFrame DEF ThreadInv, Marked
<1>4. ThreadUsesLiveSockets'
  BY <1>1 DEF ThreadUsesLiveSockets, Marked
<1>5. ASSUME Running
      PROVE  StreamInv' /\ BornInv' /\ \A x \in Sockets : Pending(x, "close")' => readyState'[x] = "closed"
  <2>1. StartInv /\ OrderInv /\ BornInv /\ EndInv
    BY <1>1, <1>5
  <2>2. StreamInv'
    BY <2>1, StreamFrame DEF StreamInv
  <2>3. BornInv'
    BY <2>1, QueueFrame DEF BornInv, Born, IsInstance, Marked
  <2>4. \A x \in Sockets : Pending(x, "close")' => readyState'[x] = "closed"
    BY <2>1 DEF EndInv, Pending, About, Marked
  <2>5. QED
    BY <2>2, <2>3, <2>4
<1>6. QED
  BY <1>2, <1>3, <1>4, <1>5, QuietStep DEF Marked

LEMMA CloseAsyncKeeps == ASSUME WsInv, NEW s \in Sockets, CloseAsync(s) PROVE WsInv'
<1>1. /\ CloseAsyncEffect(s) /\ held' = [held EXCEPT ![s] = @ \cup {"global"}]
      /\ UNCHANGED <<refs, finalized, instances, events, queue, needQuit, tpc, tsock, opening, wire,
                     requested, mainVars, functions, messages>>
  BY DEF CloseAsync, threadVars, mainVars
<1>2. TypeOK
  BY Here
<1>3. Marked
  BY <1>1, <1>2, MarkEffect
<1>4. held' \in [Sockets -> SUBSET {"root", "global"}]
  BY <1>1, <1>2 DEF TypeOK
<1>5. QED
  BY <1>1, <1>3, <1>4, MarkStep

\* The thread is joined: the queue goes with it.
LEMMA JoinThreadKeeps == ASSUME WsInv, JoinThread PROVE WsInv'
<1>1. /\ main = "join" /\ tpc = "ended" /\ tpc' = "none" /\ needQuit' = FALSE /\ queue' = << >>
      /\ main' = IF msock = NoSocket THEN "idle" ELSE "closeNext"
      /\ UNCHANGED <<readyState, closeState, refs, held, finalized, instances, events, tsock, opening,
                     wire, requested, msock, toClose, functions, messages>>
  BY DEF JoinThread, socketVars
<1>2. /\ TypeOK /\ ThreadInv /\ ThreadUsesLiveSockets /\ CloseInv /\ CountInv /\ EventsInOrder
      /\ Running => StartInv /\ OrderInv /\ BornInv /\ EndInv
      /\ tsock = NoSocket
  BY <1>1, Here
<1>3. \A x : ~Waits(x)'
  BY <1>1 DEF Waits
<1>4. main' \in {"idle", "closeNext"} /\ (main' = "idle" => Running) /\ (Running => main' = "idle")
  BY <1>1 DEF Running
<1>5. TypeOK'
  <2>1. queue' \in Seq([what : {"open", "send"}, user : Sockets])
    BY <1>1
  <2>2. main' \in {"idle", "join", "closeNext", "close", "wait", "woken", "onClose", "restarted"}
    BY <1>4
  <2>3. QED
    BY <1>1, <1>2, <2>1, <2>2 DEF TypeOK
<1>6. ThreadInv'
  <2>1. OpensOnce'
    BY <1>1 DEF OpensOnce
  <2>2. QED
    BY <1>1, <1>2, <1>3, <2>1 DEF ThreadInv
<1>7. CloseInv'
  BY <1>1, <1>2, <1>4 DEF CloseInv, Running, IsInstance, Closings
<1>8. CountInv'
  BY <1>1, <1>2, <1>4 DEF CountInv, IsInstance, Closings
<1>9. ThreadUsesLiveSockets'
  BY <1>1, <1>2, <1>3, <1>5, WaitingLive
<1>10. EventsInOrder'
  BY <1>1, <1>2 DEF EventsInOrder
<1>11. ASSUME Running' PROVE StreamInv' /\ BornInv' /\ EndInv'
  <2>1. StartInv /\ OrderInv /\ BornInv /\ EndInv
    BY <1>1, <1>2, <1>11 DEF Running
  <2>2. StartInv'
    BY <1>1, <1>3, <2>1 DEF StartInv, Silent, EndPosted, Told, Pending, About
  <2>3. OrderInv'
    BY <1>1, <2>1 DEF OrderInv, Told, About
  <2>4. BornInv'
    BY <1>1, <1>3, <2>1 DEF BornInv, Born, IsInstance
  <2>5. EndInv'
    BY <1>1, <2>1 DEF EndInv, Told, Pending, About, IsInstance
  <2>6. QED
    BY <2>2, <2>3, <2>4, <2>5 DEF StreamInv
<1>12. QED
  BY <1>5, <1>6, <1>7, <1>8, <1>9, <1>10, <1>11 DEF WsInv

\* The script's object is collected: its own reference goes, and the socket if its end was told.
LEMMA FinalizeKeeps == ASSUME WsInv, NEW s \in Sockets, Finalize(s) PROVE WsInv'
<1>1. /\ main = "idle" /\ refs[s] > 0 /\ ~finalized[s]
      /\ finalized' = [finalized EXCEPT ![s] = TRUE]
      /\ readyState[s] # "closed" => CloseAsyncEffect(s)
      /\ readyState[s] = "closed" => UNCHANGED <<closeState, readyState>>
      /\ Release(s, "idle")
      /\ UNCHANGED <<held, events, queue, tpc, tsock, opening, wire, requested, msock, toClose,
                     functions, messages>>
  BY DEF Finalize
<1>2. /\ TypeOK /\ ThreadInv /\ ThreadUsesLiveSockets /\ CloseInv /\ CountInv /\ EventsInOrder
      /\ Running /\ StartInv /\ OrderInv /\ BornInv /\ EndInv
  BY <1>1, Here DEF CloseInv
<1>3. Marked
  BY <1>1, <1>2, MarkEffect
<1>4. /\ refs' \in [Sockets -> 0..2] /\ refs'[s] = refs[s] - 1
      /\ \A x \in Sockets : x # s => refs'[x] = refs[x]
      /\ instances' \in Seq(Sockets) /\ InstancesOnce'
      /\ \A x : IsInstance(x)' <=> IsInstance(x) /\ (x = s => refs[s] # 1)
      /\ \A x \in Sockets : IsInstance(x)' <=> refs'[x] > 0
      /\ needQuit' \in BOOLEAN
      /\ main' \in {"idle", "join"}
  BY <1>1, <1>2, ReleaseEffect
<1>5. /\ finalized' \in [Sockets -> BOOLEAN] /\ finalized'[s]
      /\ \A x \in Sockets : x # s => finalized'[x] = finalized[x]
  BY <1>1, <1>2 DEF TypeOK
<1>6. IsInstance(s) /\ refs[s] = (IF Told(s, "close") THEN 0 ELSE 1) + 1 /\ (Told(s, "close") => readyState[s] = "closed")
  BY <1>1, <1>2 DEF CountInv, EndInv
<1>7. refs'[s] = IF Told(s, "close") THEN 0 ELSE 1
  BY <1>4, <1>6
<1>8. closeState'[s] = "none" => readyState[s] = "closed"
  <2>1. CASE readyState[s] # "closed" /\ closeState[s] = "none"
    BY <1>1, <1>2, <2>1 DEF CloseAsyncEffect, TypeOK
  <2>2. CASE readyState[s] # "closed" /\ closeState[s] # "none"
    BY <1>1, <2>2 DEF CloseAsyncEffect
  <2>3. QED
    BY <2>1, <2>2
<1>9. TypeOK'
  <2>1. main' \in {"idle", "join", "closeNext", "close", "wait", "woken", "onClose", "restarted"}
    BY <1>4
  <2>2. QED
    BY <1>1, <1>2, <1>3, <1>4, <1>5, <2>1 DEF TypeOK, Marked
<1>10. ThreadInv'
  BY <1>1, <1>2, <1>3, QueueFrame DEF ThreadInv, Marked
<1>11. CloseInv'
  BY <1>1, <1>2, <1>4 DEF CloseInv, Running, Closings
<1>12. CountInv'
  <2>1. ASSUME NEW x \in Sockets, closeState'[x] = "none", refs'[x] = 1 PROVE readyState'[x] = "closed"
    BY <1>2, <1>3, <1>4, <1>8, <2>1 DEF CountInv, Marked
  <2>2. main' \notin Closings
    BY <1>4 DEF Closings
  <2>3. QED
    BY <1>4, <2>1, <2>2 DEF CountInv, InstancesOnce
<1>13. ThreadUsesLiveSockets'
  <2>1. readyState[s] # "closed" => refs'[s] > 0
    BY <1>6, <1>7
  <2>2. \A x \in Sockets : Waits(x)' => refs'[x] > 0
    <3>1. \A x \in Sockets : Waits(x) => readyState[x] # "closed" /\ refs[x] > 0
      BY <1>2, LiveWaiting DEF ThreadInv
    <3>2. QED
      BY <1>1, <1>4, <2>1, <3>1, QueueFrame
  <2>3. tsock' # NoSocket /\ readyState'[tsock'] # "closed" => refs'[tsock'] > 0
    <3>1. tsock # NoSocket => tsock \in Sockets
      BY <1>2 DEF TypeOK
    <3>2. QED
      BY <1>1, <1>2, <1>3, <1>4, <2>1, <3>1 DEF ThreadUsesLiveSockets, Marked
  <2>4. QED
    BY <1>9, <2>2, <2>3, WaitingLive
<1>14. EventsInOrder'
  BY <1>1, <1>2 DEF EventsInOrder
<1>15. StreamInv'
  BY <1>1, <1>2, StreamFrame DEF StreamInv
<1>16. BornInv'
  <2>1. \A x \in Sockets : Born(x) => Born(x)'
    BY <1>4, <1>5 DEF Born
  <2>2. /\ \A i \in 1..Len(functions) : functions[i].socket \in Sockets
        /\ tsock # NoSocket => tsock \in Sockets
    BY <1>2, Sorts DEF TypeOK
  <2>3. QED
    BY <1>1, <1>2, <1>3, <2>1, <2>2, QueueFrame DEF BornInv, Marked
<1>17. EndInv'
  <2>1. \A x, w : (Pending(x, w)' <=> Pending(x, w)) /\ (Told(x, w)' <=> Told(x, w))
    BY <1>1 DEF Told, Pending, About
  <2>2. \A x \in Sockets : Told(x, "close")' \/ Pending(x, "close")' => readyState'[x] = "closed"
    BY <1>2, <1>3, <2>1 DEF EndInv, Marked
  <2>3. ASSUME NEW x \in Sockets, IsInstance(x)'
        PROVE  refs'[x] = (IF Told(x, "close")' THEN 0 ELSE 1) + (IF finalized'[x] THEN 0 ELSE 1)
    <3>1. CASE x = s
      BY <1>5, <1>7, <2>1, <3>1
    <3>2. CASE x # s
      BY <1>2, <1>4, <1>5, <2>1, <2>3, <3>2 DEF EndInv
    <3>3. QED
      BY <3>1, <3>2
  <2>4. QED
    BY <2>2, <2>3 DEF EndInv
<1>18. QED
  BY <1>9, <1>10, <1>11, <1>12, <1>13, <1>14, <1>15, <1>16, <1>17 DEF WsInv

\* The delegate is told, if the script's object is still there.
LEMMA TellEffect ==
  ASSUME TypeOK, NEW s \in Sockets, NEW what, Tell(s, what)
  PROVE  /\ finalized[s] => events' = events
         /\ ~finalized[s] => events' = [events EXCEPT ![s] = Append(events[s], what)]
<1>1. events \in [Sockets -> Seq({"open", "message", "error", "close"})]
  BY DEF TypeOK
<1>2. CASE finalized[s]
  <2>1. events' = [events EXCEPT ![s] = events[s]]
    BY <1>2 DEF Tell
  <2>2. QED
    BY <1>1, <1>2, <2>1
<1>3. CASE ~finalized[s]
  BY <1>3 DEF Tell
<1>4. QED
  BY <1>2, <1>3

\* A function is performed.
LEMMA PerformKeeps == ASSUME WsInv, Perform PROVE WsInv'
<1>1. /\ main = "idle" /\ functions # << >> /\ functions' = Tail(functions)
      /\ UNCHANGED <<queue, tpc, tsock, opening, wire, requested, msock, toClose, messages>>
  BY DEF Perform
<1>2. /\ TypeOK /\ ThreadInv /\ ThreadUsesLiveSockets /\ CloseInv /\ CountInv /\ EventsInOrder
      /\ Running /\ StartInv /\ OrderInv /\ BornInv /\ EndInv
  BY <1>1, Here DEF CloseInv
<1>3. Head(functions) \in [socket : Sockets, what : {"open", "message", "error", "close"}]
  <2>1. functions \in Seq([socket : Sockets, what : {"open", "message", "error", "close"}])
    BY <1>2 DEF TypeOK
  <2>2. Head(functions) = functions[1] /\ 1 \in 1..Len(functions)
    BY <1>1, <2>1
  <2>3. \A i \in 1..Len(functions) :
          functions[i] \in [socket : Sockets, what : {"open", "message", "error", "close"}]
    BY <2>1, ElementOfSeq
  <2>4. QED
    BY <2>2, <2>3
<1>4. PICK s \in Sockets, what \in {"open", "message", "error", "close"} :
        s = Head(functions).socket /\ what = Head(functions).what
  BY <1>3
<1>5. \/ /\ refs[s] = 0
         /\ UNCHANGED <<readyState, closeState, refs, held, finalized, instances, events, needQuit, main>>
      \/ /\ refs[s] > 0 /\ what \in {"open", "message", "error"} /\ Tell(s, what)
         /\ held' = [held EXCEPT ![s] = IF what = "error" THEN @ \ {"root"} ELSE @]
         /\ UNCHANGED <<readyState, closeState, refs, finalized, instances, needQuit, main>>
      \/ /\ refs[s] > 0 /\ what = "close" /\ OnClose(s, "idle")
         /\ UNCHANGED <<readyState, closeState, finalized>>
  BY <1>4 DEF Perform, socketVars
<1>6. readyState' = readyState /\ closeState' = closeState /\ finalized' = finalized
  BY <1>5
<1>7. \/ events' = events
      \/ ~finalized[s] /\ events' = [events EXCEPT ![s] = Append(events[s], what)]
  <2>1. CASE Tell(s, what)
    BY <1>2, <1>4, <2>1, TellEffect
  <2>2. QED
    BY <1>5, <2>1 DEF OnClose
<1>8. /\ OrderInv' /\ EventsInOrder'
      /\ functions' \in Seq([socket : Sockets, what : {"open", "message", "error", "close"}])
      /\ events' \in [Sockets -> Seq({"open", "message", "error", "close"})]
      /\ \A x \in Sockets : Silent(x) => Silent(x)'
      /\ \A x \in Sockets : EndPosted(x)' => EndPosted(x)
      /\ \A w : \A x \in Sockets : Pending(x, w)' => Pending(x, w)
      /\ \A x \in Sockets : x # s => events'[x] = events[x]
      /\ \A i \in 1..Len(functions') : \E j \in 1..Len(functions) : functions'[i] = functions[j]
      /\ Pending(s, what) /\ ~Told(s, "close")
      /\ what = "close" => ~Pending(s, "close")'
  BY <1>1, <1>2, <1>4, <1>7, FunctionTaken
<1>9. /\ held' \in [Sockets -> SUBSET {"root", "global"}] /\ main' \in {"idle", "join"}
      /\ \A x : IsInstance(x)' => IsInstance(x)
      /\ \A x \in Sockets : Born(x) => Born(x)'
      /\ refs' \in [Sockets -> 0..2] /\ \A x \in Sockets : x # s => refs'[x] = refs[x]
      /\ instances' \in Seq(Sockets) /\ InstancesOnce' /\ needQuit' \in BOOLEAN
      /\ \A x \in Sockets : IsInstance(x)' <=> refs'[x] > 0
      /\ refs'[s] = refs[s] \/ readyState[s] = "closed"
      /\ IsInstance(s)' =>
           refs'[s] = (IF Told(s, "close")' THEN 0 ELSE 1) + (IF finalized'[s] THEN 0 ELSE 1)
  <2>1. held \in [Sockets -> SUBSET {"root", "global"}] /\ refs \in [Sockets -> 0..2]
    BY <1>2 DEF TypeOK
  <2>2. CASE what # "close" \/ refs[s] = 0
    <3>1. UNCHANGED <<refs, instances, needQuit, main>>
      BY <1>5, <2>2
    <3>2. held' \in [Sockets -> SUBSET {"root", "global"}]
      <4>1. CASE held' = held
        BY <2>1, <4>1
      <4>2. CASE held' = [held EXCEPT ![s] = IF what = "error" THEN @ \ {"root"} ELSE @]
        BY <1>4, <2>1, <4>2
      <4>3. QED
        BY <1>5, <2>2, <4>1, <4>2
    <3>3. \A x : IsInstance(x)' <=> IsInstance(x)
      BY <3>1 DEF IsInstance
    <3>4. \A x \in Sockets : Born(x) => Born(x)'
      BY <1>6, <3>3 DEF Born
    <3>5. InstancesOnce' /\ (\A x \in Sockets : IsInstance(x)' <=> refs'[x] > 0) /\ instances' \in Seq(Sockets)
          /\ needQuit' \in BOOLEAN
      BY <1>2, <3>1, <3>3 DEF CountInv, InstancesOnce, TypeOK
    <3>6. ASSUME IsInstance(s) PROVE ~Told(s, "close")' /\ refs[s] = 1 + (IF finalized[s] THEN 0 ELSE 1)
      <4>1. refs[s] > 0
        BY <1>2, <1>4, <3>6 DEF CountInv
      <4>2. what # "close"
        BY <2>1, <1>4, <2>2, <4>1
      <4>3. ~Told(s, "close")'
        <5>1. CASE events' = events
          BY <1>8, <5>1 DEF Told
        <5>2. CASE ~finalized[s] /\ events' = [events EXCEPT ![s] = Append(events[s], what)]
          BY <1>2, <1>4, <1>8, <4>2, <5>2, ToldAfter
        <5>3. QED
          BY <1>7, <5>1, <5>2
      <4>4. QED
        BY <1>2, <1>4, <1>8, <3>6, <4>3 DEF EndInv
    <3>7. QED
      BY <1>1, <1>6, <2>1, <3>1, <3>2, <3>3, <3>4, <3>5, <3>6
  <2>3. CASE what = "close" /\ refs[s] > 0
    <3>1. Tell(s, "close") /\ held' = [held EXCEPT ![s] = {}] /\ Release(s, "idle")
      BY <1>5, <2>3 DEF OnClose
    <3>2. /\ refs' \in [Sockets -> 0..2] /\ refs'[s] = refs[s] - 1
          /\ \A x \in Sockets : x # s => refs'[x] = refs[x]
          /\ instances' \in Seq(Sockets) /\ InstancesOnce'
          /\ \A x : IsInstance(x)' <=> IsInstance(x) /\ (x = s => refs[s] # 1)
          /\ \A x \in Sockets : IsInstance(x)' <=> refs'[x] > 0
          /\ needQuit' \in BOOLEAN /\ main' \in {"idle", "join"}
      BY <1>2, <1>4, <2>3, <3>1, ReleaseEffect
    <3>3. held' \in [Sockets -> SUBSET {"root", "global"}]
      BY <1>4, <2>1, <3>1
    <3>4. IsInstance(s) /\ readyState[s] = "closed" /\ refs[s] = 1 + (IF finalized[s] THEN 0 ELSE 1)
      BY <1>2, <1>4, <1>8, <2>3 DEF CountInv, EndInv
    <3>5. refs[s] = 1 => finalized[s]
      BY <3>4
    <3>6. \A x \in Sockets : Born(x) => Born(x)'
      BY <1>6, <3>2, <3>5 DEF Born
    <3>7. ASSUME IsInstance(s)'
          PROVE  refs'[s] = (IF Told(s, "close")' THEN 0 ELSE 1) + (IF finalized'[s] THEN 0 ELSE 1)
      <4>1. refs[s] # 1
        BY <3>2, <3>7
      <4>2. ~finalized[s] /\ refs'[s] = 1
        BY <3>2, <3>4, <4>1
      <4>3. events' = [events EXCEPT ![s] = Append(events[s], what)]
        BY <1>2, <1>4, <2>3, <3>1, <4>2, TellEffect
      <4>4. Told(s, "close")'
        BY <1>2, <1>4, <2>3, <4>3, ToldAfter
      <4>5. QED
        BY <1>6, <4>2, <4>4
    <3>8. QED
      BY <3>2, <3>3, <3>4, <3>6, <3>7
  <2>4. QED
    BY <1>4, <2>1, <2>2, <2>3
<1>10. TypeOK'
  <2>1. main' \in {"idle", "join", "closeNext", "close", "wait", "woken", "onClose", "restarted"}
    BY <1>9
  <2>2. QED
    BY <1>1, <1>2, <1>6, <1>8, <1>9, <2>1 DEF TypeOK
<1>11. ThreadInv'
  BY <1>1, <1>2, <1>6, ThreadFrame
<1>12. CloseInv'
  BY <1>1, <1>2, <1>9 DEF CloseInv, Running, Closings
<1>13. CountInv'
  <2>1. \A x \in Sockets : closeState'[x] = "none" /\ refs'[x] = 1 => readyState'[x] = "closed"
    BY <1>2, <1>6, <1>9 DEF CountInv
  <2>2. main' \notin Closings
    BY <1>9 DEF Closings
  <2>3. QED
    BY <1>9, <2>1, <2>2 DEF CountInv, InstancesOnce
<1>14. ThreadUsesLiveSockets'
  <2>1. \A x \in Sockets : readyState[x] # "closed" /\ refs[x] > 0 => refs'[x] > 0
    BY <1>9
  <2>2. \A x \in Sockets : Waits(x)' => refs'[x] > 0
    <3>1. \A x \in Sockets : Waits(x) => readyState[x] # "closed" /\ refs[x] > 0
      BY <1>2, LiveWaiting DEF ThreadInv
    <3>2. QED
      BY <1>1, <2>1, <3>1, QueueFrame
  <2>3. tsock' # NoSocket /\ readyState'[tsock'] # "closed" => refs'[tsock'] > 0
    <3>1. tsock # NoSocket => tsock \in Sockets
      BY <1>2 DEF TypeOK
    <3>2. QED
      BY <1>1, <1>2, <1>6, <2>1, <3>1 DEF ThreadUsesLiveSockets
  <2>4. QED
    BY <1>10, <2>2, <2>3, WaitingLive
<1>15. StartInv'
  <2>1. tsock # NoSocket => tsock \in Sockets
    BY <1>2 DEF TypeOK
  <2>2. tpc \in {"connect", "error"} => tsock # NoSocket
    BY <1>2 DEF ThreadInv
  <2>3. QED
    BY <1>1, <1>2, <1>8, <2>1, <2>2, QueueFrame DEF StartInv
<1>16. BornInv'
  <2>1. /\ \A i \in 1..Len(functions) : functions[i].socket \in Sockets /\ Born(functions[i].socket)
        /\ tsock # NoSocket => tsock \in Sockets
    BY <1>2, Sorts DEF TypeOK, BornInv
  <2>2. \A i \in 1..Len(functions') : Born(functions[i].socket)'
    <3>1. \A i \in 1..Len(functions') : functions'[i].socket \in Sockets /\ Born(functions'[i].socket)
      BY <1>8, <2>1
    <3>2. QED
      BY <1>9, <3>1 DEF Born, IsInstance
  <2>3. Born(s)
    BY <1>8, <2>1 DEF Pending, About
  <2>4. \A x \in Sockets : events'[x] # << >> => Born(x)'
    BY <1>2, <1>8, <1>9, <2>3 DEF BornInv
  <2>5. tsock' # NoSocket => Born(tsock)'
    <3>1. tsock # NoSocket => tsock \in Sockets /\ Born(tsock)
      BY <1>2, <2>1 DEF BornInv
    <3>2. QED
      BY <1>1, <1>9, <3>1 DEF Born, IsInstance
  <2>6. QED
    BY <1>1, <1>2, <1>6, <1>9, <2>2, <2>4, <2>5, QueueFrame DEF BornInv
<1>17. EndInv'
  <2>1. \A x \in Sockets : x # s => (Told(x, "close")' <=> Told(x, "close"))
    BY <1>8 DEF Told
  <2>2. Told(s, "close")' => what = "close"
    <3>1. CASE events' = events
      BY <1>8, <3>1 DEF Told
    <3>2. CASE events' = [events EXCEPT ![s] = Append(events[s], what)]
      BY <1>2, <1>4, <1>8, <3>2, ToldAfter
    <3>3. QED
      BY <1>7, <3>1, <3>2
  <2>3. what = "close" => readyState[s] = "closed"
    BY <1>2, <1>4, <1>8 DEF EndInv
  <2>4. \A x \in Sockets : Told(x, "close")' \/ Pending(x, "close")' => readyState'[x] = "closed"
    BY <1>2, <1>6, <1>8, <2>1, <2>2, <2>3 DEF EndInv
  <2>5. ASSUME NEW x \in Sockets, IsInstance(x)'
        PROVE  refs'[x] = (IF Told(x, "close")' THEN 0 ELSE 1) + (IF finalized'[x] THEN 0 ELSE 1)
    <3>1. CASE x = s
      BY <1>9, <2>5, <3>1 DEF Told
    <3>2. CASE x # s
      BY <1>2, <1>6, <1>9, <2>1, <2>5, <3>2 DEF EndInv
    <3>3. QED
      BY <3>1, <3>2
  <2>6. QED
    BY <2>4, <2>5 DEF EndInv
<1>18. QED
  BY <1>8, <1>10, <1>11, <1>12, <1>13, <1>14, <1>15, <1>16, <1>17 DEF WsInv, StreamInv

\* What is told once the virtual machine is being restarted counts no more.
LEMMA RestartVMKeeps == ASSUME WsInv, RestartVM PROVE WsInv'
<1>1. /\ main = "idle" /\ instances # << >> /\ toClose' = Reverse(instances)
      /\ msock' = Head(toClose') /\ main' = "closeNext"
      /\ UNCHANGED <<readyState, closeState, refs, held, finalized, instances, events, queue, needQuit,
                     tpc, tsock, opening, wire, requested, functions, messages>>
  BY DEF RestartVM, socketVars, threadVars
<1>2. /\ TypeOK /\ ThreadInv /\ ThreadUsesLiveSockets /\ CloseInv /\ CountInv /\ EventsInOrder
  BY Here
<1> DEFINE n == Len(instances)
<1>3. instances \in Seq(Sockets) /\ n \in Nat /\ n > 0 /\ DOMAIN instances = 1..n
  BY <1>1, <1>2 DEF TypeOK
<1>4. /\ toClose' \in Seq(Sockets) /\ Len(toClose') = n
      /\ \A i \in 1..n : toClose'[i] = instances[(n - i) + 1] /\ (n - i) + 1 \in 1..n
  BY <1>1, <1>3 DEF Reverse
<1>5. msock' \in Sockets
  BY <1>1, <1>3, <1>4
<1>6. /\ \A x : IsInstance(x)' <=> IsInstance(x)
      /\ ~Running' /\ main' \notin Closings /\ main' # "idle"
  BY <1>1, <1>5, NullAssumption DEF IsInstance, Running, Closings
<1>7. TypeOK'
  BY <1>1, <1>2, <1>4, <1>5 DEF TypeOK
<1>8. CloseInv'
  <2>1. \A i \in 1..Len(toClose') : IsInstance(toClose[i])'
    <3>1. \A i \in 1..Len(toClose') : IsInstance(toClose'[i])
      BY <1>3, <1>4 DEF IsInstance
    <3>2. QED
      BY <1>1, <3>1 DEF IsInstance
  <2>2. \A i, j \in 1..Len(toClose') : toClose'[i] = toClose'[j] => i = j
    <3>1. \A i, j \in 1..n : instances[i] = instances[j] => i = j
      BY <1>2 DEF CountInv
    <3>2. \A i, j \in 1..n : (n - i) + 1 = (n - j) + 1 => i = j
      BY <1>3
    <3>3. QED
      BY <1>4, <3>1, <3>2
  <2>3. QED
    BY <1>6, <2>1, <2>2 DEF CloseInv
<1>9. ThreadInv' /\ ThreadUsesLiveSockets'
  BY <1>1, <1>2, ThreadFrame, UseFrame
<1>10. CountInv'
  BY <1>1, <1>2, <1>6 DEF CountInv
<1>11. EventsInOrder'
  BY <1>1, <1>2 DEF EventsInOrder
<1>12. QED
  BY <1>6, <1>7, <1>8, <1>9, <1>10, <1>11 DEF WsInv

\* The sockets that are still to be closed, but for the first.
LEMMA ToCloseLeft ==
  ASSUME TypeOK, CloseInv, toClose # << >>
  PROVE  /\ Head(toClose) \in Sockets /\ IsInstance(Head(toClose)) /\ Tail(toClose) \in Seq(Sockets)
         /\ \A i \in 1..Len(Tail(toClose)) :
              Tail(toClose)[i] # Head(toClose) /\ IsInstance(Tail(toClose)[i])
         /\ \A i, j \in 1..Len(Tail(toClose)) : Tail(toClose)[i] = Tail(toClose)[j] => i = j
<1> DEFINE n == Len(toClose)
<1>1. toClose \in Seq(Sockets)
  BY DEF TypeOK
<1>2. n \in Nat /\ 1 \in 1..n /\ Head(toClose) = toClose[1]
  BY <1>1
<1>3. /\ Tail(toClose) \in Seq(Sockets) /\ Len(Tail(toClose)) = n - 1
      /\ \A i \in 1..(n - 1) : Tail(toClose)[i] = toClose[i + 1]
  BY <1>1
<1>4. \A i \in 1..(n - 1) : i + 1 \in 1..n /\ i + 1 # 1
  BY <1>2
<1>5. \A i, j \in 1..(n - 1) : i + 1 = j + 1 => i = j
  BY <1>2
<1>6. /\ \A i \in 1..n : IsInstance(toClose[i])
      /\ \A i, j \in 1..n : toClose[i] = toClose[j] => i = j
  BY DEF CloseInv
<1>7. Head(toClose) \in Sockets
  BY <1>1, <1>2
<1>8. IsInstance(Head(toClose))
  BY <1>2, <1>6
<1> HIDE DEF n
<1>9. \A i \in 1..(n - 1) : Tail(toClose)[i] # Head(toClose) /\ IsInstance(Tail(toClose)[i])
  BY <1>2, <1>3, <1>4, <1>6
<1>10. \A i, j \in 1..(n - 1) : Tail(toClose)[i] = Tail(toClose)[j] => i = j
  BY <1>3, <1>4, <1>5, <1>6
<1>11. QED
  BY <1>3, <1>7, <1>8, <1>9, <1>10

\* close() is called for the next socket.
LEMMA CloseNextKeeps == ASSUME WsInv, CloseNext PROVE WsInv'
<1>1. /\ main = "closeNext" /\ toClose # << >> /\ msock' = Head(toClose)
      /\ \/ /\ closeState[msock'] # "none" /\ toClose' = Tail(toClose) /\ UNCHANGED <<main, closeState>>
         \/ /\ closeState[msock'] = "none" /\ closeState' = [closeState EXCEPT ![msock'] = "sync"]
            /\ main' = "close" /\ toClose' = toClose
      /\ UNCHANGED <<readyState, refs, held, finalized, instances, events, queue, needQuit, tpc, tsock,
                     opening, wire, requested, functions, messages>>
  BY DEF CloseNext, threadVars
<1>2. /\ TypeOK /\ ThreadInv /\ ThreadUsesLiveSockets /\ CloseInv /\ CountInv /\ EventsInOrder
  BY Here
<1>3. /\ msock' \in Sockets /\ IsInstance(msock') /\ Tail(toClose) \in Seq(Sockets)
      /\ \A i \in 1..Len(Tail(toClose)) : IsInstance(Tail(toClose)[i])
      /\ \A i, j \in 1..Len(Tail(toClose)) : Tail(toClose)[i] = Tail(toClose)[j] => i = j
  BY <1>1, <1>2, ToCloseLeft
<1>4. /\ closeState' \in [Sockets -> {"none", "sync", "synced", "async"}]
      /\ \A x \in Sockets : closeState'[x] = "none" => closeState[x] = "none"
      /\ main' = "close" => closeState'[msock'] = "sync"
  BY <1>1, <1>2, <1>3 DEF TypeOK
<1>5. \A x : IsInstance(x)' <=> IsInstance(x)
  BY <1>1 DEF IsInstance
<1>6. ~Running' /\ main' \in {"closeNext", "close"}
  BY <1>1, <1>3, NullAssumption DEF Running
<1>7. TypeOK'
  <2>1. main' \in {"idle", "join", "closeNext", "close", "wait", "woken", "onClose", "restarted"}
    BY <1>6
  <2>2. toClose' \in Seq(Sockets)
    BY <1>1, <1>2, <1>3 DEF TypeOK
  <2>3. QED
    BY <1>1, <1>2, <1>3, <1>4, <2>1, <2>2 DEF TypeOK
<1>8. CloseInv'
  <2>1. /\ \A i \in 1..Len(toClose') : IsInstance(toClose'[i])
        /\ \A i, j \in 1..Len(toClose') : toClose'[i] = toClose'[j] => i = j
    BY <1>1, <1>2, <1>3 DEF CloseInv
  <2>2. \A i \in 1..Len(toClose') : IsInstance(toClose[i])'
    BY <1>1, <2>1 DEF IsInstance
  <2>3. main' \in Closings =>
          toClose' # << >> /\ msock' = Head(toClose') /\ closeState'[msock'] \in {"sync", "synced"}
    BY <1>1, <1>4 DEF Closings
  <2>4. QED
    BY <1>6, <2>1, <2>2, <2>3 DEF CloseInv
<1>9. ThreadInv' /\ ThreadUsesLiveSockets'
  BY <1>1, <1>2, ThreadFrame, UseFrame
<1>10. CountInv'
  <2>1. \A x \in Sockets : closeState'[x] = "none" /\ refs'[x] = 1 => readyState'[x] = "closed"
    BY <1>1, <1>2, <1>4 DEF CountInv
  <2>2. main' \in Closings /\ refs'[msock'] = 1 => readyState'[msock'] = "closed"
    BY <1>1, <1>2, <1>3 DEF CountInv, Closings
  <2>3. QED
    BY <1>1, <1>2, <1>5, <2>1, <2>2 DEF CountInv
<1>11. EventsInOrder'
  BY <1>1, <1>2 DEF EventsInOrder
<1>12. QED
  BY <1>6, <1>7, <1>8, <1>9, <1>10, <1>11 DEF WsInv

\* close() waits for the thread, or goes on with a socket whose end has been seen.
LEMMA CloseLockKeeps == ASSUME WsInv, CloseLock PROVE WsInv'
<1>1. /\ main = "close"
      /\ \/ main' = "onClose" /\ readyState' = readyState
         \/ /\ readyState[msock] # "closed" /\ main' = "wait"
            /\ readyState' = [readyState EXCEPT ![msock] = "closing"]
      /\ UNCHANGED <<closeState, refs, held, finalized, instances, events, queue, needQuit, tpc, tsock,
                     opening, wire, requested, msock, toClose, functions, messages>>
  BY DEF CloseLock, threadVars
<1>2. /\ TypeOK /\ ThreadInv /\ ThreadUsesLiveSockets /\ CloseInv /\ CountInv /\ EventsInOrder
      /\ ~Running /\ tsock \in Sockets \cup {NoSocket}
  BY <1>1, Here DEF CloseInv, TypeOK
<1>3. msock \in Sockets
  BY <1>2 DEF TypeOK, Running
<1>4. /\ readyState' \in [Sockets -> {"connecting", "open", "closing", "closed"}]
      /\ \A x \in Sockets : readyState'[x] = "closed" <=> readyState[x] = "closed"
  BY <1>1, <1>2, <1>3 DEF TypeOK
<1>5. ~Running' /\ main' \in {"onClose", "wait"}
  BY <1>1, <1>2 DEF Running
<1>6. TypeOK'
  <2>1. main' \in {"idle", "join", "closeNext", "close", "wait", "woken", "onClose", "restarted"}
    BY <1>5
  <2>2. QED
    BY <1>1, <1>2, <1>4, <2>1 DEF TypeOK
<1>7. ThreadInv'
  BY <1>1, <1>2, <1>4, QueueFrame DEF ThreadInv
<1>8. ThreadUsesLiveSockets'
  BY <1>1, <1>2, <1>4 DEF ThreadUsesLiveSockets
<1>9. CloseInv'
  BY <1>1, <1>2, <1>5 DEF CloseInv, Closings, Running, IsInstance
<1>10. CountInv'
  BY <1>1, <1>2, <1>3, <1>4 DEF CountInv, Closings, IsInstance
<1>11. EventsInOrder'
  BY <1>1, <1>2 DEF EventsInOrder
<1>12. QED
  BY <1>5, <1>6, <1>7, <1>8, <1>9, <1>10, <1>11 DEF WsInv

LEMMA CloseWokenKeeps == ASSUME WsInv, CloseWoken PROVE WsInv'
<1>1. /\ main = "woken" /\ main' = "onClose" /\ closeState' = [closeState EXCEPT ![msock] = "synced"]
      /\ UNCHANGED <<readyState, refs, held, finalized, instances, events, queue, needQuit, tpc, tsock,
                     opening, wire, requested, msock, toClose, functions, messages>>
  BY DEF CloseWoken, threadVars
<1>2. /\ TypeOK /\ ThreadInv /\ ThreadUsesLiveSockets /\ CloseInv /\ CountInv /\ EventsInOrder /\ ~Running
  BY <1>1, Here DEF CloseInv
<1>3. msock \in Sockets
  BY <1>2 DEF TypeOK, Running
<1>4. /\ closeState' \in [Sockets -> {"none", "sync", "synced", "async"}] /\ closeState'[msock] = "synced"
      /\ \A x \in Sockets : closeState'[x] = "none" => closeState[x] = "none"
  BY <1>1, <1>2, <1>3 DEF TypeOK
<1>5. ~Running'
  BY <1>1, <1>2 DEF Running
<1>6. TypeOK'
  BY <1>1, <1>2, <1>4 DEF TypeOK
<1>7. ThreadInv' /\ ThreadUsesLiveSockets'
  BY <1>1, <1>2, ThreadFrame, UseFrame
<1>8. CloseInv'
  BY <1>1, <1>2, <1>4, <1>5 DEF CloseInv, Closings, Running, IsInstance
<1>9. CountInv'
  BY <1>1, <1>2, <1>3, <1>4 DEF CountInv, Closings, IsInstance
<1>10. EventsInOrder'
  BY <1>1, <1>2 DEF EventsInOrder
<1>11. QED
  BY <1>5, <1>6, <1>7, <1>8, <1>9, <1>10 DEF WsInv

\* close() reports the end itself and releases a reference: if it was the last one, the
\* thread was done with the socket.
LEMMA CloseReportsKeeps == ASSUME WsInv, CloseReports PROVE WsInv'
<1>1. /\ main = "onClose" /\ OnClose(msock, "closeNext") /\ toClose' = Tail(toClose)
      /\ UNCHANGED <<readyState, closeState, finalized, queue, tpc, tsock, opening, wire, requested,
                     msock, functions, messages>>
  BY DEF CloseReports
<1>2. /\ TypeOK /\ ThreadInv /\ ThreadUsesLiveSockets /\ CloseInv /\ CountInv /\ EventsInOrder /\ ~Running
      /\ toClose # << >> /\ msock = Head(toClose) /\ closeState[msock] \in {"sync", "synced"}
      /\ refs[msock] = 1 => readyState[msock] = "closed"
  BY <1>1, Here DEF CloseInv, CountInv, Closings
<1>3. /\ msock \in Sockets /\ IsInstance(msock) /\ Tail(toClose) \in Seq(Sockets)
      /\ \A i \in 1..Len(Tail(toClose)) : Tail(toClose)[i] # msock /\ IsInstance(Tail(toClose)[i])
      /\ \A i, j \in 1..Len(Tail(toClose)) : Tail(toClose)[i] = Tail(toClose)[j] => i = j
  BY <1>2, ToCloseLeft
<1>4. Tell(msock, "close") /\ held' = [held EXCEPT ![msock] = {}] /\ Release(msock, "closeNext")
  BY <1>1 DEF OnClose
<1>5. PICK s \in Sockets : s = msock
  BY <1>3
<1>6. /\ refs' \in [Sockets -> 0..2] /\ refs'[s] = refs[s] - 1
      /\ \A x \in Sockets : x # s => refs'[x] = refs[x]
      /\ instances' \in Seq(Sockets) /\ InstancesOnce'
      /\ \A x : IsInstance(x)' <=> IsInstance(x) /\ (x = s => refs[s] # 1)
      /\ \A x \in Sockets : IsInstance(x)' <=> refs'[x] > 0
      /\ needQuit' \in BOOLEAN
      /\ main' \in {"closeNext", "join"}
  <2>1. refs[s] > 0 /\ Release(s, "closeNext")
    BY <1>2, <1>3, <1>4, <1>5 DEF CountInv
  <2>2. QED
    BY <1>2, <2>1, ReleaseEffect
<1>7. EventsInOrder' /\ events' \in [Sockets -> Seq({"open", "message", "error", "close"})]
  <2>1. Tell(s, "close")
    BY <1>4, <1>5
  <2>2. CASE finalized[s]
    <3>1. events' = events
      BY <1>2, <2>1, <2>2, TellEffect
    <3>2. QED
      BY <1>2, <3>1 DEF EventsInOrder, TypeOK
  <2>3. CASE ~finalized[s]
    <3>1. events' = [events EXCEPT ![s] = Append(events[s], "close")]
      BY <1>2, <2>1, <2>3, TellEffect
    <3>2. QED
      BY <1>2, <3>1, EventAdded
  <2>4. QED
    BY <2>2, <2>3
<1>8. ~Running' /\ main' \notin Closings /\ main' # "idle"
  BY <1>1, <1>2, <1>6 DEF Running, Closings
<1>9. TypeOK'
  <2>1. main' \in {"idle", "join", "closeNext", "close", "wait", "woken", "onClose", "restarted"}
    BY <1>6
  <2>2. held' \in [Sockets -> SUBSET {"root", "global"}]
    BY <1>2, <1>3, <1>4 DEF TypeOK
  <2>3. QED
    BY <1>1, <1>2, <1>3, <1>6, <1>7, <2>1, <2>2 DEF TypeOK
<1>10. ThreadInv'
  BY <1>1, <1>2, ThreadFrame
<1>11. CloseInv'
  <2>1. \A i \in 1..Len(toClose') : IsInstance(toClose[i])'
    <3>1. \A i \in 1..Len(toClose') : toClose'[i] # s /\ IsInstance(toClose'[i])
      BY <1>1, <1>3, <1>5
    <3>2. \A x : x # s /\ IsInstance(x) => \E i \in DOMAIN instances' : instances'[i] = x
      BY <1>6 DEF IsInstance
    <3>3. QED
      BY <3>1, <3>2 DEF IsInstance
  <2>2. QED
    BY <1>1, <1>3, <1>8, <2>1 DEF CloseInv
<1>12. CountInv'
  <2>1. \A x \in Sockets : closeState'[x] = "none" /\ refs'[x] = 1 => readyState'[x] = "closed"
    BY <1>1, <1>2, <1>5, <1>6 DEF CountInv
  <2>2. QED
    BY <1>6, <1>8, <2>1 DEF CountInv, InstancesOnce
<1>13. ThreadUsesLiveSockets'
  <2>1. \A x \in Sockets : readyState[x] # "closed" /\ refs[x] > 0 => refs'[x] > 0
    <3>1. refs[s] \in 0..2 /\ (refs[s] = 1 => readyState[s] = "closed")
      BY <1>2, <1>5 DEF TypeOK
    <3>2. QED
      BY <1>6, <3>1
  <2>2. \A x \in Sockets : Waits(x)' => refs'[x] > 0
    <3>1. \A x \in Sockets : Waits(x) => readyState[x] # "closed" /\ refs[x] > 0
      BY <1>2, LiveWaiting DEF ThreadInv
    <3>2. QED
      BY <1>1, <2>1, <3>1, QueueFrame
  <2>3. tsock' # NoSocket /\ readyState'[tsock'] # "closed" => refs'[tsock'] > 0
    <3>1. tsock # NoSocket => tsock \in Sockets
      BY <1>2 DEF TypeOK
    <3>2. QED
      BY <1>1, <1>2, <2>1, <3>1 DEF ThreadUsesLiveSockets
  <2>4. QED
    BY <1>9, <2>2, <2>3, WaitingLive
<1>14. QED
  BY <1>7, <1>8, <1>9, <1>10, <1>11, <1>12, <1>13 DEF WsInv

\* All sockets are closed, and the functions that were posted are removed.
LEMMA AllClosedKeeps == ASSUME WsInv, AllClosed PROVE WsInv'
<1>1. /\ main = "closeNext" /\ main' = "restarted" /\ functions' = << >>
      /\ UNCHANGED <<readyState, closeState, refs, held, finalized, instances, events, queue, needQuit,
                     tpc, tsock, opening, wire, requested, msock, toClose, messages>>
  BY DEF AllClosed, socketVars, threadVars
<1>2. /\ TypeOK /\ ThreadInv /\ ThreadUsesLiveSockets /\ CloseInv /\ CountInv /\ EventsInOrder /\ ~Running
  BY <1>1, Here DEF CloseInv
<1>3. TypeOK'
  <2>1. functions' \in Seq([socket : Sockets, what : {"open", "message", "error", "close"}])
    BY <1>1
  <2>2. QED
    BY <1>1, <1>2, <2>1 DEF TypeOK
<1>4. ThreadInv' /\ ThreadUsesLiveSockets'
  BY <1>1, <1>2, ThreadFrame, UseFrame
<1>5. CloseInv' /\ CountInv' /\ ~Running'
  BY <1>1, <1>2 DEF CloseInv, CountInv, Running, Closings, IsInstance
<1>6. EventsInOrder'
  BY <1>1, <1>2 DEF EventsInOrder
<1>7. QED
  BY <1>3, <1>4, <1>5, <1>6 DEF WsInv

\* Nothing happens.
LEMMA StutterKeeps == ASSUME WsInv, UNCHANGED wsVars PROVE WsInv'
<1>1. /\ UNCHANGED <<readyState, closeState, refs, held, finalized, instances, events, queue, needQuit,
                     tpc, tsock, opening, wire, requested, mainVars, functions, messages>>
  BY DEF wsVars, socketVars, threadVars
<1>2. TypeOK
  BY Here
<1>3. Marked /\ held' \in [Sockets -> SUBSET {"root", "global"}]
  BY <1>1, <1>2 DEF Marked, TypeOK
<1>4. QED
  BY <1>1, <1>3, MarkStep

-----------------------------------------------------------------------------
(***************************************************************************)
(* The theorems.                                                           *)
(***************************************************************************)
LEMMA InitWsInv == Init => WsInv
<1> SUFFICES ASSUME Init PROVE WsInv
  OBVIOUS
<1>1. TypeOK
  <2>1. /\ instances \in Seq(Sockets) /\ toClose \in Seq(Sockets)
        /\ queue \in Seq([what : {"open", "send"}, user : Sockets])
        /\ functions \in Seq([socket : Sockets, what : {"open", "message", "error", "close"}])
    BY DEF Init
  <2>2. events \in [Sockets -> Seq({"open", "message", "error", "close"})]
    BY DEF Init
  <2>3. messages \in 0..MaxMessages
    BY BoundAssumption DEF Init
  <2>4. refs \in [Sockets -> 0..2] /\ held \in [Sockets -> SUBSET {"root", "global"}]
    BY DEF Init
  <2>5. finalized \in [Sockets -> BOOLEAN] /\ requested \in [Sockets -> BOOLEAN]
    BY DEF Init
  <2>6. /\ readyState \in [Sockets -> {"connecting", "open", "closing", "closed"}]
        /\ closeState \in [Sockets -> {"none", "sync", "synced", "async"}]
        /\ wire \in [Sockets -> {"none", "connecting", "established", "writable", "ending", "gone"}]
    BY DEF Init
  <2>7. /\ needQuit \in BOOLEAN /\ opening \in BOOLEAN
        /\ tpc \in {"none", "loop", "connect", "error", "closed", "notify", "write", "ended"}
        /\ tsock \in Sockets \cup {NoSocket} /\ msock \in Sockets \cup {NoSocket}
        /\ main \in {"idle", "join", "closeNext", "close", "wait", "woken", "onClose", "restarted"}
    BY DEF Init
  <2>8. QED
    BY <2>1, <2>2, <2>3, <2>4, <2>5, <2>6, <2>7 DEF TypeOK
<1>2. (\A s : ~Waits(s)) /\ OpensOnce /\ (\A s : ~IsInstance(s))
  BY DEF Init, Waits, OpensOnce, IsInstance
<1>3. ThreadInv
  BY <1>2 DEF Init, ThreadInv
<1>4. CloseInv
  BY DEF Init, CloseInv, Running, Closings
<1>5. CountInv
  BY <1>2 DEF Init, CountInv, Closings
<1>6. ThreadUsesLiveSockets
  BY DEF Init, ThreadUsesLiveSockets
<1>7. EventsInOrder
  BY DEF Init, EventsInOrder
<1>8. (\A w : \A s \in Sockets : ~Told(s, w)) /\ (\A s, w : ~Pending(s, w))
  BY DEF Init, Told, Pending
<1>9. StreamInv
  BY <1>2, <1>8 DEF Init, StreamInv, StartInv, OrderInv
<1>10. BornInv
  BY <1>2, <1>8 DEF Init, BornInv
<1>11. EndInv
  BY <1>2, <1>8 DEF EndInv
<1>12. QED
  BY <1>1, <1>3, <1>4, <1>5, <1>6, <1>7, <1>9, <1>10, <1>11 DEF WsInv

LEMMA NextWsInv == WsInv /\ [Next]_wsVars => WsInv'
<1> SUFFICES ASSUME WsInv, [Next]_wsVars PROVE WsInv'
  OBVIOUS
<1>1. CASE \E s \in Sockets : Event(s)
  <2> SUFFICES ASSUME NEW s \in Sockets, Event(s) PROVE WsInv'
    BY <1>1
  <2>1. CASE OpenRequest(s)
    BY <2>1, OpenRequestKeeps
  <2>2. CASE Established(s)
    BY <2>2, EstablishedKeeps
  <2>3. CASE ConnectionFails(s)
    BY <2>3, ConnectionFailsKeeps
  <2>4. CASE ConnectionEnds(s)
    BY <2>4, ConnectionEndsKeeps
  <2>5. CASE WritableEnds(s)
    BY <2>5, WritableEndsKeeps
  <2>6. CASE Writable(s)
    BY <2>6, WritableKeeps
  <2>7. CASE Receive(s)
    BY <2>7, ReceiveKeeps
  <2>8. QED
    BY <2>1, <2>2, <2>3, <2>4, <2>5, <2>6, <2>7 DEF Event
<1>2. CASE \E s \in Sockets : Create(s) \/ SendMessage(s) \/ CloseAsync(s) \/ Finalize(s)
  BY <1>2, CreateKeeps, SendMessageKeeps, CloseAsyncKeeps, FinalizeKeeps
<1>3. CASE Handler
  BY <1>3, ConnectKeeps, NoConnectionKeeps, ConnectionErrorKeeps, ConnectionClosedKeeps,
     NotifyCloseKeeps, WriteKeeps, ThreadEndsKeeps DEF Handler
<1>4. CASE JoinThread \/ Perform \/ RestartVM
  BY <1>4, JoinThreadKeeps, PerformKeeps, RestartVMKeeps
<1>5. CASE Closing
  BY <1>5, CloseNextKeeps, CloseLockKeeps, CloseWokenKeeps, CloseReportsKeeps, AllClosedKeeps
     DEF Closing
<1>6. CASE IdleTurn \/ IdleFrame \/ Restarted \/ UNCHANGED wsVars
  BY <1>6, StutterKeeps DEF IdleTurn, IdleFrame, Restarted
<1>7. QED
  BY <1>1, <1>2, <1>3, <1>4, <1>5, <1>6 DEF Next

THEOREM InvariantHolds == Spec => []WsInv
<1>1. QED
  BY InitWsInv, NextWsInv, PTL DEF Spec

\* Every variable has its type: among them, no socket ever has fewer references than none
\* or more than the two it was created with.
THEOREM TypesHold == Spec => []TypeOK
<1>1. WsInv => TypeOK
  BY DEF WsInv
<1>2. QED
  BY <1>1, InvariantHolds, PTL

\* The delegate of each socket is told what happened in order, whichever of the two threads
\* saw it, and also while the virtual machine is restarted.
THEOREM EventsComeInOrder == Spec => []EventsInOrder
<1>1. WsInv => EventsInOrder
  BY DEF WsInv
<1>2. QED
  BY <1>1, InvariantHolds, PTL

\* The thread, which keeps plain pointers, uses no socket that was destroyed before its end
\* was reported.
THEOREM NoSocketIsDestroyedInUse == Spec => []ThreadUsesLiveSockets
<1>1. WsInv => ThreadUsesLiveSockets
  BY DEF WsInv
<1>2. QED
  BY <1>1, InvariantHolds, PTL

\* The references of a socket are those of its end, until it is told, and of the script's
\* object, until it is collected: the end is told once.
THEOREM TheEndIsToldOnce == Spec => []EndToldOnce
<1>1. WsInv => EndToldOnce
  <2> SUFFICES ASSUME WsInv, Running, NEW s \in Sockets
               PROVE  /\ ~finalized[s] /\ events[s] # << >> => IsInstance(s)
                      /\ refs[s] = Cardinality({w \in {"end", "object"} :
                           /\ IsInstance(s)
                           /\ IF w = "end" THEN \A i \in DOMAIN events[s] : events[s][i] # "close"
                              ELSE ~finalized[s]})
    BY DEF EndToldOnce, Running
  <2>1. TypeOK /\ CountInv /\ BornInv /\ EndInv
    BY Here
  <2>2. ~finalized[s] /\ events[s] # << >> => IsInstance(s)
    BY <2>1 DEF BornInv, Born
  <2> DEFINE untold == \A i \in DOMAIN events[s] : events[s][i] # "close"
             R == {w \in {"end", "object"} : IsInstance(s) /\ IF w = "end" THEN untold ELSE ~finalized[s]}
  <2>3. untold <=> ~Told(s, "close")
    BY <2>1 DEF TypeOK, Told
  <2>4. refs[s] \in 0..2 /\ (IsInstance(s) <=> refs[s] > 0)
    BY <2>1 DEF TypeOK, CountInv
  <2>5. IsInstance(s) => refs[s] = (IF untold THEN 1 ELSE 0) + (IF finalized[s] THEN 0 ELSE 1)
    BY <2>1, <2>3 DEF EndInv
  <2> HIDE DEF untold
  <2>6. CASE ~IsInstance(s)
    <3>1. R = {} /\ refs[s] = 0
      BY <2>4, <2>6
    <3>2. QED
      BY <2>2, <3>1, FS_EmptySet DEF untold
  <2>7. CASE IsInstance(s) /\ untold /\ finalized[s]
    <3>1. R = {"end"} /\ refs[s] = 1
      BY <2>5, <2>7
    <3>2. QED
      BY <2>2, <3>1, FS_Singleton DEF untold
  <2>8. CASE IsInstance(s) /\ ~untold /\ ~finalized[s]
    <3>1. R = {"object"} /\ refs[s] = 1
      BY <2>5, <2>8
    <3>2. QED
      BY <2>2, <3>1, FS_Singleton DEF untold
  <2>9. CASE IsInstance(s) /\ untold /\ ~finalized[s]
    <3>1. R = {"end"} \cup {"object"} /\ refs[s] = 2
      BY <2>5, <2>9
    <3>2. IsFiniteSet({"end"}) /\ Cardinality({"end"}) = 1 /\ "object" \notin {"end"}
      BY FS_Singleton
    <3>3. Cardinality({"end"} \cup {"object"}) = 2
      BY <3>2, FS_AddElement
    <3>4. QED
      BY <2>2, <3>1, <3>3 DEF untold
  <2>10. QED
    BY <2>4, <2>5, <2>6, <2>7, <2>8, <2>9
<1>2. QED
  BY <1>1, InvariantHolds, PTL
-----------------------------------------------------------------------------
(***************************************************************************)
(* HttpClient, for any number of requests.  The client is deleted by the   *)
(* last of its users because _threadCount is their number, in whichever    *)
(* order they begin and leave (UsersInv).  The requests of the queue are   *)
(* answered in their order because each of the places they go through      *)
(* keeps them in it, and a response has its call because the call is       *)
(* posted after it and performed with it (AnswersInv).                     *)
(***************************************************************************)
Members(s) == {s[i] : i \in 1..Len(s)}

\* What a queue holds: requests, the sentinel, or a call of dispatchResponseCallbacks.
Entries == 0..MaxRequests

\* The network thread uses the client.
NetUsing == net \in {"test", "asleep", "transfer", "post", "clean", "leave"}

\* The requests sent immediately whose threads do.
AloneUsing == {r \in Http!Requests : alone[r] \in {"transfer", "leave"}}

One(b) == IF b THEN 1 ELSE 0

HttpTypes ==
  /\ count \in Nat /\ deleted \in BOOLEAN /\ scheduler \in BOOLEAN
  /\ requestQueue \in Seq(Entries) /\ responseQueue \in Seq(Http!Requests)
  /\ net \in Http!NetPlaces /\ request \in Entries
  /\ net = "transfer" => request \in Http!Requests
  /\ alone \in [Http!Requests -> {"none", "created", "transfer", "leave", "over", "undefined"}]
  /\ httpFunctions \in Seq(Entries)
  /\ httpMain \in {"idle", "notify", "sentinel", "notifyQuit", "leave", "remove", "restarted"}
  /\ sent \in 0..MaxRequests /\ answered \in Seq(Http!Requests)
  /\ \A r \in Http!Requests : r > sent => alone[r] = "none"

\* The count is that of the users: the cocos thread until it leaves, and the threads that
\* have begun and not left.  The client is deleted when it is 0.
UsersCounted ==
  /\ count = One(httpMain \notin {"remove", "restarted"}) + One(NetUsing) + Cardinality(AloneUsing)
  /\ deleted <=> count = 0

\* Functions are posted until destroyInstance, the network thread leaves after it, and
\* nothing is left to perform after the restart.
PostsEnd ==
  /\ scheduler <=> httpMain \in {"idle", "notify"}
  /\ Http!Sentinel \in Members(requestQueue) => httpMain \notin {"idle", "notify", "sentinel"}
  /\ net \in {"clean", "leave", "over", "undefined"} => httpMain \notin {"idle", "notify", "sentinel"}
  /\ httpMain = "restarted" => httpFunctions = << >>

UsersInv == HttpTypes /\ UsersCounted /\ PostsEnd

\* The requests of the network thread: those that wait, the one it transfers, those whose
\* responses wait, and those that were answered.
Waiting   == Members(requestQueue) \ {Http!Sentinel}
InHand    == IF net = "transfer" THEN {request} ELSE {}
Responded == Members(responseQueue)
ByNet     == {r \in Members(answered) : alone[r] = "none"}

Below(S, T) == \A a \in S, b \in T : a < b

\* What is further on its way was sent earlier.
InLine ==
  /\ \A i, j \in 1..Len(requestQueue) : i < j =>
       /\ requestQueue[i] # Http!Sentinel
       /\ requestQueue[j] = Http!Sentinel \/ requestQueue[i] < requestQueue[j]
  /\ \A i, j \in 1..Len(responseQueue) : i < j => responseQueue[i] < responseQueue[j]
  /\ Below(ByNet, Responded) /\ Below(ByNet, InHand) /\ Below(ByNet, Waiting)
  /\ Below(Responded, InHand) /\ Below(Responded, Waiting) /\ Below(InHand, Waiting)
  /\ \A r \in Waiting \cup InHand \cup Responded : r \in 1..sent /\ alone[r] = "none"

\* A request sent immediately is handed over once, by its thread.
HandedOnce ==
  /\ \A i, j \in 1..Len(httpFunctions) :
       httpFunctions[i] = httpFunctions[j] /\ httpFunctions[i] # Http!Dispatch => i = j
  /\ \A r \in Members(httpFunctions) \ {Http!Dispatch} :
       alone[r] \in {"leave", "over"} /\ r \notin Members(answered)
  /\ \A r \in Http!Requests : alone[r] \in {"created", "transfer"} => r \notin Members(answered)
  /\ \A r \in Members(answered) : r <= sent

AnswersInv ==
  InLine /\ HandedOnce /\ Http!ResponsesHaveTheirCall /\ Http!AnsweredInOrder

\* A queue with an element more, and without its first.
LEMMA Grown ==
  ASSUME NEW S, NEW s \in Seq(S), NEW e \in S
  PROVE  /\ Append(s, e) \in Seq(S) /\ Len(Append(s, e)) = Len(s) + 1 /\ Len(s) \in Nat
         /\ Append(s, e)[Len(s) + 1] = e
         /\ \A i \in 1..Len(s) : Append(s, e)[i] = s[i]
         /\ Members(Append(s, e)) = Members(s) \cup {e}
<1>1. /\ Append(s, e) \in Seq(S) /\ Len(Append(s, e)) = Len(s) + 1 /\ Len(s) \in Nat
      /\ Append(s, e)[Len(s) + 1] = e
      /\ \A i \in 1..Len(s) : Append(s, e)[i] = s[i]
  BY AppendProperties
<1>2. 1..Len(Append(s, e)) = (1..Len(s)) \cup {Len(s) + 1}
  BY <1>1
<1>3. Members(Append(s, e)) = Members(s) \cup {e}
  BY <1>1, <1>2 DEF Members
<1>4. QED
  BY <1>1, <1>3

LEMMA Shrunk ==
  ASSUME NEW S, NEW s \in Seq(S), s # << >>
  PROVE  /\ Tail(s) \in Seq(S) /\ Len(Tail(s)) = Len(s) - 1 /\ Len(s) \in Nat \ {0}
         /\ Head(s) = s[1] /\ Head(s) \in S /\ Head(s) \in Members(s)
         /\ \A i \in 1..Len(Tail(s)) : Tail(s)[i] = s[i + 1] /\ i + 1 \in 1..Len(s)
         /\ Members(Tail(s)) \subseteq Members(s)
         /\ Members(s) = Members(Tail(s)) \cup {Head(s)}
<1>1. /\ Tail(s) \in Seq(S) /\ Len(Tail(s)) = Len(s) - 1 /\ Len(s) \in Nat \ {0}
      /\ Head(s) = s[1] /\ Head(s) \in S
      /\ \A i \in 1..Len(Tail(s)) : Tail(s)[i] = s[i + 1]
  BY HeadTailProperties
<1>2. Head(s) \in Members(s)
  BY <1>1 DEF Members
<1>3. \A i \in 1..Len(Tail(s)) : i + 1 \in 1..Len(s)
  BY <1>1
<1>4. Members(Tail(s)) \subseteq Members(s)
  BY <1>1, <1>3 DEF Members
<1>5. Members(s) \subseteq Members(Tail(s)) \cup {Head(s)}
  <2>1. SUFFICES ASSUME NEW i \in 1..Len(s), i # 1 PROVE s[i] \in Members(Tail(s))
    BY <1>1 DEF Members
  <2>2. i - 1 \in 1..Len(Tail(s)) /\ (i - 1) + 1 = i
    BY <1>1, <2>1
  <2>3. Tail(s)[i - 1] = s[i]
    BY <1>1, <2>2
  <2>4. QED
    BY <2>2, <2>3 DEF Members
<1>6. QED
  BY <1>1, <1>2, <1>3, <1>4, <1>5

-----------------------------------------------------------------------------
(***************************************************************************)
(* The users of the client.                                                *)
(***************************************************************************)
HttpRange == MaxRequests \in Nat

\* The threads that use the client can be counted.
LEMMA AloneCounted ==
  ASSUME HttpRange
  PROVE  /\ IsFiniteSet(AloneUsing) /\ Cardinality(AloneUsing) \in 0..MaxRequests
         /\ IsFiniteSet(AloneUsing') /\ Cardinality(AloneUsing') \in 0..MaxRequests
<1>1. IsFiniteSet(Http!Requests) /\ Cardinality(Http!Requests) = MaxRequests
  BY FS_Interval DEF HttpRange, Http!Requests
<1>2. AloneUsing \subseteq Http!Requests /\ AloneUsing' \subseteq Http!Requests
  BY DEF AloneUsing
<1>3. QED
  BY <1>1, <1>2, FS_Subset, FS_CardinalityType DEF HttpRange

\* When the client has been deleted, nobody uses it.
LEMMA NoUserLeft ==
  ASSUME HttpRange, UsersInv, deleted
  PROVE  /\ httpMain \in {"remove", "restarted"} /\ ~scheduler
         /\ ~NetUsing /\ AloneUsing = {}
<1>1. count = 0 /\ count = One(httpMain \notin {"remove", "restarted"}) + One(NetUsing) + Cardinality(AloneUsing)
  BY DEF UsersInv, UsersCounted
<1>2. IsFiniteSet(AloneUsing) /\ Cardinality(AloneUsing) \in 0..MaxRequests
  BY AloneCounted
<1>3. httpMain \in {"remove", "restarted"} /\ ~NetUsing /\ Cardinality(AloneUsing) = 0
  BY <1>1, <1>2 DEF One, HttpRange
<1>4. AloneUsing = {}
  BY <1>2, <1>3, FS_EmptySet
<1>5. QED
  BY <1>3, <1>4 DEF UsersInv, PostsEnd

\* A step after which the users are those before.
LEMMA UsersKept ==
  ASSUME UsersCounted, UNCHANGED <<count, deleted>>, AloneUsing' = AloneUsing,
         NetUsing' <=> NetUsing,
         httpMain' \in {"remove", "restarted"} <=> httpMain \in {"remove", "restarted"}
  PROVE  UsersCounted'
BY DEF UsersCounted, One

\* One begins ...
LEMMA UserBegins ==
  ASSUME HttpRange, UsersInv, ~deleted, Http!Begin, UNCHANGED httpMain,
         \/ NetUsing' /\ ~NetUsing /\ AloneUsing' = AloneUsing
         \/ (NetUsing' <=> NetUsing) /\ \E r \in Http!Requests \ AloneUsing : AloneUsing' = AloneUsing \cup {r}
  PROVE  UsersCounted' /\ count' \in Nat /\ deleted' \in BOOLEAN
<1>1. /\ count' = count + 1 /\ deleted' = deleted /\ count \in Nat
      /\ count = One(httpMain \notin {"remove", "restarted"}) + One(NetUsing) + Cardinality(AloneUsing)
      /\ httpMain' = httpMain
  BY DEF Http!Begin, Http!Counted, UsersInv, UsersCounted, HttpTypes
<1>2. IsFiniteSet(AloneUsing) /\ Cardinality(AloneUsing) \in Nat
  BY AloneCounted, FS_CardinalityType
<1>3. One(NetUsing') + Cardinality(AloneUsing') = One(NetUsing) + Cardinality(AloneUsing) + 1
  BY <1>2, FS_AddElement DEF One
<1>4. One(NetUsing) \in Nat /\ One(NetUsing') \in Nat /\ One(httpMain \notin {"remove", "restarted"}) \in Nat
      /\ Cardinality(AloneUsing') \in Nat
  BY AloneCounted, FS_CardinalityType DEF One
<1>5. count' = One(httpMain' \notin {"remove", "restarted"}) + One(NetUsing') + Cardinality(AloneUsing')
  BY <1>1, <1>2, <1>3, <1>4
<1>6. ~deleted' /\ count' # 0 /\ count' \in Nat
  BY <1>1
<1>7. QED
  BY <1>1, <1>5, <1>6 DEF UsersCounted, UsersInv, HttpTypes

\* ... and one leaves.
LEMMA UserLeaves ==
  ASSUME HttpRange, UsersInv, Http!Leave,
         \/ /\ NetUsing /\ ~NetUsing' /\ AloneUsing' = AloneUsing /\ UNCHANGED httpMain
         \/ /\ \E r \in AloneUsing : AloneUsing' = AloneUsing \ {r}
            /\ NetUsing' <=> NetUsing
            /\ UNCHANGED httpMain
         \/ /\ httpMain \notin {"remove", "restarted"} /\ httpMain' \in {"remove", "restarted"}
            /\ NetUsing' <=> NetUsing
            /\ AloneUsing' = AloneUsing
  PROVE  UsersCounted' /\ count' \in Nat /\ deleted' \in BOOLEAN
<1> DEFINE cocos == One(httpMain \notin {"remove", "restarted"})
           cocosNext == One(httpMain' \notin {"remove", "restarted"})
<1>1. /\ count' = count - 1 /\ deleted' = (count = 1) /\ count \in Nat
      /\ count = cocos + One(NetUsing) + Cardinality(AloneUsing)
  BY DEF Http!Leave, UsersInv, UsersCounted, HttpTypes
<1>2. IsFiniteSet(AloneUsing) /\ Cardinality(AloneUsing) \in Nat /\ Cardinality(AloneUsing') \in Nat
  BY AloneCounted, FS_CardinalityType
<1>3. cocosNext + One(NetUsing') + Cardinality(AloneUsing') = cocos + One(NetUsing) + Cardinality(AloneUsing) - 1
  BY <1>2, FS_RemoveElement DEF One
<1>4. One(NetUsing) \in Nat /\ One(NetUsing') \in Nat /\ cocos \in Nat /\ cocosNext \in Nat
  BY DEF One
<1> HIDE DEF cocos, cocosNext
<1>5. count' = cocosNext + One(NetUsing') + Cardinality(AloneUsing') /\ count' \in Nat
  BY <1>1, <1>2, <1>3, <1>4
<1>6. (count = 1) <=> (count' = 0)
  BY <1>1
<1>7. deleted' \in BOOLEAN /\ (deleted' <=> count' = 0)
  BY <1>1, <1>6
<1>8. QED
  BY <1>5, <1>7 DEF UsersCounted, cocosNext

\* The network thread begins, is counted, and leaves when it was told to.
LEMMA NetworkKeepsUsers == ASSUME HttpRange, UsersInv, Http!Network PROVE UsersInv'
<1>1. HttpTypes /\ UsersCounted /\ PostsEnd
  BY DEF UsersInv
<1>2. CASE Http!NetBegins
  <2>1. /\ net = "created" /\ Http!Begin /\ net' = IF deleted THEN "undefined" ELSE "test"
        /\ UNCHANGED <<scheduler, requestQueue, responseQueue, request, alone, httpFunctions,
                       httpMain, sent, answered>>
    BY <1>2 DEF Http!NetBegins
  <2>2. AloneUsing' = AloneUsing /\ ~NetUsing
    BY <2>1 DEF AloneUsing, NetUsing
  <2>3. CASE deleted
    <3>1. /\ UNCHANGED <<count, deleted>> /\ net' = "undefined" /\ ~NetUsing'
          /\ httpMain \in {"remove", "restarted"}
      BY <2>1, <2>3, NoUserLeft DEF Http!Begin, Http!clientVars, NetUsing
    <3>2. UsersCounted'
      BY <1>1, <2>1, <2>2, <3>1, UsersKept
    <3>3. HttpTypes' /\ PostsEnd'
      BY <1>1, <2>1, <3>1 DEF HttpTypes, PostsEnd, Http!NetPlaces
    <3>4. QED
      BY <3>2, <3>3 DEF UsersInv
  <2>4. CASE ~deleted
    <3>1. net' = "test" /\ NetUsing'
      BY <2>1, <2>4 DEF NetUsing
    <3>2. UsersCounted' /\ count' \in Nat /\ deleted' \in BOOLEAN
      BY <2>1, <2>2, <2>4, <3>1, UserBegins
    <3>3. HttpTypes' /\ PostsEnd'
      BY <1>1, <2>1, <3>1, <3>2 DEF HttpTypes, PostsEnd, Http!NetPlaces
    <3>4. QED
      BY <3>2, <3>3 DEF UsersInv
  <2>5. QED
    BY <2>3, <2>4
<1>3. CASE Http!NetLeaves
  <2>1. /\ net = "leave" /\ Http!Leave /\ net' = "over"
        /\ UNCHANGED <<scheduler, requestQueue, responseQueue, request, alone, httpFunctions,
                       httpMain, sent, answered>>
    BY <1>3 DEF Http!NetLeaves
  <2>2. AloneUsing' = AloneUsing /\ NetUsing /\ ~NetUsing'
    BY <2>1 DEF AloneUsing, NetUsing
  <2>3. UsersCounted' /\ count' \in Nat /\ deleted' \in BOOLEAN
    BY <2>1, <2>2, UserLeaves
  <2>4. HttpTypes' /\ PostsEnd'
    BY <1>1, <2>1, <2>3 DEF HttpTypes, PostsEnd, Http!NetPlaces
  <2>5. QED
    BY <2>3, <2>4 DEF UsersInv
<1>4. CASE Http!NetSleeps \/ Http!NetTakes \/ Http!NetResponds \/ Http!NetPosts \/ Http!NetCleans
  <2>1. /\ UNCHANGED <<count, deleted, scheduler, alone, httpMain, sent, answered>>
        /\ NetUsing /\ NetUsing'
    BY <1>4 DEF Http!NetSleeps, Http!NetTakes, Http!NetResponds, Http!NetPosts, Http!NetCleans,
                Http!clientVars, NetUsing
  <2>2. AloneUsing' = AloneUsing
    BY <2>1 DEF AloneUsing
  <2>3. UsersCounted'
    BY <1>1, <2>1, <2>2, UsersKept
  <2>4. CASE Http!NetSleeps
    BY <1>1, <2>1, <2>3, <2>4 DEF Http!NetSleeps, HttpTypes, PostsEnd, UsersInv, Http!NetPlaces
  <2>5. CASE Http!NetTakes
    <3>1. /\ requestQueue # << >> /\ request' = Head(requestQueue) /\ requestQueue' = Tail(requestQueue)
          /\ net' = IF request' = Http!Sentinel THEN "clean" ELSE "transfer"
          /\ UNCHANGED <<responseQueue, httpFunctions>>
      BY <2>5 DEF Http!NetTakes
    <3>2. /\ requestQueue' \in Seq(Entries) /\ request' \in Entries
          /\ Members(requestQueue') \subseteq Members(requestQueue) /\ request' \in Members(requestQueue)
      BY <1>1, <3>1, Shrunk DEF HttpTypes
    <3>3. HttpTypes'
      <4>1. net' \in Http!NetPlaces /\ (net' = "transfer" => request' \in Http!Requests)
        BY <3>1, <3>2 DEF Http!NetPlaces, Http!Sentinel, Http!Requests, Entries, HttpRange
      <4>2. QED
        BY <1>1, <2>1, <3>1, <3>2, <4>1 DEF HttpTypes
    <3>4. PostsEnd'
      BY <1>1, <2>1, <3>1, <3>2 DEF PostsEnd
    <3>5. QED
      BY <2>3, <3>3, <3>4 DEF UsersInv
  <2>6. CASE Http!NetResponds
    <3>1. /\ net = "transfer" /\ responseQueue' = Append(responseQueue, request) /\ net' = "post"
          /\ UNCHANGED <<requestQueue, request, httpFunctions>>
      BY <2>6 DEF Http!NetResponds
    <3>2. request \in Http!Requests
      BY <1>1, <3>1 DEF HttpTypes
    <3>3. responseQueue' \in Seq(Http!Requests)
      BY <1>1, <3>1, <3>2, Grown DEF HttpTypes
    <3>4. QED
      BY <1>1, <2>1, <2>3, <3>1, <3>3 DEF HttpTypes, PostsEnd, UsersInv, Http!NetPlaces
  <2>7. CASE Http!NetPosts
    <3>1. /\ net = "post" /\ httpFunctions' = Http!Posted(Http!Dispatch) /\ net' = "test"
          /\ UNCHANGED <<requestQueue, responseQueue, request>>
      BY <2>7 DEF Http!NetPosts
    <3>2. /\ httpFunctions' \in Seq(Entries)
          /\ ~scheduler => httpFunctions' = httpFunctions
      <4>1. Http!Dispatch \in Entries
        BY DEF HttpRange, Http!Dispatch, Entries
      <4>2. QED
        BY <1>1, <3>1, <4>1, Grown DEF HttpTypes, Http!Posted
    <3>3. QED
      BY <1>1, <2>1, <2>3, <3>1, <3>2 DEF HttpTypes, PostsEnd, UsersInv, Http!NetPlaces
  <2>8. CASE Http!NetCleans
    <3>1. /\ net = "clean" /\ requestQueue' = << >> /\ responseQueue' = << >> /\ net' = "leave"
          /\ UNCHANGED <<request, httpFunctions>>
      BY <2>8 DEF Http!NetCleans
    <3>2. Members(requestQueue') = {}
      BY <3>1 DEF Members
    <3>3. QED
      BY <1>1, <2>1, <2>3, <3>1, <3>2 DEF HttpTypes, PostsEnd, UsersInv, Http!NetPlaces
  <2>9. QED
    BY <1>4, <2>4, <2>5, <2>6, <2>7, <2>8
<1>5. QED
  BY <1>2, <1>3, <1>4 DEF Http!Network

\* And so does the thread of a request that is sent immediately.
LEMMA AloneKeepsUsers ==
  ASSUME HttpRange, UsersInv, NEW r \in Http!Requests, Http!Alone(r)
  PROVE  UsersInv'
<1>1. HttpTypes /\ UsersCounted /\ PostsEnd
  BY DEF UsersInv
<1>2. r <= sent
  BY <1>1 DEF HttpTypes, Http!Requests, Http!Alone, Http!AloneBegins, Http!AlonePosts, Http!AloneLeaves
<1>3. CASE Http!AloneBegins(r)
  <2>1. /\ alone[r] = "created" /\ Http!Begin
        /\ alone' = [alone EXCEPT ![r] = IF deleted THEN "undefined" ELSE "transfer"]
        /\ UNCHANGED <<scheduler, requestQueue, responseQueue, net, request, httpFunctions,
                       httpMain, sent, answered>>
    BY <1>3 DEF Http!AloneBegins
  <2>2. (NetUsing' <=> NetUsing) /\ r \notin AloneUsing
    BY <2>1 DEF AloneUsing, NetUsing
  <2>3. CASE deleted
    <3>1. UNCHANGED <<count, deleted>> /\ alone' = [alone EXCEPT ![r] = "undefined"]
      BY <2>1, <2>3 DEF Http!Begin, Http!clientVars
    <3>2. AloneUsing' = AloneUsing
      BY <1>1, <2>2, <3>1 DEF AloneUsing, HttpTypes
    <3>3. UsersCounted'
      BY <1>1, <2>1, <2>2, <3>1, <3>2, UsersKept
    <3>4. HttpTypes' /\ PostsEnd'
      BY <1>1, <1>2, <2>1, <3>1 DEF HttpTypes, PostsEnd
    <3>5. QED
      BY <3>3, <3>4 DEF UsersInv
  <2>4. CASE ~deleted
    <3>1. alone' = [alone EXCEPT ![r] = "transfer"]
      BY <2>1, <2>4
    <3>2. AloneUsing' = AloneUsing \cup {r}
      BY <1>1, <2>2, <3>1 DEF AloneUsing, HttpTypes
    <3>3. UsersCounted' /\ count' \in Nat /\ deleted' \in BOOLEAN
      BY <2>1, <2>2, <2>4, <3>2, UserBegins
    <3>4. HttpTypes' /\ PostsEnd'
      BY <1>1, <1>2, <2>1, <3>1, <3>3 DEF HttpTypes, PostsEnd
    <3>5. QED
      BY <3>3, <3>4 DEF UsersInv
  <2>5. QED
    BY <2>3, <2>4
<1>4. CASE Http!AlonePosts(r)
  <2>1. /\ alone[r] = "transfer" /\ httpFunctions' = Http!Posted(r)
        /\ alone' = [alone EXCEPT ![r] = "leave"]
        /\ UNCHANGED <<count, deleted, scheduler, requestQueue, responseQueue, net, request,
                       httpMain, sent, answered>>
    BY <1>4 DEF Http!AlonePosts, Http!clientVars
  <2>2. (NetUsing' <=> NetUsing) /\ AloneUsing' = AloneUsing
    BY <1>1, <2>1 DEF AloneUsing, NetUsing, HttpTypes
  <2>3. /\ httpFunctions' \in Seq(Entries)
        /\ ~scheduler => httpFunctions' = httpFunctions
    <3>1. r \in Entries
      BY DEF HttpRange, Http!Requests, Entries
    <3>2. QED
      BY <1>1, <2>1, <3>1, Grown DEF HttpTypes, Http!Posted
  <2>4. UsersCounted'
    BY <1>1, <2>1, <2>2, UsersKept
  <2>5. HttpTypes' /\ PostsEnd'
    BY <1>1, <1>2, <2>1, <2>3 DEF HttpTypes, PostsEnd
  <2>6. QED
    BY <2>4, <2>5 DEF UsersInv
<1>5. CASE Http!AloneLeaves(r)
  <2>1. /\ alone[r] = "leave" /\ Http!Leave /\ alone' = [alone EXCEPT ![r] = "over"]
        /\ UNCHANGED <<scheduler, requestQueue, responseQueue, net, request, httpFunctions,
                       httpMain, sent, answered>>
    BY <1>5 DEF Http!AloneLeaves
  <2>2. (NetUsing' <=> NetUsing) /\ r \in AloneUsing /\ AloneUsing' = AloneUsing \ {r}
    BY <1>1, <2>1 DEF AloneUsing, NetUsing, HttpTypes
  <2>3. UsersCounted' /\ count' \in Nat /\ deleted' \in BOOLEAN
    BY <2>1, <2>2, UserLeaves
  <2>4. HttpTypes' /\ PostsEnd'
    BY <1>1, <1>2, <2>1, <2>3 DEF HttpTypes, PostsEnd
  <2>5. QED
    BY <2>3, <2>4 DEF UsersInv
<1>6. QED
  BY <1>3, <1>4, <1>5 DEF Http!Alone

\* The cocos thread, which leaves the client in destroyInstance.
LEMMA CocosKeepsUsers ==
  ASSUME HttpRange, UsersInv,
         \/ Http!Continue \/ Http!Send \/ Http!SendImmediate \/ Http!DestroyInstance
         \/ UNCHANGED Http!vars
  PROVE  UsersInv'
<1>1. HttpTypes /\ UsersCounted /\ PostsEnd
  BY DEF UsersInv
<1>2. CASE Http!LeaveClient
  <2>1. /\ httpMain = "leave" /\ Http!Leave /\ httpMain' = "remove"
        /\ UNCHANGED <<scheduler, requestQueue, responseQueue, net, request, alone,
                       httpFunctions, sent, answered>>
    BY <1>2 DEF Http!LeaveClient
  <2>2. (NetUsing' <=> NetUsing) /\ AloneUsing' = AloneUsing
    BY <2>1 DEF NetUsing, AloneUsing
  <2>3. UsersCounted' /\ count' \in Nat /\ deleted' \in BOOLEAN
    BY <2>1, <2>2, UserLeaves
  <2>4. HttpTypes' /\ PostsEnd'
    BY <1>1, <2>1, <2>3 DEF HttpTypes, PostsEnd
  <2>5. QED
    BY <2>3, <2>4 DEF UsersInv
<1>3. CASE Http!SendImmediate
  <2>1. /\ httpMain = "idle" /\ sent < MaxRequests /\ sent' = sent + 1
        /\ alone' = [alone EXCEPT ![sent + 1] = "created"]
        /\ UNCHANGED <<count, deleted, scheduler, requestQueue, responseQueue, net, request,
                       httpFunctions, httpMain, answered>>
    BY <1>3 DEF Http!SendImmediate, Http!clientVars
  <2>2. sent + 1 \in Http!Requests /\ alone[sent + 1] = "none"
    BY <1>1, <2>1 DEF HttpTypes, Http!Requests, HttpRange
  <2>3. (NetUsing' <=> NetUsing) /\ AloneUsing' = AloneUsing
    BY <1>1, <2>1, <2>2 DEF NetUsing, AloneUsing, HttpTypes
  <2>4. UsersCounted'
    BY <1>1, <2>1, <2>3, UsersKept
  <2>5. HttpTypes'
    <3>1. sent' \in 0..MaxRequests
      BY <1>1, <2>1 DEF HttpTypes, HttpRange
    <3>2. \A r \in Http!Requests : r > sent' => alone'[r] = "none"
      BY <1>1, <2>1, <2>2 DEF HttpTypes, Http!Requests
    <3>3. QED
      BY <1>1, <2>1, <3>1, <3>2 DEF HttpTypes
  <2>6. PostsEnd'
    BY <1>1, <2>1 DEF PostsEnd
  <2>7. QED
    BY <2>4, <2>5, <2>6 DEF UsersInv
<1>4. CASE \/ Http!Notify \/ Http!Perform \/ Http!PushSentinel \/ Http!RemoveFunctions
           \/ Http!Send \/ Http!DestroyInstance \/ UNCHANGED Http!vars
  <2>1. UNCHANGED <<count, deleted, alone, request>>
    BY <1>4 DEF Http!Notify, Http!Perform, Http!PushSentinel, Http!RemoveFunctions, Http!Send,
                Http!DestroyInstance, Http!vars, Http!clientVars
  <2>2. NetUsing' <=> NetUsing
    BY <1>4 DEF Http!Notify, Http!Perform, Http!PushSentinel, Http!RemoveFunctions, Http!Send,
                Http!DestroyInstance, Http!vars, Http!Woken, NetUsing
  <2>3. httpMain' \in {"remove", "restarted"} <=> httpMain \in {"remove", "restarted"}
    BY <1>4 DEF Http!Notify, Http!Perform, Http!PushSentinel, Http!RemoveFunctions, Http!Send,
                Http!DestroyInstance, Http!vars
  <2>4. AloneUsing' = AloneUsing
    BY <2>1 DEF AloneUsing
  <2>5. UsersCounted'
    BY <1>1, <2>1, <2>2, <2>3, <2>4, UsersKept
  <2>6. CASE Http!Notify
    BY <1>1, <2>1, <2>5, <2>6
       DEF Http!Notify, Http!Woken, HttpTypes, PostsEnd, UsersInv, Http!NetPlaces
  <2>7. CASE Http!Perform
    <3>1. /\ httpMain \in {"idle", "restarted"} /\ httpFunctions # << >>
          /\ httpFunctions' = Tail(httpFunctions)
          /\ UNCHANGED <<scheduler, requestQueue, net, httpMain, sent>>
      BY <2>7 DEF Http!Perform
    <3>2. httpFunctions' \in Seq(Entries) /\ Head(httpFunctions) \in Entries
      BY <1>1, <3>1, Shrunk DEF HttpTypes
    <3>3. responseQueue' \in Seq(Http!Requests) /\ answered' \in Seq(Http!Requests)
      <4>1. CASE Head(httpFunctions) # Http!Dispatch
        <5>1. answered' = Append(answered, Head(httpFunctions)) /\ UNCHANGED responseQueue
          BY <2>7, <4>1 DEF Http!Perform
        <5>2. Head(httpFunctions) \in Http!Requests
          BY <3>2, <4>1 DEF Http!Requests, Http!Dispatch, Entries, HttpRange
        <5>3. QED
          BY <1>1, <5>1, <5>2, Grown DEF HttpTypes
      <4>2. CASE Head(httpFunctions) = Http!Dispatch /\ responseQueue = << >>
        BY <1>1, <2>7, <4>2 DEF Http!Perform, HttpTypes
      <4>3. CASE Head(httpFunctions) = Http!Dispatch /\ responseQueue # << >>
        <5>1. /\ answered' = Append(answered, Head(responseQueue))
              /\ responseQueue' = Tail(responseQueue)
          BY <2>7, <4>3 DEF Http!Perform, Http!Left
        <5>2. Head(responseQueue) \in Http!Requests /\ responseQueue' \in Seq(Http!Requests)
          BY <1>1, <4>3, <5>1, Shrunk DEF HttpTypes
        <5>3. QED
          BY <1>1, <5>1, <5>2, Grown DEF HttpTypes
      <4>4. QED
        BY <4>1, <4>2, <4>3
    <3>4. HttpTypes'
      BY <1>1, <2>1, <3>1, <3>2, <3>3 DEF HttpTypes
    <3>5. PostsEnd'
      BY <1>1, <3>1 DEF PostsEnd
    <3>6. QED
      BY <2>5, <3>4, <3>5 DEF UsersInv
  <2>8. CASE Http!PushSentinel
    <3>1. /\ httpMain = "sentinel" /\ requestQueue' = Append(requestQueue, Http!Sentinel)
          /\ httpMain' = "notifyQuit"
          /\ UNCHANGED <<scheduler, responseQueue, net, httpFunctions, sent, answered>>
      BY <2>8 DEF Http!PushSentinel, Http!WithSentinel
    <3>2. requestQueue' \in Seq(Entries)
      <4>1. Http!Sentinel \in Entries
        BY DEF Entries, Http!Sentinel, HttpRange
      <4>2. QED
        BY <1>1, <3>1, <4>1, Grown DEF HttpTypes
    <3>3. ~scheduler
      BY <1>1, <3>1 DEF PostsEnd
    <3>4. QED
      BY <1>1, <2>1, <2>5, <3>1, <3>2, <3>3 DEF HttpTypes, PostsEnd, UsersInv
  <2>9. CASE Http!RemoveFunctions
    BY <1>1, <2>1, <2>5, <2>9 DEF Http!RemoveFunctions, HttpTypes, PostsEnd, UsersInv
  <2>10. CASE Http!Send
    <3>1. /\ httpMain = "idle" /\ sent < MaxRequests /\ sent' = sent + 1
          /\ requestQueue' = Append(requestQueue, sent + 1)
          /\ net' = IF net = "none" THEN "created" ELSE net
          /\ httpMain' = "notify"
          /\ UNCHANGED <<scheduler, responseQueue, httpFunctions, answered>>
      BY <2>10 DEF Http!Send
    <3>2. sent + 1 \in 0..MaxRequests /\ sent + 1 \in Entries /\ sent + 1 # Http!Sentinel
      BY <1>1, <3>1 DEF Entries, HttpTypes, HttpRange, Http!Sentinel
    <3>3. /\ requestQueue' \in Seq(Entries)
          /\ Http!Sentinel \in Members(requestQueue') => Http!Sentinel \in Members(requestQueue)
      <4>1. /\ requestQueue' \in Seq(Entries)
            /\ Members(requestQueue') = Members(requestQueue) \cup {sent + 1}
        BY <1>1, <3>1, <3>2, Grown DEF HttpTypes
      <4>2. QED
        BY <3>2, <4>1
    <3>4. HttpTypes'
      <4>1. \A r \in Http!Requests : r > sent' => alone'[r] = "none"
        BY <1>1, <2>1, <3>1 DEF HttpTypes, Http!Requests
      <4>2. net' \in Http!NetPlaces
        BY <1>1, <3>1 DEF HttpTypes, Http!NetPlaces
      <4>3. QED
        BY <1>1, <2>1, <3>1, <3>2, <3>3, <4>1, <4>2 DEF HttpTypes
    <3>5. PostsEnd'
      BY <1>1, <3>1, <3>3 DEF PostsEnd
    <3>6. QED
      BY <2>5, <3>4, <3>5 DEF UsersInv
  <2>11. CASE Http!DestroyInstance
    BY <1>1, <2>1, <2>5, <2>11 DEF Http!DestroyInstance, HttpTypes, PostsEnd, UsersInv
  <2>12. CASE UNCHANGED Http!vars
    BY <1>1, <2>5, <2>12 DEF Http!vars, Http!clientVars, HttpTypes, PostsEnd, UsersInv
  <2>13. QED
    BY <1>4, <2>6, <2>7, <2>8, <2>9, <2>10, <2>11, <2>12
<1>5. QED
  BY <1>2, <1>3, <1>4 DEF Http!Continue

\* The cocos thread is the only user at first.
LEMMA InitUsers == ASSUME HttpRange, Http!Init PROVE UsersInv
<1>1. /\ count = 1 /\ deleted = FALSE /\ scheduler = TRUE /\ requestQueue = << >>
      /\ responseQueue = << >> /\ net = "none" /\ request = 0
      /\ alone = [r \in Http!Requests |-> "none"] /\ httpFunctions = << >>
      /\ httpMain = "idle" /\ sent = 0 /\ answered = << >>
  BY DEF Http!Init, Http!Sentinel
<1>2. \A r \in Http!Requests : alone[r] = "none"
  BY <1>1
<1>3. AloneUsing = {} /\ ~NetUsing
  BY <1>1, <1>2 DEF AloneUsing, NetUsing
<1>4. UsersCounted
  BY <1>1, <1>3, FS_EmptySet DEF UsersCounted, One
<1>5. HttpTypes
  <2>1. /\ net \in Http!NetPlaces /\ net # "transfer"
        /\ alone \in [Http!Requests -> {"none", "created", "transfer", "leave", "over", "undefined"}]
    BY <1>1 DEF Http!NetPlaces
  <2>2. 0 \in 0..MaxRequests /\ 0 \in Entries /\ count \in Nat
    BY <1>1 DEF HttpRange, Entries
  <2>3. /\ requestQueue \in Seq(Entries) /\ responseQueue \in Seq(Http!Requests)
        /\ httpFunctions \in Seq(Entries) /\ answered \in Seq(Http!Requests)
    BY <1>1, EmptySeq
  <2>4. deleted \in BOOLEAN /\ scheduler \in BOOLEAN
    BY <1>1, Zenon
  <2>5. QED
    BY <1>1, <1>2, <2>1, <2>2, <2>3, <2>4 DEF HttpTypes
<1>6. PostsEnd
  BY <1>1 DEF PostsEnd, Members
<1>7. QED
  BY <1>4, <1>5, <1>6 DEF UsersInv

LEMMA NextUsers == ASSUME HttpRange, UsersInv, [Http!Next]_(Http!vars) PROVE UsersInv'
BY NetworkKeepsUsers, AloneKeepsUsers, CocosKeepsUsers DEF Http!Next, Http!Quiet

\* No thread that has begun is left with a client that was deleted, and no function is.
LEMMA UsersHaveIt == ASSUME HttpRange, UsersInv PROVE Http!UsersHaveTheirClient
<1>1. SUFFICES ASSUME deleted PROVE Http!UsersHaveTheirClient
  BY DEF Http!UsersHaveTheirClient
<1>2. /\ httpMain \in {"remove", "restarted"} /\ ~NetUsing /\ AloneUsing = {}
      /\ net \in Http!NetPlaces
      /\ alone \in [Http!Requests -> {"none", "created", "transfer", "leave", "over", "undefined"}]
      /\ httpMain = "restarted" => httpFunctions = << >>
  BY <1>1, NoUserLeft DEF UsersInv, HttpTypes, PostsEnd
<1>3. net \in {"none", "created", "over", "undefined"}
  BY <1>2 DEF NetUsing, Http!NetPlaces
<1>4. \A r \in Http!Requests : alone[r] \in {"none", "created", "over", "undefined"}
  BY <1>2 DEF AloneUsing
<1>5. QED
  BY <1>2, <1>3, <1>4 DEF Http!UsersHaveTheirClient

\* There are no more users than the cocos thread, the network thread and those of the requests.
LEMMA UsersAreTyped == ASSUME HttpRange, UsersInv PROVE Http!TypeOK
<1>1. HttpTypes /\ count = One(httpMain \notin {"remove", "restarted"}) + One(NetUsing) + Cardinality(AloneUsing)
  BY DEF UsersInv, UsersCounted
<1>2. Cardinality(AloneUsing) \in 0..MaxRequests
  BY AloneCounted
<1>3. count \in 0..(MaxRequests + 2)
  BY <1>1, <1>2 DEF One, HttpRange
<1>4. alone \in [Http!Requests -> Http!NetPlaces]
  BY <1>1 DEF HttpTypes, Http!NetPlaces
<1>5. QED
  BY <1>1, <1>3, <1>4 DEF HttpTypes, Entries, Http!TypeOK

-----------------------------------------------------------------------------
(***************************************************************************)
(* The answers.                                                            *)
(***************************************************************************)
LEMMA MembersTyped == ASSUME NEW S, NEW s \in Seq(S) PROVE Members(s) \subseteq S
BY DEF Members

\* A step that moves no request along the queue.
LEMMA LineKept ==
  ASSUME HttpTypes, InLine, UNCHANGED <<requestQueue, responseQueue, answered, sent>>,
         InHand' = InHand,
         \A r \in Http!Requests : alone'[r] = "none" <=> alone[r] = "none"
  PROVE  InLine'
<1>1. /\ Members(responseQueue) \subseteq Http!Requests /\ Members(answered) \subseteq Http!Requests
      /\ Members(requestQueue) \subseteq Entries
  BY MembersTyped DEF HttpTypes
<1>2. Waiting \subseteq Http!Requests
  BY <1>1 DEF Waiting, Entries, Http!Sentinel, Http!Requests
<1>3. InHand \subseteq Http!Requests
  BY DEF InHand, HttpTypes
<1>4. Waiting' = Waiting /\ Responded' = Responded
  BY DEF Waiting, Responded
<1>5. ByNet' = ByNet
  BY <1>1 DEF ByNet
<1>6. \A r \in Waiting \cup InHand \cup Responded : r \in 1..sent' /\ alone'[r] = "none"
  BY <1>1, <1>2, <1>3 DEF InLine, Responded
<1>7. QED
  BY <1>4, <1>5, <1>6 DEF InLine, Below

\* A request is taken out of the queue.
LEMMA TakesInLine == ASSUME HttpTypes, InLine, Http!NetTakes PROVE InLine'
<1>1. /\ net = "test" /\ requestQueue # << >> /\ request' = Head(requestQueue)
      /\ requestQueue' = Tail(requestQueue)
      /\ net' = IF request' = Http!Sentinel THEN "clean" ELSE "transfer"
      /\ UNCHANGED <<responseQueue, alone, sent, answered>>
  BY DEF Http!NetTakes
<1>2. requestQueue \in Seq(Entries)
  BY DEF HttpTypes
<1>3. /\ Len(requestQueue') = Len(requestQueue) - 1 /\ Len(requestQueue) \in Nat \ {0}
      /\ request' = requestQueue[1] /\ request' \in Members(requestQueue)
      /\ Members(requestQueue') \subseteq Members(requestQueue)
  BY <1>1, <1>2, Shrunk
<1>4. \A i \in 1..Len(requestQueue') :
        requestQueue'[i] = requestQueue[i + 1] /\ i + 1 \in 1..Len(requestQueue)
  BY <1>1, <1>2, Shrunk
<1>5. \A i, j \in 1..Len(requestQueue') : i < j =>
        /\ requestQueue'[i] # Http!Sentinel
        /\ requestQueue'[j] = Http!Sentinel \/ requestQueue'[i] < requestQueue'[j]
  <2>1. SUFFICES ASSUME NEW i \in 1..Len(requestQueue'), NEW j \in 1..Len(requestQueue'), i < j
                 PROVE  /\ requestQueue[i + 1] # Http!Sentinel
                        /\ requestQueue[j + 1] = Http!Sentinel \/ requestQueue[i + 1] < requestQueue[j + 1]
    BY <1>4
  <2>2. i + 1 \in 1..Len(requestQueue) /\ j + 1 \in 1..Len(requestQueue) /\ i + 1 < j + 1
    BY <1>4, <2>1
  <2>3. QED
    BY <2>2 DEF InLine
<1>6. Responded' = Responded /\ ByNet' = ByNet /\ InHand = {} /\ Waiting' \subseteq Waiting
  BY <1>1, <1>3 DEF Responded, ByNet, InHand, Waiting
<1>7. InHand' \subseteq Waiting
  BY <1>1, <1>3 DEF InHand, Waiting
<1>8. Below(InHand', Waiting')
  <2>1. SUFFICES ASSUME NEW a \in InHand', NEW b \in Waiting' PROVE a < b
    BY DEF Below
  <2>2. PICK i \in 1..Len(requestQueue') : b = requestQueue'[i] /\ b # Http!Sentinel
    BY <2>1 DEF Waiting, Members
  <2>3. a = requestQueue[1] /\ b = requestQueue[i + 1] /\ i + 1 \in 1..Len(requestQueue) /\ 1 < i + 1
    BY <1>1, <1>3, <1>4, <2>1, <2>2 DEF InHand
  <2>4. 1 \in 1..Len(requestQueue)
    BY <1>3
  <2>5. QED
    BY <2>2, <2>3, <2>4 DEF InLine
<1>9. /\ Below(ByNet', Responded') /\ Below(ByNet', InHand') /\ Below(ByNet', Waiting')
      /\ Below(Responded', InHand') /\ Below(Responded', Waiting')
  BY <1>6, <1>7 DEF InLine, Below
<1>10. \A r \in Waiting' \cup InHand' \cup Responded' : r \in 1..sent' /\ alone'[r] = "none"
  BY <1>1, <1>6, <1>7 DEF InLine
<1>11. \A i, j \in 1..Len(responseQueue') : i < j => responseQueue'[i] < responseQueue'[j]
  BY <1>1 DEF InLine
<1>12. QED
  BY <1>5, <1>8, <1>9, <1>10, <1>11 DEF InLine

\* Its response is added to the others.
LEMMA RespondsInLine == ASSUME HttpTypes, InLine, Http!NetResponds PROVE InLine'
<1>1. /\ net = "transfer" /\ responseQueue' = Append(responseQueue, request) /\ net' = "post"
      /\ UNCHANGED <<requestQueue, request, alone, sent, answered>>
  BY DEF Http!NetResponds
<1>2. request \in Http!Requests /\ responseQueue \in Seq(Http!Requests)
  BY <1>1 DEF HttpTypes
<1>3. /\ Len(responseQueue') = Len(responseQueue) + 1 /\ Len(responseQueue) \in Nat
      /\ responseQueue'[Len(responseQueue) + 1] = request
      /\ \A i \in 1..Len(responseQueue) : responseQueue'[i] = responseQueue[i]
      /\ Members(responseQueue') = Members(responseQueue) \cup {request}
  BY <1>1, <1>2, Grown
<1>4. /\ Responded' = Responded \cup {request} /\ InHand = {request} /\ InHand' = {}
      /\ ByNet' = ByNet /\ Waiting' = Waiting
  BY <1>1, <1>3 DEF Responded, InHand, ByNet, Waiting
<1>5. \A i, j \in 1..Len(responseQueue') : i < j => responseQueue'[i] < responseQueue'[j]
  <2>1. SUFFICES ASSUME NEW i \in 1..Len(responseQueue'), NEW j \in 1..Len(responseQueue'), i < j
                 PROVE  responseQueue'[i] < responseQueue'[j]
    OBVIOUS
  <2>2. i \in 1..Len(responseQueue) /\ (j \in 1..Len(responseQueue) \/ j = Len(responseQueue) + 1)
    BY <1>3, <2>1
  <2>3. CASE j \in 1..Len(responseQueue)
    BY <1>3, <2>1, <2>2, <2>3 DEF InLine
  <2>4. CASE j = Len(responseQueue) + 1
    <3>1. responseQueue[i] \in Responded /\ responseQueue'[i] = responseQueue[i] /\ responseQueue'[j] = request
      BY <1>3, <2>2, <2>4 DEF Responded, Members
    <3>2. QED
      BY <1>4, <3>1 DEF InLine, Below
  <2>5. QED
    BY <2>2, <2>3, <2>4
<1>6. /\ Below(ByNet', Responded') /\ Below(ByNet', InHand') /\ Below(ByNet', Waiting')
      /\ Below(Responded', InHand') /\ Below(Responded', Waiting') /\ Below(InHand', Waiting')
  BY <1>4 DEF InLine, Below
<1>7. \A r \in Waiting' \cup InHand' \cup Responded' : r \in 1..sent' /\ alone'[r] = "none"
  BY <1>1, <1>4 DEF InLine
<1>8. QED
  BY <1>1, <1>5, <1>6, <1>7 DEF InLine

\* A thread that was told to leave drops what it has.
LEMMA CleansInLine == ASSUME InLine, Http!NetCleans PROVE InLine'
<1>1. /\ net = "clean" /\ requestQueue' = << >> /\ responseQueue' = << >> /\ net' = "leave"
  BY DEF Http!NetCleans
<1>2. Waiting' = {} /\ Responded' = {} /\ InHand' = {}
  BY <1>1 DEF Waiting, Responded, InHand, Members
<1>3. QED
  BY <1>1, <1>2 DEF InLine, Below

\* A new request is the last of the queue.
LEMMA SendInLine ==
  ASSUME HttpRange, HttpTypes, PostsEnd, InLine, HandedOnce, Http!Send
  PROVE  InLine'
<1>1. /\ httpMain = "idle" /\ sent < MaxRequests /\ sent' = sent + 1
      /\ requestQueue' = Append(requestQueue, sent + 1)
      /\ net' = IF net = "none" THEN "created" ELSE net
      /\ UNCHANGED <<responseQueue, request, alone, answered>>
  BY DEF Http!Send
<1>2. requestQueue \in Seq(Entries) /\ sent \in Nat /\ sent + 1 \in Entries /\ sent + 1 # Http!Sentinel
      /\ sent + 1 \in Http!Requests /\ alone[sent + 1] = "none"
  BY <1>1 DEF HttpTypes, Entries, Http!Sentinel, Http!Requests, HttpRange
<1>3. /\ Len(requestQueue') = Len(requestQueue) + 1 /\ Len(requestQueue) \in Nat
      /\ requestQueue'[Len(requestQueue) + 1] = sent + 1
      /\ \A i \in 1..Len(requestQueue) : requestQueue'[i] = requestQueue[i]
      /\ Members(requestQueue') = Members(requestQueue) \cup {sent + 1}
  BY <1>1, <1>2, Grown
<1>4. /\ Waiting' = Waiting \cup {sent + 1} /\ Responded' = Responded /\ ByNet' = ByNet
      /\ InHand' = InHand
  BY <1>1, <1>2, <1>3 DEF Waiting, Responded, ByNet, InHand
<1>5. \A r \in ByNet \cup Responded \cup InHand \cup Waiting : r \in Int /\ r < sent + 1
  <2>1. \A r \in ByNet : r \in Int /\ r <= sent
    <3>1. Members(answered) \subseteq Http!Requests
      BY MembersTyped DEF HttpTypes
    <3>2. QED
      BY <3>1 DEF ByNet, HandedOnce, Http!Requests
  <2>2. QED
    BY <1>2, <2>1 DEF InLine
<1>6. Http!Sentinel \notin Members(requestQueue)
  BY <1>1 DEF PostsEnd
<1>7. \A i, j \in 1..Len(requestQueue') : i < j =>
        /\ requestQueue'[i] # Http!Sentinel
        /\ requestQueue'[j] = Http!Sentinel \/ requestQueue'[i] < requestQueue'[j]
  <2>1. SUFFICES ASSUME NEW i \in 1..Len(requestQueue'), NEW j \in 1..Len(requestQueue'), i < j
                 PROVE  /\ requestQueue'[i] # Http!Sentinel
                        /\ requestQueue'[j] = Http!Sentinel \/ requestQueue'[i] < requestQueue'[j]
    OBVIOUS
  <2>2. i \in 1..Len(requestQueue) /\ (j \in 1..Len(requestQueue) \/ j = Len(requestQueue) + 1)
    BY <1>3, <2>1
  <2>3. requestQueue'[i] = requestQueue[i] /\ requestQueue[i] # Http!Sentinel
    BY <1>3, <1>6, <2>2 DEF Members
  <2>4. CASE j \in 1..Len(requestQueue)
    BY <1>3, <2>1, <2>2, <2>3, <2>4 DEF InLine
  <2>5. CASE j = Len(requestQueue) + 1
    <3>1. requestQueue[i] \in Waiting
      BY <2>2, <2>3 DEF Waiting, Members
    <3>2. QED
      BY <1>3, <1>5, <2>3, <2>5, <3>1
  <2>6. QED
    BY <2>2, <2>4, <2>5
<1>8. /\ Below(ByNet', Responded') /\ Below(ByNet', InHand') /\ Below(ByNet', Waiting')
      /\ Below(Responded', InHand') /\ Below(Responded', Waiting') /\ Below(InHand', Waiting')
  BY <1>4, <1>5 DEF InLine, Below
<1>9. \A r \in Waiting' \cup InHand' \cup Responded' : r \in 1..sent' /\ alone'[r] = "none"
  BY <1>1, <1>2, <1>4 DEF InLine
<1>10. \A i, j \in 1..Len(responseQueue') : i < j => responseQueue'[i] < responseQueue'[j]
  BY <1>1 DEF InLine
<1>11. QED
  BY <1>7, <1>8, <1>9, <1>10 DEF InLine

\* The sentinel comes after all.
LEMMA SentinelInLine == ASSUME HttpRange, HttpTypes, PostsEnd, InLine, Http!PushSentinel PROVE InLine'
<1>1. /\ httpMain = "sentinel" /\ requestQueue' = Append(requestQueue, Http!Sentinel)
      /\ UNCHANGED <<responseQueue, net, request, alone, sent, answered>>
  BY DEF Http!PushSentinel, Http!WithSentinel
<1>2. requestQueue \in Seq(Entries) /\ Http!Sentinel \in Entries
  BY DEF HttpTypes, Entries, Http!Sentinel, HttpRange
<1>3. /\ Len(requestQueue') = Len(requestQueue) + 1 /\ Len(requestQueue) \in Nat
      /\ requestQueue'[Len(requestQueue) + 1] = Http!Sentinel
      /\ \A i \in 1..Len(requestQueue) : requestQueue'[i] = requestQueue[i]
      /\ Members(requestQueue') = Members(requestQueue) \cup {Http!Sentinel}
  BY <1>1, <1>2, Grown
<1>4. Waiting' = Waiting /\ Responded' = Responded /\ ByNet' = ByNet /\ InHand' = InHand
  BY <1>1, <1>3 DEF Waiting, Responded, ByNet, InHand
<1>5. Http!Sentinel \notin Members(requestQueue)
  BY <1>1 DEF PostsEnd
<1>6. \A i, j \in 1..Len(requestQueue') : i < j =>
        /\ requestQueue'[i] # Http!Sentinel
        /\ requestQueue'[j] = Http!Sentinel \/ requestQueue'[i] < requestQueue'[j]
  <2>1. SUFFICES ASSUME NEW i \in 1..Len(requestQueue'), NEW j \in 1..Len(requestQueue'), i < j
                 PROVE  /\ requestQueue'[i] # Http!Sentinel
                        /\ requestQueue'[j] = Http!Sentinel \/ requestQueue'[i] < requestQueue'[j]
    OBVIOUS
  <2>2. i \in 1..Len(requestQueue) /\ (j \in 1..Len(requestQueue) \/ j = Len(requestQueue) + 1)
    BY <1>3, <2>1
  <2>3. requestQueue'[i] = requestQueue[i] /\ requestQueue[i] # Http!Sentinel
    BY <1>3, <1>5, <2>2 DEF Members
  <2>4. CASE j \in 1..Len(requestQueue)
    BY <1>3, <2>1, <2>2, <2>3, <2>4 DEF InLine
  <2>5. CASE j = Len(requestQueue) + 1
    BY <1>3, <2>3, <2>5
  <2>6. QED
    BY <2>2, <2>4, <2>5
<1>7. QED
  BY <1>1, <1>4, <1>6 DEF InLine, Below

\* A request sent immediately does not enter the line.
LEMMA ImmediateInLine ==
  ASSUME HttpRange, HttpTypes, InLine, HandedOnce, Http!SendImmediate
  PROVE  InLine'
<1>1. /\ sent < MaxRequests /\ sent' = sent + 1
      /\ alone' = [alone EXCEPT ![sent + 1] = "created"]
      /\ UNCHANGED <<requestQueue, responseQueue, net, request, answered>>
  BY DEF Http!SendImmediate
<1>2. sent \in Nat /\ sent + 1 \in Http!Requests
  BY <1>1 DEF HttpTypes, HttpRange, Http!Requests
<1>3. Members(answered) \subseteq Http!Requests /\ \A r \in Members(answered) : r <= sent
  BY MembersTyped DEF HttpTypes, HandedOnce
<1>4. \A r \in Http!Requests : r <= sent => alone'[r] = alone[r]
  BY <1>1, <1>2 DEF HttpTypes
<1>5. Waiting' = Waiting /\ Responded' = Responded /\ InHand' = InHand
  BY <1>1 DEF Waiting, Responded, InHand
<1>6. ByNet' = ByNet
  BY <1>1, <1>3, <1>4 DEF ByNet
<1>7. \A r \in Waiting' \cup InHand' \cup Responded' : r \in 1..sent' /\ alone'[r] = "none"
  <2>1. SUFFICES ASSUME NEW r \in Waiting \cup InHand \cup Responded
                 PROVE  r \in 1..sent' /\ alone'[r] = "none"
    BY <1>5
  <2>2. r \in 1..sent /\ alone[r] = "none"
    BY <2>1 DEF InLine
  <2>3. r \in Http!Requests /\ r <= sent
    BY <1>1, <1>2, <2>2 DEF Http!Requests, HttpRange
  <2>4. QED
    BY <1>1, <1>2, <1>4, <2>2, <2>3
<1>8. QED
  BY <1>1, <1>5, <1>6, <1>7 DEF InLine

\* What Perform does: it hands over a request sent immediately, or the first response.
LEMMA PerformEffect ==
  ASSUME UsersInv, Http!Perform
  PROVE  /\ httpFunctions # << >> /\ httpFunctions' = Tail(httpFunctions)
         /\ UNCHANGED <<scheduler, requestQueue, net, request, alone, httpMain, sent>>
         /\ httpMain = "idle"
         /\ \/ /\ Head(httpFunctions) # Http!Dispatch
               /\ answered' = Append(answered, Head(httpFunctions))
               /\ UNCHANGED responseQueue
            \/ /\ Head(httpFunctions) = Http!Dispatch /\ responseQueue # << >>
               /\ answered' = Append(answered, Head(responseQueue))
               /\ responseQueue' = Tail(responseQueue)
            \/ /\ Head(httpFunctions) = Http!Dispatch /\ responseQueue = << >>
               /\ UNCHANGED <<responseQueue, answered>>
BY DEF Http!Perform, Http!Left, UsersInv, PostsEnd

LEMMA PerformInLine ==
  ASSUME HttpRange, UsersInv, InLine, HandedOnce, Http!Perform
  PROVE  InLine'
<1>1. /\ httpFunctions # << >> /\ httpFunctions' = Tail(httpFunctions)
      /\ UNCHANGED <<requestQueue, net, request, alone, sent>>
  BY PerformEffect
<1>2. Waiting' = Waiting /\ InHand' = InHand
  BY <1>1 DEF Waiting, InHand
<1>3. /\ HttpTypes /\ httpFunctions \in Seq(Entries) /\ responseQueue \in Seq(Http!Requests)
      /\ answered \in Seq(Http!Requests)
  BY DEF UsersInv, HttpTypes
<1>4. CASE /\ Head(httpFunctions) # Http!Dispatch
           /\ answered' = Append(answered, Head(httpFunctions))
           /\ UNCHANGED responseQueue
  <2>1. /\ Head(httpFunctions) \in Members(httpFunctions) /\ Head(httpFunctions) \in Entries
    BY <1>1, <1>3, Shrunk
  <2>2. Head(httpFunctions) \in Http!Requests /\ alone[Head(httpFunctions)] # "none"
    BY <1>4, <2>1 DEF HandedOnce, Entries, Http!Requests, Http!Dispatch, HttpRange
  <2>3. Members(answered') = Members(answered) \cup {Head(httpFunctions)}
    BY <1>3, <1>4, <2>2, Grown
  <2>4. ByNet' = ByNet /\ Responded' = Responded
    BY <1>1, <1>4, <2>2, <2>3 DEF ByNet, Responded
  <2>5. QED
    BY <1>1, <1>2, <1>4, <2>4 DEF InLine
<1>5. CASE /\ responseQueue # << >>
           /\ answered' = Append(answered, Head(responseQueue))
           /\ responseQueue' = Tail(responseQueue)
  <2>1. /\ Len(responseQueue') = Len(responseQueue) - 1 /\ Len(responseQueue) \in Nat \ {0}
        /\ Head(responseQueue) = responseQueue[1] /\ Head(responseQueue) \in Http!Requests
        /\ Head(responseQueue) \in Responded /\ Responded' \subseteq Responded
    BY <1>3, <1>5, Shrunk DEF Responded
  <2>2. \A i \in 1..Len(responseQueue') :
          responseQueue'[i] = responseQueue[i + 1] /\ i + 1 \in 1..Len(responseQueue)
    BY <1>3, <1>5, Shrunk
  <2>3. Members(answered') = Members(answered) \cup {Head(responseQueue)}
    BY <1>3, <1>5, <2>1, Grown
  <2>4. ByNet' \subseteq ByNet \cup {Head(responseQueue)}
    BY <1>1, <2>3 DEF ByNet
  <2>5. \A i, j \in 1..Len(responseQueue') : i < j => responseQueue'[i] < responseQueue'[j]
    <3>1. SUFFICES ASSUME NEW i \in 1..Len(responseQueue'), NEW j \in 1..Len(responseQueue'), i < j
                   PROVE  responseQueue[i + 1] < responseQueue[j + 1]
      BY <2>2
    <3>2. i + 1 \in 1..Len(responseQueue) /\ j + 1 \in 1..Len(responseQueue) /\ i + 1 < j + 1
      BY <2>2, <3>1
    <3>3. QED
      BY <3>2 DEF InLine
  <2>6. \A b \in Responded' : Head(responseQueue) < b
    <3>1. SUFFICES ASSUME NEW i \in 1..Len(responseQueue') PROVE responseQueue[1] < responseQueue[i + 1]
      BY <2>1, <2>2 DEF Responded, Members
    <3>2. 1 \in 1..Len(responseQueue) /\ i + 1 \in 1..Len(responseQueue) /\ 1 < i + 1
      BY <2>1, <2>2, <3>1
    <3>3. QED
      BY <3>2 DEF InLine
  <2>7. /\ Below(ByNet', Responded') /\ Below(ByNet', InHand') /\ Below(ByNet', Waiting')
        /\ Below(Responded', InHand') /\ Below(Responded', Waiting') /\ Below(InHand', Waiting')
    BY <1>2, <2>1, <2>4, <2>6 DEF InLine, Below
  <2>8. \A r \in Waiting' \cup InHand' \cup Responded' : r \in 1..sent' /\ alone'[r] = "none"
    BY <1>1, <1>2, <2>1 DEF InLine
  <2>9. QED
    BY <1>1, <2>5, <2>7, <2>8 DEF InLine
<1>6. CASE UNCHANGED <<responseQueue, answered>>
  BY <1>1, <1>2, <1>3, <1>6, LineKept
<1>7. QED
  BY <1>4, <1>5, <1>6, PerformEffect

\* Each step keeps the requests in line.
LEMMA NextInLine ==
  ASSUME HttpRange, UsersInv, InLine, HandedOnce, [Http!Next]_(Http!vars)
  PROVE  InLine'
<1>1. HttpTypes /\ PostsEnd
  BY DEF UsersInv
<1>2. CASE Http!NetBegins \/ Http!NetSleeps \/ Http!NetPosts \/ Http!NetLeaves
  <2>1. UNCHANGED <<requestQueue, responseQueue, answered, sent, alone, request>>
    BY <1>2 DEF Http!NetBegins, Http!NetSleeps, Http!NetPosts, Http!NetLeaves
  <2>2. net # "transfer" /\ net' # "transfer"
    BY <1>2 DEF Http!NetBegins, Http!NetSleeps, Http!NetPosts, Http!NetLeaves
  <2>3. InHand' = InHand
    BY <2>2 DEF InHand
  <2>4. QED
    BY <1>1, <2>1, <2>3, LineKept
<1>3. ASSUME NEW r \in Http!Requests, Http!Alone(r) PROVE InLine'
  <2>1. /\ UNCHANGED <<requestQueue, responseQueue, answered, sent, net, request>>
        /\ alone[r] # "none"
        /\ \E a \in {"undefined", "transfer", "leave", "over"} : alone' = [alone EXCEPT ![r] = a]
    BY <1>3 DEF Http!Alone, Http!AloneBegins, Http!AlonePosts, Http!AloneLeaves
  <2>2. \A q \in Http!Requests : alone'[q] = "none" <=> alone[q] = "none"
    BY <1>1, <2>1 DEF HttpTypes
  <2>3. InHand' = InHand
    BY <2>1 DEF InHand
  <2>4. QED
    BY <1>1, <2>1, <2>2, <2>3, LineKept
<1>4. CASE \/ Http!Notify \/ Http!LeaveClient \/ Http!RemoveFunctions \/ Http!DestroyInstance
           \/ UNCHANGED Http!vars
  <2>1. UNCHANGED <<requestQueue, responseQueue, answered, sent, alone, request>>
    BY <1>4 DEF Http!Notify, Http!LeaveClient, Http!RemoveFunctions, Http!DestroyInstance, Http!vars
  <2>2. net' = "transfer" <=> net = "transfer"
    BY <1>4 DEF Http!Notify, Http!LeaveClient, Http!RemoveFunctions, Http!DestroyInstance, Http!vars,
                Http!Woken
  <2>3. InHand' = InHand
    BY <2>1, <2>2 DEF InHand
  <2>4. QED
    BY <1>1, <2>1, <2>3, LineKept
<1>5. CASE Http!NetTakes \/ Http!NetResponds \/ Http!NetCleans
  BY <1>1, <1>5, TakesInLine, RespondsInLine, CleansInLine
<1>6. CASE Http!Send \/ Http!SendImmediate \/ Http!PushSentinel \/ Http!Perform
  BY <1>1, <1>6, SendInLine, ImmediateInLine, SentinelInLine, PerformInLine
<1>7. QED
  BY <1>2, <1>3, <1>4, <1>5, <1>6 DEF Http!Next, Http!Network, Http!Continue, Http!Quiet

\* A step that hands over no request sent immediately.
LEMMA HandedKept ==
  ASSUME HttpTypes, HandedOnce, UNCHANGED <<httpFunctions, answered>>, sent' \in Nat, sent <= sent',
         \A r \in Http!Requests :
           \/ alone'[r] = alone[r]
           \/ /\ alone'[r] \in {"created", "transfer"} /\ r \notin Members(answered)
              /\ r \notin Members(httpFunctions) \ {Http!Dispatch}
           \/ alone[r] = "created" /\ alone'[r] = "undefined"
           \/ alone[r] = "leave" /\ alone'[r] = "over"
  PROVE  HandedOnce'
<1>1. /\ Members(answered) \subseteq Http!Requests /\ Members(httpFunctions) \subseteq Entries
  BY MembersTyped DEF HttpTypes
<1>2. ASSUME NEW r \in Members(httpFunctions) \ {Http!Dispatch}
      PROVE  alone'[r] \in {"leave", "over"} /\ r \notin Members(answered)
  <2>1. alone[r] \in {"leave", "over"} /\ r \notin Members(answered)
    BY DEF HandedOnce
  <2>2. r \in Http!Requests
    BY <1>1 DEF Entries, Http!Requests, Http!Dispatch
  <2>3. CASE alone'[r] = alone[r]
    BY <2>1, <2>3
  <2>4. CASE \/ alone[r] = "created" /\ alone'[r] = "undefined"
             \/ alone[r] = "leave" /\ alone'[r] = "over"
    BY <2>1, <2>2, <2>4
  <2>5. QED
    BY <1>2, <2>2, <2>3, <2>4
<1>3. ASSUME NEW r \in Http!Requests, alone'[r] \in {"created", "transfer"}
      PROVE  r \notin Members(answered)
  BY <1>3 DEF HandedOnce
<1>4. \A r \in Members(answered) : r <= sent'
  BY <1>1 DEF HandedOnce, HttpTypes, Http!Requests
<1>5. QED
  BY <1>2, <1>3, <1>4 DEF HandedOnce

\* A function is posted, by the network thread or with a request sent immediately.
LEMMA PostedHanded ==
  ASSUME HttpTypes, HandedOnce, NEW f \in Entries, httpFunctions' = Http!Posted(f),
         UNCHANGED <<answered, sent>>,
         \/ f = Http!Dispatch /\ UNCHANGED alone
         \/ f \in Http!Requests /\ alone[f] = "transfer" /\ alone' = [alone EXCEPT ![f] = "leave"]
  PROVE  HandedOnce'
<1>1. /\ Members(answered) \subseteq Http!Requests /\ Members(httpFunctions) \subseteq Entries
      /\ httpFunctions \in Seq(Entries)
      /\ alone \in [Http!Requests -> {"none", "created", "transfer", "leave", "over", "undefined"}]
  BY MembersTyped DEF HttpTypes
<1>2. \A r \in Members(httpFunctions) \ {Http!Dispatch} : r \in Http!Requests /\ alone'[r] = alone[r]
  <2>1. SUFFICES ASSUME NEW r \in Members(httpFunctions) \ {Http!Dispatch}
                 PROVE  r \in Http!Requests /\ alone'[r] = alone[r]
    OBVIOUS
  <2>2. r \in Http!Requests /\ alone[r] \in {"leave", "over"}
    BY <1>1 DEF Entries, Http!Requests, Http!Dispatch, HandedOnce
  <2>3. QED
    BY <1>1, <2>2
<1>3. f \notin Members(httpFunctions) \ {Http!Dispatch}
  BY DEF HandedOnce
<1>4. f # Http!Dispatch => alone'[f] = "leave" /\ f \notin Members(answered)
  BY <1>1 DEF HandedOnce
<1>5. \A r \in Http!Requests : alone'[r] \in {"created", "transfer"} => r \notin Members(answered)
  BY <1>1 DEF HandedOnce
<1>6. CASE httpFunctions' = httpFunctions
  BY <1>2, <1>5, <1>6 DEF HandedOnce
<1>7. CASE httpFunctions' = Append(httpFunctions, f)
  <2>1. /\ Len(httpFunctions') = Len(httpFunctions) + 1 /\ Len(httpFunctions) \in Nat
        /\ httpFunctions'[Len(httpFunctions) + 1] = f
        /\ \A i \in 1..Len(httpFunctions) : httpFunctions'[i] = httpFunctions[i]
        /\ Members(httpFunctions') = Members(httpFunctions) \cup {f}
    BY <1>1, <1>7, Grown
  <2>2. \A r \in Members(httpFunctions') \ {Http!Dispatch} :
          alone'[r] \in {"leave", "over"} /\ r \notin Members(answered')
    BY <1>2, <1>4, <2>1 DEF HandedOnce
  <2>3. \A i, j \in 1..Len(httpFunctions') :
          httpFunctions'[i] = httpFunctions'[j] /\ httpFunctions'[i] # Http!Dispatch => i = j
    <3>1. SUFFICES ASSUME NEW i \in 1..Len(httpFunctions'), NEW j \in 1..Len(httpFunctions'),
                          httpFunctions'[i] = httpFunctions'[j], httpFunctions'[i] # Http!Dispatch
                   PROVE  i = j
      OBVIOUS
    <3>2. \A k \in 1..Len(httpFunctions) : httpFunctions[k] = f => f = Http!Dispatch
      BY <1>3 DEF Members
    <3>3. i \in 1..Len(httpFunctions) \/ i = Len(httpFunctions) + 1
      BY <2>1
    <3>4. j \in 1..Len(httpFunctions) \/ j = Len(httpFunctions) + 1
      BY <2>1
    <3>5. CASE i \in 1..Len(httpFunctions) /\ j \in 1..Len(httpFunctions)
      BY <2>1, <3>1, <3>5 DEF HandedOnce
    <3>6. QED
      BY <2>1, <3>1, <3>2, <3>3, <3>4, <3>5
  <2>4. QED
    BY <1>5, <2>2, <2>3 DEF HandedOnce
<1>8. QED
  BY <1>6, <1>7 DEF Http!Posted

\* A function is performed, and its request is not among those that are left.
LEMMA PerformHanded ==
  ASSUME HttpRange, UsersInv, InLine, HandedOnce, Http!Perform
  PROVE  HandedOnce'
<1>1. /\ httpFunctions # << >> /\ httpFunctions' = Tail(httpFunctions) /\ UNCHANGED <<alone, sent>>
  BY PerformEffect
<1>2. /\ HttpTypes /\ httpFunctions \in Seq(Entries) /\ responseQueue \in Seq(Http!Requests)
      /\ answered \in Seq(Http!Requests) /\ sent \in Nat
  BY DEF UsersInv, HttpTypes
<1>3. /\ Len(httpFunctions') = Len(httpFunctions) - 1 /\ Len(httpFunctions) \in Nat \ {0}
      /\ Head(httpFunctions) = httpFunctions[1] /\ Head(httpFunctions) \in Entries
      /\ Head(httpFunctions) \in Members(httpFunctions)
      /\ Members(httpFunctions') \subseteq Members(httpFunctions)
  BY <1>1, <1>2, Shrunk
<1>4. \A i \in 1..Len(httpFunctions') :
        httpFunctions'[i] = httpFunctions[i + 1] /\ i + 1 \in 1..Len(httpFunctions)
  BY <1>1, <1>2, Shrunk
<1>5. \A i, j \in 1..Len(httpFunctions') :
        httpFunctions'[i] = httpFunctions'[j] /\ httpFunctions'[i] # Http!Dispatch => i = j
  <2>1. SUFFICES ASSUME NEW i \in 1..Len(httpFunctions'), NEW j \in 1..Len(httpFunctions'),
                        httpFunctions'[i] = httpFunctions'[j], httpFunctions'[i] # Http!Dispatch
                 PROVE  i = j
    OBVIOUS
  <2>2. i + 1 = j + 1
    BY <1>4, <2>1 DEF HandedOnce
  <2>3. QED
    BY <1>3, <2>2
<1>6. Head(httpFunctions) \in Members(httpFunctions') => Head(httpFunctions) = Http!Dispatch
  <2>1. SUFFICES ASSUME NEW i \in 1..Len(httpFunctions'), httpFunctions'[i] = httpFunctions[1],
                        httpFunctions[1] # Http!Dispatch
                 PROVE  FALSE
    BY <1>3 DEF Members
  <2>2. httpFunctions[i + 1] = httpFunctions[1] /\ i + 1 \in 1..Len(httpFunctions) /\ 1 \in 1..Len(httpFunctions)
    BY <1>3, <1>4, <2>1
  <2>3. i + 1 = 1
    BY <2>1, <2>2 DEF HandedOnce
  <2>4. QED
    BY <2>3
<1>7. CASE Head(httpFunctions) # Http!Dispatch /\ answered' = Append(answered, Head(httpFunctions))
  <2>1. Head(httpFunctions) \in Http!Requests
    BY <1>3, <1>7 DEF Entries, Http!Requests, Http!Dispatch, HttpRange
  <2>2. Members(answered') = Members(answered) \cup {Head(httpFunctions)}
    BY <1>2, <1>7, <2>1, Grown
  <2>3. alone[Head(httpFunctions)] \in {"leave", "over"}
    BY <1>3, <1>7 DEF HandedOnce
  <2>4. Head(httpFunctions) <= sent
    BY <1>2, <2>1, <2>3 DEF HttpTypes, Http!Requests, HttpRange
  <2>5. \A r \in Members(httpFunctions') \ {Http!Dispatch} :
          alone'[r] \in {"leave", "over"} /\ r \notin Members(answered')
    BY <1>1, <1>3, <1>6, <1>7, <2>2 DEF HandedOnce
  <2>6. \A r \in Http!Requests : alone'[r] \in {"created", "transfer"} => r \notin Members(answered')
    BY <1>1, <2>2, <2>3 DEF HandedOnce
  <2>7. \A r \in Members(answered') : r <= sent'
    BY <1>1, <2>2, <2>4 DEF HandedOnce
  <2>8. QED
    BY <1>5, <2>5, <2>6, <2>7 DEF HandedOnce
<1>8. CASE responseQueue # << >> /\ answered' = Append(answered, Head(responseQueue))
  <2>1. Head(responseQueue) \in Http!Requests /\ Head(responseQueue) \in Responded
    BY <1>2, <1>8, Shrunk DEF Responded
  <2>2. Members(answered') = Members(answered) \cup {Head(responseQueue)}
    BY <1>2, <1>8, <2>1, Grown
  <2>3. alone[Head(responseQueue)] = "none" /\ Head(responseQueue) <= sent
    BY <2>1 DEF InLine
  <2>4. \A r \in Members(httpFunctions') \ {Http!Dispatch} :
          alone'[r] \in {"leave", "over"} /\ r \notin Members(answered')
    BY <1>1, <1>3, <2>2, <2>3 DEF HandedOnce
  <2>5. \A r \in Http!Requests : alone'[r] \in {"created", "transfer"} => r \notin Members(answered')
    BY <1>1, <2>2, <2>3 DEF HandedOnce
  <2>6. \A r \in Members(answered') : r <= sent'
    BY <1>1, <2>2, <2>3 DEF HandedOnce
  <2>7. QED
    BY <1>5, <2>4, <2>5, <2>6 DEF HandedOnce
<1>9. CASE UNCHANGED answered
  BY <1>1, <1>3, <1>5, <1>9 DEF HandedOnce
<1>10. QED
  BY <1>7, <1>8, <1>9, PerformEffect

\* Each step hands over what it does once.
LEMMA NextHanded ==
  ASSUME HttpRange, UsersInv, InLine, HandedOnce, [Http!Next]_(Http!vars)
  PROVE  HandedOnce'
<1>1. HttpTypes /\ sent \in Nat
  BY DEF UsersInv, HttpTypes
<1>2. CASE \/ Http!NetBegins \/ Http!NetSleeps \/ Http!NetTakes \/ Http!NetResponds \/ Http!NetCleans
           \/ Http!NetLeaves \/ Http!Notify \/ Http!PushSentinel \/ Http!LeaveClient
           \/ Http!DestroyInstance \/ Http!Send \/ UNCHANGED Http!vars
  <2>1. UNCHANGED <<httpFunctions, alone, answered>> /\ sent' \in {sent, sent + 1}
    BY <1>2 DEF Http!NetBegins, Http!NetSleeps, Http!NetTakes, Http!NetResponds, Http!NetCleans,
                Http!NetLeaves, Http!Notify, Http!PushSentinel, Http!LeaveClient,
                Http!DestroyInstance, Http!Send, Http!vars
  <2>2. sent' \in Nat /\ sent <= sent'
    BY <1>1, <2>1
  <2>3. QED
    BY <1>1, <2>1, <2>2, HandedKept
<1>3. CASE Http!NetPosts
  <2>1. httpFunctions' = Http!Posted(Http!Dispatch) /\ UNCHANGED <<answered, sent, alone>>
    BY <1>3 DEF Http!NetPosts
  <2>2. Http!Dispatch \in Entries
    BY DEF Http!Dispatch, Entries, HttpRange
  <2>3. QED
    BY <1>1, <2>1, <2>2, PostedHanded
<1>4. ASSUME NEW r \in Http!Requests, Http!Alone(r) PROVE HandedOnce'
  <2>1. CASE Http!AlonePosts(r)
    <3>1. /\ httpFunctions' = Http!Posted(r) /\ alone[r] = "transfer"
          /\ alone' = [alone EXCEPT ![r] = "leave"] /\ UNCHANGED <<answered, sent>>
      BY <2>1 DEF Http!AlonePosts
    <3>2. r \in Entries
      BY DEF Entries, Http!Requests, HttpRange
    <3>3. QED
      BY <1>1, <3>1, <3>2, PostedHanded
  <2>2. CASE Http!AloneBegins(r) \/ Http!AloneLeaves(r)
    <3>1. /\ UNCHANGED <<httpFunctions, answered, sent>>
          /\ \/ alone[r] = "created" /\ alone' = [alone EXCEPT ![r] = "transfer"]
             \/ alone[r] = "created" /\ alone' = [alone EXCEPT ![r] = "undefined"]
             \/ alone[r] = "leave" /\ alone' = [alone EXCEPT ![r] = "over"]
      BY <2>2 DEF Http!AloneBegins, Http!AloneLeaves
    <3>2. ASSUME NEW q \in Http!Requests
          PROVE  \/ alone'[q] = alone[q]
                 \/ /\ alone'[q] \in {"created", "transfer"} /\ q \notin Members(answered)
                    /\ q \notin Members(httpFunctions) \ {Http!Dispatch}
                 \/ alone[q] = "created" /\ alone'[q] = "undefined"
                 \/ alone[q] = "leave" /\ alone'[q] = "over"
      BY <1>1, <3>1 DEF HandedOnce, HttpTypes
    <3>3. sent' \in Nat /\ sent <= sent'
      BY <1>1, <3>1
    <3>4. QED
      BY <1>1, <3>1, <3>2, <3>3, HandedKept
  <2>3. QED
    BY <1>4, <2>1, <2>2 DEF Http!Alone
<1>5. CASE Http!SendImmediate
  <2>1. /\ sent < MaxRequests /\ sent' = sent + 1 /\ alone' = [alone EXCEPT ![sent + 1] = "created"]
        /\ UNCHANGED <<httpFunctions, answered>>
    BY <1>5 DEF Http!SendImmediate
  <2>2. sent + 1 \in Http!Requests /\ alone[sent + 1] = "none"
    BY <1>1, <2>1 DEF HttpTypes, Http!Requests, HttpRange
  <2>3. sent + 1 \notin Members(answered) /\ sent + 1 \notin Members(httpFunctions) \ {Http!Dispatch}
    BY <1>1, <2>2 DEF HandedOnce
  <2>4. ASSUME NEW q \in Http!Requests
        PROVE  \/ alone'[q] = alone[q]
               \/ /\ alone'[q] \in {"created", "transfer"} /\ q \notin Members(answered)
                  /\ q \notin Members(httpFunctions) \ {Http!Dispatch}
    BY <1>1, <2>1, <2>3 DEF HttpTypes
  <2>5. sent' \in Nat /\ sent <= sent'
    BY <1>1, <2>1
  <2>6. QED
    BY <1>1, <2>1, <2>4, <2>5, HandedKept
<1>6. CASE Http!RemoveFunctions
  <2>1. httpFunctions' = << >> /\ UNCHANGED <<alone, answered, sent>>
    BY <1>6 DEF Http!RemoveFunctions
  <2>2. Members(httpFunctions') = {} /\ Len(httpFunctions') = 0
    BY <2>1 DEF Members
  <2>3. QED
    BY <2>1, <2>2 DEF HandedOnce
<1>7. CASE Http!Perform
  BY <1>7, PerformHanded
<1>8. QED
  BY <1>2, <1>3, <1>4, <1>5, <1>6, <1>7 DEF Http!Next, Http!Network, Http!Continue, Http!Quiet

\* The calls of dispatchResponseCallbacks among functions.
CallsIn(s) == {i \in DOMAIN s : s[i] = Http!Dispatch}

LEMMA CallsGrown ==
  ASSUME NEW s \in Seq(Entries), NEW e \in Entries
  PROVE  /\ IsFiniteSet(CallsIn(s)) /\ Cardinality(CallsIn(s)) \in Nat
         /\ Cardinality(CallsIn(Append(s, e))) = Cardinality(CallsIn(s)) + One(e = Http!Dispatch)
<1>1. DOMAIN s = 1..Len(s) /\ Len(s) \in Nat /\ IsFiniteSet(1..Len(s))
  BY FS_Interval
<1>2. IsFiniteSet(CallsIn(s)) /\ Cardinality(CallsIn(s)) \in Nat
  BY <1>1, FS_Subset, FS_CardinalityType DEF CallsIn
<1>3. /\ Len(Append(s, e)) = Len(s) + 1 /\ Append(s, e)[Len(s) + 1] = e
      /\ \A i \in 1..Len(s) : Append(s, e)[i] = s[i]
      /\ DOMAIN Append(s, e) = (1..Len(s)) \cup {Len(s) + 1}
  <2>1. /\ Append(s, e) \in Seq(Entries) /\ Len(Append(s, e)) = Len(s) + 1
        /\ Append(s, e)[Len(s) + 1] = e
        /\ \A i \in 1..Len(s) : Append(s, e)[i] = s[i]
    BY Grown
  <2>2. DOMAIN Append(s, e) = 1..Len(Append(s, e))
    BY <2>1
  <2>3. QED
    BY <1>1, <2>1, <2>2
<1>4. CASE e = Http!Dispatch
  <2>1. CallsIn(Append(s, e)) = CallsIn(s) \cup {Len(s) + 1} /\ Len(s) + 1 \notin CallsIn(s)
    BY <1>1, <1>3, <1>4 DEF CallsIn
  <2>2. QED
    BY <1>2, <1>4, <2>1, FS_AddElement DEF One
<1>5. CASE e # Http!Dispatch
  <2>1. CallsIn(Append(s, e)) = CallsIn(s)
    BY <1>1, <1>3, <1>5 DEF CallsIn
  <2>2. QED
    BY <1>2, <1>5, <2>1 DEF One
<1>6. QED
  BY <1>2, <1>4, <1>5

LEMMA CallsShrunk ==
  ASSUME NEW s \in Seq(Entries), s # << >>
  PROVE  /\ Cardinality(CallsIn(s)) \in Nat /\ Cardinality(CallsIn(Tail(s))) \in Nat
         /\ Cardinality(CallsIn(s)) = Cardinality(CallsIn(Tail(s))) + One(Head(s) = Http!Dispatch)
<1>1. /\ DOMAIN s = 1..Len(s) /\ Len(s) \in Nat \ {0} /\ Tail(s) \in Seq(Entries)
      /\ Len(Tail(s)) = Len(s) - 1 /\ Head(s) = s[1]
      /\ \A i \in 1..Len(Tail(s)) : Tail(s)[i] = s[i + 1] /\ i + 1 \in 1..Len(s)
  BY Shrunk
<1>2. DOMAIN Tail(s) = 1..Len(Tail(s))
  BY <1>1
<1>3. /\ IsFiniteSet(CallsIn(s)) /\ Cardinality(CallsIn(s)) \in Nat
      /\ IsFiniteSet(CallsIn(Tail(s))) /\ Cardinality(CallsIn(Tail(s))) \in Nat
  <2>1. Head(s) \in Entries
    BY Shrunk
  <2>2. IsFiniteSet(CallsIn(s)) /\ Cardinality(CallsIn(s)) \in Nat
    BY <2>1, CallsGrown
  <2>3. IsFiniteSet(CallsIn(Tail(s))) /\ Cardinality(CallsIn(Tail(s))) \in Nat
    BY <1>1, <2>1, CallsGrown
  <2>4. QED
    BY <2>2, <2>3
<1> DEFINE rest == CallsIn(s) \ {1}
           next == [i \in CallsIn(Tail(s)) |-> i + 1]
<1>4. next \in Bijection(CallsIn(Tail(s)), rest)
  <2>1. \A i \in CallsIn(Tail(s)) : i \in Nat \ {0} /\ i + 1 \in rest
    BY <1>1, <1>2 DEF CallsIn
  <2>2. next \in [CallsIn(Tail(s)) -> rest]
    BY <2>1
  <2>3. \A i, j \in CallsIn(Tail(s)) : next[i] = next[j] => i = j
    BY <2>1
  <2>4. \A j \in rest : \E i \in CallsIn(Tail(s)) : next[i] = j
    <3>1. SUFFICES ASSUME NEW j \in rest PROVE j - 1 \in CallsIn(Tail(s)) /\ (j - 1) + 1 = j
      OBVIOUS
    <3>2. j \in 1..Len(s) /\ j # 1 /\ s[j] = Http!Dispatch
      BY <1>1 DEF CallsIn
    <3>3. j - 1 \in 1..Len(Tail(s)) /\ (j - 1) + 1 = j
      BY <1>1, <3>2
    <3>4. Tail(s)[j - 1] = s[j]
      BY <1>1, <3>3
    <3>5. QED
      BY <1>2, <3>2, <3>3, <3>4 DEF CallsIn
  <2>5. QED
    BY <2>2, <2>3, <2>4, Fun_IsBij
<1>5. Cardinality(rest) = Cardinality(CallsIn(Tail(s)))
  BY <1>3, <1>4, FS_Bijection DEF ExistsBijection
<1> HIDE DEF rest, next
<1>6. CASE Head(s) = Http!Dispatch
  <2>1. 1 \in CallsIn(s)
    BY <1>1, <1>6 DEF CallsIn
  <2>2. Cardinality(rest) = Cardinality(CallsIn(s)) - 1
    BY <1>3, <2>1, FS_RemoveElement DEF rest
  <2>3. QED
    BY <1>3, <1>5, <1>6, <2>2 DEF One
<1>7. CASE Head(s) # Http!Dispatch
  <2>1. rest = CallsIn(s)
    BY <1>1, <1>7 DEF CallsIn, rest
  <2>2. QED
    BY <1>3, <1>5, <1>7, <2>1 DEF One
<1>8. QED
  BY <1>3, <1>6, <1>7

LEMMA CallsCounted ==
  Http!ResponsesHaveTheirCall <=>
    (scheduler => Len(responseQueue) = Cardinality(CallsIn(httpFunctions)) + One(net = "post"))
BY DEF Http!ResponsesHaveTheirCall, CallsIn, One, Http!Cardinality, Cardinality

\* Each step keeps the responses and the calls for them together.
LEMMA NextCalls ==
  ASSUME HttpRange, UsersInv, Http!ResponsesHaveTheirCall, [Http!Next]_(Http!vars)
  PROVE  Http!ResponsesHaveTheirCall'
<1>1. /\ httpFunctions \in Seq(Entries) /\ responseQueue \in Seq(Http!Requests)
      /\ HttpTypes /\ PostsEnd
  BY DEF UsersInv, HttpTypes
<1>2. scheduler => Len(responseQueue) = Cardinality(CallsIn(httpFunctions)) + One(net = "post")
  BY CallsCounted
<1>3. SUFFICES ASSUME scheduler'
               PROVE  Len(responseQueue') = Cardinality(CallsIn(httpFunctions')) + One(net' = "post")
  BY CallsCounted DEF Http!ResponsesHaveTheirCall, CallsIn, One, Http!Cardinality, Cardinality
<1>4. /\ scheduler /\ httpMain \in {"idle", "notify"}
      /\ net \notin {"clean", "leave", "over", "undefined"}
  <2>1. scheduler' = scheduler \/ scheduler' = FALSE
    BY DEF Http!Next, Http!Network, Http!Continue, Http!Alone, Http!Quiet, Http!vars,
           Http!NetBegins, Http!NetSleeps, Http!NetTakes, Http!NetResponds, Http!NetPosts,
           Http!NetCleans, Http!NetLeaves, Http!AloneBegins, Http!AlonePosts, Http!AloneLeaves,
           Http!Notify, Http!Perform, Http!PushSentinel, Http!LeaveClient, Http!RemoveFunctions,
           Http!Send, Http!SendImmediate, Http!DestroyInstance
  <2>2. scheduler
    BY <1>3, <2>1
  <2>3. QED
    BY <1>1, <2>2 DEF PostsEnd
<1>5. Len(responseQueue) = Cardinality(CallsIn(httpFunctions)) + One(net = "post")
  BY <1>2, <1>4
<1>6. CASE Http!NetResponds
  <2>1. /\ net = "transfer" /\ responseQueue' = Append(responseQueue, request) /\ net' = "post"
        /\ UNCHANGED httpFunctions
    BY <1>6 DEF Http!NetResponds
  <2>2. request \in Http!Requests
    BY <1>1, <2>1 DEF HttpTypes
  <2>3. Len(responseQueue') = Len(responseQueue) + 1
    BY <1>1, <2>1, <2>2, Grown
  <2>4. Cardinality(CallsIn(httpFunctions')) = Len(responseQueue)
    <3>1. Cardinality(CallsIn(httpFunctions)) \in Nat
      <4>1. Http!Dispatch \in Entries
        BY DEF Http!Dispatch, Entries, HttpRange
      <4>2. QED
        BY <1>1, <4>1, CallsGrown
    <3>2. One(net = "post") = 0
      BY <2>1 DEF One
    <3>3. httpFunctions' = httpFunctions
      BY <2>1
    <3>4. QED
      BY <1>5, <3>1, <3>2, <3>3
  <2>5. QED
    BY <1>1, <2>1, <2>3, <2>4 DEF One
<1>7. CASE Http!NetPosts
  <2>1. /\ net = "post" /\ httpFunctions' = Append(httpFunctions, Http!Dispatch) /\ net' = "test"
        /\ UNCHANGED responseQueue
    BY <1>4, <1>7 DEF Http!NetPosts, Http!Posted
  <2>2. Http!Dispatch \in Entries
    BY DEF Http!Dispatch, Entries, HttpRange
  <2>3. Cardinality(CallsIn(httpFunctions')) = Cardinality(CallsIn(httpFunctions)) + 1
    BY <1>1, <2>1, <2>2, CallsGrown DEF One
  <2>4. QED
    BY <1>1, <1>5, <2>1, <2>3, CallsGrown DEF One
<1>8. ASSUME NEW r \in Http!Requests, Http!AlonePosts(r)
      PROVE  Len(responseQueue') = Cardinality(CallsIn(httpFunctions')) + One(net' = "post")
  <2>1. httpFunctions' = Append(httpFunctions, r) /\ UNCHANGED <<responseQueue, net>>
    BY <1>4, <1>8 DEF Http!AlonePosts, Http!Posted
  <2>2. r \in Entries /\ r # Http!Dispatch
    BY DEF Http!Dispatch, Entries, Http!Requests, HttpRange
  <2>3. Cardinality(CallsIn(httpFunctions')) = Cardinality(CallsIn(httpFunctions))
    BY <1>1, <2>1, <2>2, CallsGrown DEF One
  <2>4. QED
    BY <1>5, <2>1, <2>3
<1>9. CASE Http!Perform
  <2>1. /\ httpFunctions # << >> /\ httpFunctions' = Tail(httpFunctions) /\ UNCHANGED net
    BY <1>9, PerformEffect
  <2>2. /\ Cardinality(CallsIn(httpFunctions)) \in Nat /\ Cardinality(CallsIn(httpFunctions')) \in Nat
        /\ Cardinality(CallsIn(httpFunctions)) =
             Cardinality(CallsIn(httpFunctions')) + One(Head(httpFunctions) = Http!Dispatch)
    BY <1>1, <2>1, CallsShrunk
  <2>3. CASE Head(httpFunctions) # Http!Dispatch /\ UNCHANGED responseQueue
    BY <1>5, <2>1, <2>2, <2>3 DEF One
  <2>4. CASE /\ Head(httpFunctions) = Http!Dispatch /\ responseQueue # << >>
             /\ responseQueue' = Tail(responseQueue)
    <3>1. Len(responseQueue') = Len(responseQueue) - 1
      BY <1>1, <2>4, Shrunk
    <3>2. Cardinality(CallsIn(httpFunctions)) = Cardinality(CallsIn(httpFunctions')) + 1
      BY <2>2, <2>4 DEF One
    <3>3. One(net = "post") \in Nat /\ One(net' = "post") = One(net = "post")
      BY <2>1 DEF One
    <3>4. QED
      BY <1>5, <2>2, <3>1, <3>2, <3>3
  <2>5. CASE Head(httpFunctions) = Http!Dispatch /\ responseQueue = << >>
    <3>1. Len(responseQueue) = 0 /\ Cardinality(CallsIn(httpFunctions)) >= 1
      BY <2>2, <2>5 DEF One
    <3>2. FALSE
      BY <1>5, <2>2, <3>1 DEF One
    <3>3. QED
      BY <3>2
  <2>6. QED
    BY <1>9, <2>3, <2>4, <2>5, PerformEffect
<1>10. CASE \/ Http!NetBegins \/ Http!NetSleeps \/ Http!NetTakes \/ Http!Notify
            \/ \E r \in Http!Requests : Http!AloneBegins(r) \/ Http!AloneLeaves(r)
            \/ Http!Send \/ Http!SendImmediate \/ UNCHANGED Http!vars
  <2>1. UNCHANGED <<responseQueue, httpFunctions>> /\ (net' = "post" <=> net = "post")
    BY <1>10 DEF Http!NetBegins, Http!NetSleeps, Http!NetTakes, Http!Notify, Http!AloneBegins,
                 Http!AloneLeaves, Http!Send, Http!SendImmediate, Http!vars, Http!Woken
  <2>2. QED
    BY <1>5, <2>1 DEF One
<1>11. CASE \/ Http!NetCleans \/ Http!NetLeaves \/ Http!PushSentinel \/ Http!LeaveClient
            \/ Http!RemoveFunctions \/ Http!DestroyInstance
  <2>1. FALSE
    BY <1>3, <1>4, <1>11 DEF Http!NetCleans, Http!NetLeaves, Http!PushSentinel, Http!LeaveClient,
                             Http!RemoveFunctions, Http!DestroyInstance
  <2>2. QED
    BY <2>1
<1>12. QED
  BY <1>6, <1>7, <1>8, <1>9, <1>10, <1>11
     DEF Http!Next, Http!Network, Http!Continue, Http!Alone, Http!Quiet

\* The answers given so far stay in order.
LEMMA OrderKept ==
  ASSUME HttpTypes, Http!AnsweredInOrder, UNCHANGED answered,
         \A r \in Members(answered) : alone'[r] = "none" => alone[r] = "none"
  PROVE  Http!AnsweredInOrder'
<1>1. DOMAIN answered = 1..Len(answered) /\ \A i \in DOMAIN answered : answered[i] \in Members(answered)
  <2>1. answered \in Seq(Http!Requests)
    BY DEF HttpTypes
  <2>2. QED
    BY <2>1, LenProperties DEF Members
<1>2. Http!IsInjective(answered')
  BY DEF Http!AnsweredInOrder
<1>3. ASSUME NEW i \in DOMAIN answered, NEW j \in DOMAIN answered, i < j,
             alone'[answered[i]] = "none", alone'[answered[j]] = "none"
      PROVE  answered[i] < answered[j]
  <2>1. alone[answered[i]] = "none" /\ alone[answered[j]] = "none"
    BY <1>1, <1>3
  <2>2. QED
    BY <1>3, <2>1 DEF Http!AnsweredInOrder
<1>4. answered' = answered
  OBVIOUS
<1>5. QED
  BY <1>2, <1>3, <1>4 DEF Http!AnsweredInOrder

\* Each answer is to another request than those before, and a response to a later one.
LEMMA PerformInOrder ==
  ASSUME HttpRange, UsersInv, InLine, HandedOnce, Http!AnsweredInOrder, Http!Perform
  PROVE  Http!AnsweredInOrder'
<1>1. /\ httpFunctions # << >> /\ UNCHANGED alone
  BY PerformEffect
<1>2. /\ HttpTypes /\ httpFunctions \in Seq(Entries) /\ responseQueue \in Seq(Http!Requests)
      /\ answered \in Seq(Http!Requests)
  BY DEF UsersInv, HttpTypes
<1>3. ASSUME NEW r \in Http!Requests, answered' = Append(answered, r), r \notin Members(answered),
             alone[r] = "none" => \A a \in ByNet : a < r
      PROVE  Http!AnsweredInOrder'
  <2>1. /\ Len(answered') = Len(answered) + 1 /\ Len(answered) \in Nat
        /\ answered'[Len(answered) + 1] = r
        /\ \A i \in 1..Len(answered) : answered'[i] = answered[i] /\ answered[i] \in Members(answered)
        /\ answered' \in Seq(Http!Requests)
    BY <1>2, <1>3, Grown DEF Members
  <2>2. DOMAIN answered' = 1..Len(answered') /\ DOMAIN answered = 1..Len(answered)
    BY <1>2, <2>1
  <2>3. Http!IsInjective(answered')
    <3>1. SUFFICES ASSUME NEW i \in DOMAIN answered', NEW j \in DOMAIN answered',
                          answered'[i] = answered'[j]
                   PROVE  i = j
      BY DEF Http!IsInjective
    <3>2. (i \in DOMAIN answered \/ i = Len(answered) + 1) /\ (j \in DOMAIN answered \/ j = Len(answered) + 1)
      BY <2>1, <2>2
    <3>3. CASE i \in DOMAIN answered /\ j \in DOMAIN answered
      BY <2>1, <2>2, <3>1, <3>3 DEF Http!AnsweredInOrder, Http!IsInjective
    <3>4. QED
      BY <1>3, <2>1, <2>2, <3>1, <3>2, <3>3
  <2>4. ASSUME NEW i \in DOMAIN answered', NEW j \in DOMAIN answered', i < j,
               alone'[answered'[i]] = "none", alone'[answered'[j]] = "none"
        PROVE  answered'[i] < answered'[j]
    <3>1. i \in DOMAIN answered /\ (j \in DOMAIN answered \/ j = Len(answered) + 1)
      BY <2>1, <2>2, <2>4
    <3>2. CASE j \in DOMAIN answered
      BY <1>1, <2>1, <2>2, <2>4, <3>1, <3>2 DEF Http!AnsweredInOrder
    <3>3. CASE j = Len(answered) + 1
      <4>1. answered'[j] = r /\ alone[r] = "none" /\ answered'[i] \in ByNet
        BY <1>1, <2>1, <2>2, <2>4, <3>1, <3>3 DEF ByNet
      <4>2. QED
        BY <1>3, <4>1
    <3>4. QED
      BY <3>1, <3>2, <3>3
  <2>5. QED
    BY <2>3, <2>4 DEF Http!AnsweredInOrder
<1>4. CASE Head(httpFunctions) # Http!Dispatch /\ answered' = Append(answered, Head(httpFunctions))
  <2>1. Head(httpFunctions) \in Members(httpFunctions) /\ Head(httpFunctions) \in Entries
    BY <1>1, <1>2, Shrunk
  <2>2. /\ Head(httpFunctions) \in Http!Requests /\ Head(httpFunctions) \notin Members(answered)
        /\ alone[Head(httpFunctions)] # "none"
    BY <1>4, <2>1 DEF HandedOnce, Entries, Http!Requests, Http!Dispatch, HttpRange
  <2>3. QED
    BY <1>3, <1>4, <2>2
<1>5. CASE responseQueue # << >> /\ answered' = Append(answered, Head(responseQueue))
  <2>1. Head(responseQueue) \in Http!Requests /\ Head(responseQueue) \in Responded
    BY <1>2, <1>5, Shrunk DEF Responded
  <2>2. alone[Head(responseQueue)] = "none" /\ \A a \in ByNet : a < Head(responseQueue)
    BY <2>1 DEF InLine, Below
  <2>3. Head(responseQueue) \notin Members(answered)
    <3>1. SUFFICES ASSUME Head(responseQueue) \in Members(answered) PROVE FALSE
      OBVIOUS
    <3>2. Head(responseQueue) < Head(responseQueue)
      BY <2>2, <3>1 DEF ByNet
    <3>3. QED
      BY <2>1, <3>2 DEF Http!Requests
  <2>4. QED
    BY <1>3, <1>5, <2>1, <2>2, <2>3
<1>6. CASE UNCHANGED answered
  BY <1>1, <1>2, <1>6, OrderKept
<1>7. QED
  BY <1>4, <1>5, <1>6, PerformEffect

\* Each step keeps the answers in order.
LEMMA NextInOrder ==
  ASSUME HttpRange, UsersInv, InLine, HandedOnce, Http!AnsweredInOrder, [Http!Next]_(Http!vars)
  PROVE  Http!AnsweredInOrder'
<1>1. HttpTypes /\ Members(answered) \subseteq Http!Requests
  BY MembersTyped DEF UsersInv, HttpTypes
<1>2. CASE Http!Perform
  BY <1>2, PerformInOrder
<1>3. ASSUME NEW r \in Http!Requests, Http!Alone(r) PROVE Http!AnsweredInOrder'
  <2>1. /\ UNCHANGED answered
        /\ \E a \in {"undefined", "transfer", "leave", "over"} : alone' = [alone EXCEPT ![r] = a]
    BY <1>3 DEF Http!Alone, Http!AloneBegins, Http!AlonePosts, Http!AloneLeaves
  <2>2. \A q \in Members(answered) : alone'[q] = "none" => alone[q] = "none"
    BY <1>1, <2>1 DEF HttpTypes
  <2>3. QED
    BY <1>1, <2>1, <2>2, OrderKept
<1>4. CASE Http!SendImmediate
  <2>1. UNCHANGED answered /\ alone' = [alone EXCEPT ![sent + 1] = "created"]
    BY <1>4 DEF Http!SendImmediate
  <2>2. \A q \in Members(answered) : alone'[q] = "none" => alone[q] = "none"
    BY <1>1, <2>1 DEF HttpTypes
  <2>3. QED
    BY <1>1, <2>1, <2>2, OrderKept
<1>5. CASE \/ Http!Network \/ Http!Notify \/ Http!PushSentinel \/ Http!LeaveClient
           \/ Http!RemoveFunctions \/ Http!Send \/ Http!DestroyInstance \/ UNCHANGED Http!vars
  <2>1. UNCHANGED <<answered, alone>>
    BY <1>5 DEF Http!Network, Http!NetBegins, Http!NetSleeps, Http!NetTakes, Http!NetResponds,
                Http!NetPosts, Http!NetCleans, Http!NetLeaves, Http!Notify, Http!PushSentinel,
                Http!LeaveClient, Http!RemoveFunctions, Http!Send, Http!DestroyInstance, Http!vars
  <2>2. QED
    BY <1>1, <2>1, OrderKept
<1>6. QED
  BY <1>2, <1>3, <1>4, <1>5 DEF Http!Next, Http!Continue, Http!Quiet

LEMMA InitAnswers == ASSUME HttpRange, Http!Init PROVE AnswersInv
<1>1. /\ scheduler = TRUE /\ requestQueue = << >> /\ responseQueue = << >> /\ net = "none"
      /\ alone = [r \in Http!Requests |-> "none"] /\ httpFunctions = << >>
      /\ sent = 0 /\ answered = << >>
  BY DEF Http!Init
<1>2. /\ Len(requestQueue) = 0 /\ Len(responseQueue) = 0 /\ Len(httpFunctions) = 0
      /\ Len(answered) = 0
  BY <1>1
<1>3. /\ Members(requestQueue) = {} /\ Members(responseQueue) = {} /\ Members(answered) = {}
      /\ Members(httpFunctions) = {}
  BY <1>2 DEF Members
<1>4. Waiting = {} /\ InHand = {} /\ Responded = {} /\ ByNet = {}
  BY <1>1, <1>3 DEF Waiting, InHand, Responded, ByNet
<1>5. InLine
  BY <1>2, <1>4 DEF InLine, Below
<1>6. HandedOnce
  BY <1>1, <1>2, <1>3 DEF HandedOnce
<1>7. Http!ResponsesHaveTheirCall
  <2>1. DOMAIN httpFunctions = {}
    BY <1>1
  <2>2. CallsIn(httpFunctions) = {}
    BY <2>1 DEF CallsIn
  <2>3. Cardinality(CallsIn(httpFunctions)) = 0
    BY <2>2, FS_EmptySet
  <2>4. One(net = "post") = 0
    BY <1>1 DEF One
  <2>5. QED
    BY <1>2, <2>3, <2>4, CallsCounted
<1>8. Http!AnsweredInOrder
  <2>1. DOMAIN answered = {}
    BY <1>1
  <2>2. QED
    BY <2>1 DEF Http!AnsweredInOrder, Http!IsInjective
<1>9. QED
  BY <1>5, <1>6, <1>7, <1>8 DEF AnswersInv

LEMMA NextAnswers ==
  ASSUME HttpRange, UsersInv, AnswersInv, [Http!Next]_(Http!vars)
  PROVE  AnswersInv'
BY NextInLine, NextHanded, NextCalls, NextInOrder DEF AnswersInv

-----------------------------------------------------------------------------
(***************************************************************************)
(* The services together.  A step of one leaves the other's variables as   *)
(* they are, so that each behaves as it does alone.                        *)
(***************************************************************************)
LEMMA BehavesAsSocket == ServicesSpec => Spec
<1>1. ServicesInit => Init
  BY DEF ServicesInit
<1>2. [ServicesNext]_allVars => [Next]_wsVars
  BY DEF ServicesNext, SocketStep, HttpStep, allVars
<1>3. QED
  BY <1>1, <1>2, PTL DEF ServicesSpec, Spec

LEMMA BehavesAsHttp == ServicesSpec => Http!Spec
<1>1. ServicesInit => Http!Init
  BY DEF ServicesInit
<1>2. [ServicesNext]_allVars => [Http!Next]_(Http!vars)
  BY DEF ServicesNext, SocketStep, HttpStep, allVars, httpVars, Http!vars, Http!clientVars
<1>3. QED
  BY <1>1, <1>2, PTL DEF ServicesSpec, Http!Spec

\* The client is counted for as long as it is used, and what is answered is in order: both
\* hold always.
THEOREM ClientInvariant == ASSUME HttpRange PROVE Http!Spec => [](UsersInv /\ AnswersInv)
<1>1. Http!Init => UsersInv /\ AnswersInv
  BY InitUsers, InitAnswers
<1>2. UsersInv /\ AnswersInv /\ [Http!Next]_(Http!vars) => (UsersInv /\ AnswersInv)'
  BY NextUsers, NextAnswers
<1>3. QED
  BY <1>1, <1>2, PTL DEF Http!Spec

\* Every variable of the two has its type: among them, a client never has more users than
\* the cocos thread, the network thread and those of the requests sent immediately.
THEOREM ServicesTypesHold == ASSUME HttpRange PROVE ServicesSpec => []ServicesTypeOK
<1>1. TypeOK /\ UsersInv => ServicesTypeOK
  BY UsersAreTyped DEF ServicesTypeOK
<1>2. QED
  BY <1>1, BehavesAsSocket, BehavesAsHttp, TypesHold, ClientInvariant, PTL

\* No thread that has begun, and no function that is performed, is left with a socket or a
\* client that was deleted: neither keeps a reference, and the last of the users deletes it.
THEOREM LiveObjectsAreUsed == ASSUME HttpRange PROVE ServicesSpec => []ThreadsUseLiveObjects
<1>1. ThreadUsesLiveSockets /\ UsersInv => ThreadsUseLiveObjects
  BY UsersHaveIt DEF ThreadsUseLiveObjects
<1>2. QED
  BY <1>1, BehavesAsSocket, BehavesAsHttp, NoSocketIsDestroyedInUse, ClientInvariant, PTL

\* Each response is handed over by its own call, once and in order, however the threads of
\* the client interleave.
THEOREM ResponsesAreHandedOver == ASSUME HttpRange PROVE ServicesSpec => []ResponsesHandedOver
<1>1. AnswersInv => ResponsesHandedOver
  BY DEF AnswersInv, ResponsesHandedOver
<1>2. QED
  BY <1>1, BehavesAsHttp, ClientInvariant, PTL
=============================================================================

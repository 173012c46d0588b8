------------------------------ MODULE WebSocket ------------------------------
(***************************************************************************)
(* cc::network::WebSocket over libwebsockets                               *)
(* (cocos/network/WebSocket-libwebsockets.cpp) as the script bindings use  *)
(* it (cocos/bindings/manual/jsb_websocket.cpp): the sockets that share    *)
(* the websocket thread and its message queue, the handshakes by which     *)
(* they are closed, their reference counts, and the end of all of them     *)
(* when the virtual machine is restarted (Application::restartVM).         *)
(*                                                                         *)
(* The critical sections that take one mutex and call nothing are one step *)
(* each; two mutexes are held for longer and are read off the thread: the  *)
(* mutex of the queue while it opens a connection, and the mutex of a      *)
(* socket's state while it waits for close() to see its notification.      *)
(*                                                                         *)
(* libwebsockets is external: after a connection has begun it reports that *)
(* it was established or has failed, then that it is writable and what was *)
(* received, and its end exactly once.                                     *)
(***************************************************************************)
EXTENDS Integers, Sequences, FiniteSets, SequencesExt

CONSTANTS
  Sockets,    (* the sockets that may be created, each one once      *)
  NoSocket,   (* the thread or the cocos thread is in none of them   *)
  MaxMessages (* bound: messages sent or received in a behaviour     *)

ASSUME NullAssumption  == NoSocket \notin Sockets
ASSUME BoundAssumption == MaxMessages \in Nat

VARIABLES
  readyState,  (* _readyState                                                       *)
  closeState,  (* _closeState                                                       *)
  refs,        (* the reference count of the WebSocket                              *)
  held,        (* what keeps the script's object from being collected               *)
  finalized,   (* the script's object has been collected                            *)
  instances,   (* __websocketInstances                                              *)
  queue,       (* _subThreadWsMessageQueue                                          *)
  needQuit,    (* _needQuit                                                         *)
  tpc, tsock,  (* where the websocket thread is, and in which socket                *)
  opening,     (* it holds the mutex of the queue, in onSubThreadLoop               *)
  wire,        (* the connection of each socket in libwebsockets                    *)
  main, msock, (* where the cocos thread is, and in which socket                    *)
  toClose,     (* the sockets closeAllConnections has still to close                *)
  functions,   (* the functions the thread has had performed in the cocos thread    *)
  events,      (* history: what the delegate of each socket was told                *)
  requested,   (* history: the thread has begun to open the socket                  *)
  messages     (* how many messages were sent and received                          *)

socketVars == <<readyState, closeState, refs, held, finalized, instances, events>>
threadVars == <<needQuit, tpc, tsock, opening, wire, requested>>
mainVars   == <<main, msock, toClose>>
wsVars == <<socketVars, queue, threadVars, mainVars, functions, messages>>

Open(s)    == [what |-> "open", user |-> s]
Message(s) == [what |-> "send", user |-> s]

Init ==
  /\ readyState = [s \in Sockets |-> "connecting"]
  /\ closeState = [s \in Sockets |-> "none"]
  /\ refs = [s \in Sockets |-> 0]
  /\ held = [s \in Sockets |-> {}]
  /\ finalized = [s \in Sockets |-> FALSE]
  /\ instances = << >>
  /\ queue = << >>
  /\ needQuit = FALSE
  /\ tpc = "none" /\ tsock = NoSocket /\ opening = FALSE
  /\ wire = [s \in Sockets |-> "none"]
  /\ main = "idle" /\ msock = NoSocket /\ toClose = << >>
  /\ functions = << >>
  /\ events = [s \in Sockets |-> << >>]
  /\ requested = [s \in Sockets |-> FALSE]
  /\ messages = 0

\* The mutexes: of the queue, and of the state of a socket.
QueueIsFree == ~opening
StateIsFree(s) == ~(tpc = "notify" /\ tsock = s)

\* The wrapper of the callbacks passes on only what is about a socket that exists.
IsInstance(s) == \E i \in DOMAIN instances : instances[i] = s

\* Mutant: what is posted is performed before what was posted before it.
PostedFirst(f, e) == <<e>> \o f

\* performFunctionInCocosThread
Posted(f, e) == Append(f, e)

Post(s, what) == functions' = Posted(functions, [socket |-> s, what |-> what])

-----------------------------------------------------------------------------
(***************************************************************************)
(* The websocket thread.                                                   *)
(***************************************************************************)
AtLoop == tpc = "loop" /\ ~needQuit
Goto(pc, s) == tpc' = pc /\ tsock' = s
BackToLoop == Goto("loop", NoSocket)

\* onSubThreadLoop finds a request to open a socket: onClientOpenConnectionRequest sets
\* the state, whatever close() has made of it.
OpenRequest(s) ==
  /\ AtLoop /\ StateIsFree(s)
  /\ \E i \in DOMAIN queue :
       /\ queue[i] = Open(s)
       /\ \A j \in 1..(i - 1) : queue[j].what # "open"
       /\ queue' = RemoveAt(queue, i)
  /\ readyState' = [readyState EXCEPT ![s] = "connecting"]
  /\ requested' = [requested EXCEPT ![s] = TRUE]
  /\ opening' = TRUE
  /\ Goto("connect", s)
  /\ UNCHANGED <<closeState, refs, held, finalized, instances, events, needQuit, wire, mainVars,
                 functions, messages>>

\* lws_client_connect_via_info: a connection begins ...
Connect ==
  /\ tpc = "connect"
  /\ wire' = [wire EXCEPT ![tsock] = "connecting"]
  /\ opening' = FALSE
  /\ BackToLoop
  /\ UNCHANGED <<socketVars, queue, needQuit, requested, mainVars, functions, messages>>

\* ... or there is none.
NoConnection ==
  /\ tpc = "connect"
  /\ Goto("error", tsock)
  /\ UNCHANGED <<socketVars, queue, needQuit, opening, wire, requested, mainVars, functions,
                 messages>>

\* Mutant: a socket that is being closed does not ask to be told when it is writable.
AsksUnlessClosing(s) == readyState[s] = "connecting"

\* onConnectionOpened asks to be told when it is writable, before anything else.
AsksForWritable(s) == TRUE

\* LWS_CALLBACK_CLIENT_ESTABLISHED
Established(s) ==
  /\ AtLoop /\ wire[s] = "connecting"
  /\ wire' = [wire EXCEPT ![s] = IF IsInstance(s) /\ AsksForWritable(s) THEN "writable" ELSE "established"]
  /\ IF IsInstance(s) /\ readyState[s] \notin {"closing", "closed"}
     THEN readyState' = [readyState EXCEPT ![s] = "open"] /\ Post(s, "open")
     ELSE UNCHANGED <<readyState, functions>>
  /\ UNCHANGED <<closeState, refs, held, finalized, instances, events, queue, needQuit, tpc,
                 tsock, opening, requested, mainVars, messages>>

\* LWS_CALLBACK_CLIENT_CONNECTION_ERROR
ConnectionFails(s) ==
  /\ AtLoop /\ wire[s] = "connecting"
  /\ wire' = [wire EXCEPT ![s] = "ending"]
  /\ IF IsInstance(s) THEN Goto("error", s) ELSE UNCHANGED <<tpc, tsock>>
  /\ UNCHANGED <<socketVars, queue, needQuit, opening, requested, mainVars, functions, messages>>

\* LWS_CALLBACK_WSI_DESTROY: the connection has ended, on this side or on the other.
ConnectionEnds(s) ==
  /\ AtLoop /\ wire[s] \in {"established", "writable", "ending"}
  /\ wire' = [wire EXCEPT ![s] = "gone"]
  /\ IF IsInstance(s) THEN Goto("closed", s) ELSE UNCHANGED <<tpc, tsock>>
  /\ UNCHANGED <<socketVars, queue, needQuit, opening, requested, mainVars, functions, messages>>

Return == opening' = FALSE /\ BackToLoop

\* onConnectionError
ConnectionError ==
  /\ tpc = "error" /\ StateIsFree(tsock)
  /\ IF readyState[tsock] = "closed"
     THEN Return /\ UNCHANGED <<readyState, functions>>
     ELSE /\ readyState' = [readyState EXCEPT ![tsock] = "closing"]
          /\ Post(tsock, "error")
          /\ Goto("closed", tsock)
          /\ UNCHANGED opening
  /\ UNCHANGED <<closeState, refs, held, finalized, instances, events, queue, needQuit, wire,
                 requested, mainVars, messages>>

\* Mutant: the end of a socket that is closed already is reported again.
NeverReported(s) == FALSE

AlreadyReported(s) == readyState[s] = "closed"

ClosedBySync(s) == readyState[s] = "closing" /\ closeState[s] = "sync"

\* onConnectionClosed
ConnectionClosed ==
  /\ tpc = "closed"
  /\ \/ /\ AlreadyReported(tsock)
        /\ Return /\ UNCHANGED <<readyState, functions>>
     \/ /\ ~AlreadyReported(tsock) /\ ClosedBySync(tsock)
        /\ Goto("notify", tsock)
        /\ UNCHANGED <<readyState, functions, opening>>
     \/ /\ ~AlreadyReported(tsock) /\ ~ClosedBySync(tsock)
        /\ readyState' = [readyState EXCEPT ![tsock] = "closed"]
        /\ Post(tsock, "close")
        /\ Return
  /\ UNCHANGED <<closeState, refs, held, finalized, instances, events, queue, needQuit, wire,
                 requested, mainVars, messages>>

\* It goes on notifying until close() has seen it, with the state's mutex held.  A
\* notification nobody waits for changes nothing.
NotifyClose ==
  /\ tpc = "notify"
  /\ \/ closeState[tsock] = "synced" /\ Return /\ UNCHANGED main
     \/ /\ closeState[tsock] # "synced"
        /\ main' = IF main = "wait" /\ msock = tsock THEN "woken" ELSE main
        /\ UNCHANGED <<tpc, tsock, opening>>
  /\ UNCHANGED <<socketVars, queue, needQuit, wire, requested, msock, toClose, functions, messages>>

\* LWS_CALLBACK_CLIENT_WRITEABLE: onClientWritable ends a connection that is to be closed,
\* by returning -1, ...
WritableEnds(s) ==
  /\ AtLoop /\ wire[s] = "writable" /\ IsInstance(s)
  /\ readyState[s] = "closing"
  /\ wire' = [wire EXCEPT ![s] = "ending"]
  /\ UNCHANGED <<socketVars, queue, needQuit, tpc, tsock, opening, requested, mainVars, functions,
                 messages>>

\* ... or has something to write.  With nothing to write it asks again and that is all.
Writable(s) ==
  /\ AtLoop /\ wire[s] = "writable" /\ IsInstance(s)
  /\ readyState[s] # "closing"
  /\ \E i \in DOMAIN queue : queue[i].user = s
  /\ Goto("write", s)
  /\ UNCHANGED <<socketVars, queue, needQuit, opening, wire, requested, mainVars, functions,
                 messages>>

\* closeAsync, from either thread.
CloseAsyncEffect(s) ==
  IF closeState[s] # "none" THEN UNCHANGED <<closeState, readyState>>
  ELSE /\ closeState' = [closeState EXCEPT ![s] = "async"]
       /\ readyState' = [readyState EXCEPT ![s] = IF @ = "closed" THEN @ ELSE "closing"]

\* The first message of the socket is written, or cannot be and is dropped.  (A message
\* of which a part is written stays where it is.)
Write ==
  /\ tpc = "write"
  /\ \E i \in DOMAIN queue :
       /\ queue[i].user = tsock
       /\ \A j \in 1..(i - 1) : queue[j].user # tsock
       /\ queue' = RemoveAt(queue, i)
  /\ CloseAsyncEffect(tsock) \/ UNCHANGED <<closeState, readyState>>
  /\ BackToLoop
  /\ UNCHANGED <<refs, held, finalized, instances, events, needQuit, opening, wire, requested,
                 mainVars, functions, messages>>

\* LWS_CALLBACK_CLIENT_RECEIVE, the last part of a message.
Receive(s) ==
  /\ AtLoop /\ wire[s] \in {"established", "writable"} /\ IsInstance(s)
  /\ messages < MaxMessages
  /\ messages' = messages + 1
  /\ Post(s, "message")
  /\ UNCHANGED <<socketVars, queue, needQuit, tpc, tsock, opening, wire, requested, mainVars>>

\* A turn of the loop, of 4 milliseconds, in which there is nothing to do.
IdleTurn == AtLoop /\ UNCHANGED wsVars

\* onSubThreadEnded: the context is destroyed with its connections.
ThreadEnds ==
  /\ tpc = "loop" /\ needQuit
  /\ tpc' = "ended"
  /\ wire' = [s \in Sockets |-> IF wire[s] = "none" THEN "none" ELSE "gone"]
  /\ UNCHANGED <<socketVars, queue, needQuit, tsock, opening, requested, mainVars, functions,
                 messages>>

-----------------------------------------------------------------------------
(***************************************************************************)
(* The cocos thread.                                                       *)
(***************************************************************************)
\* Mutant: the script's object holds no reference of its own.
OneReference == 1

\* One is released by onClose and one by the finalizer of the script's object.
InitialReferences == 2

\* WebSocket_constructor: the object is rooted; init() sends the request and starts the
\* thread if there is none.
Create(s) ==
  /\ main = "idle" /\ QueueIsFree
  /\ refs[s] = 0 /\ ~finalized[s] /\ events[s] = << >> /\ ~IsInstance(s) /\ held[s] = {}
  /\ refs' = [refs EXCEPT ![s] = InitialReferences]
  /\ held' = [held EXCEPT ![s] = {"root"}]
  /\ instances' = Append(instances, s)
  /\ queue' = Append(queue, Open(s))
  /\ tpc' = IF tpc = "none" THEN "loop" ELSE tpc
  /\ UNCHANGED <<readyState, closeState, finalized, events, needQuit, tsock, opening, wire,
                 requested, mainVars, functions, messages>>

SendMessage(s) ==
  /\ main = "idle" /\ QueueIsFree
  /\ IsInstance(s) /\ ~finalized[s] /\ readyState[s] = "open" /\ messages < MaxMessages
  /\ messages' = messages + 1
  /\ queue' = Append(queue, Message(s))
  /\ UNCHANGED <<socketVars, threadVars, main, msock, toClose, functions>>

\* WebSocket_close: the object is attached to the global one until onClose.
CloseAsync(s) ==
  /\ main = "idle" /\ StateIsFree(s)
  /\ IsInstance(s) /\ ~finalized[s]
  /\ CloseAsyncEffect(s)
  /\ held' = [held EXCEPT ![s] = @ \cup {"global"}]
  /\ UNCHANGED <<refs, finalized, instances, events, queue, threadVars, mainVars, functions,
                 messages>>

\* Mutant: the thread is joined without being told to quit.
JoinOnly(quit) == needQuit

\* What the destructor makes of _needQuit, when the last socket goes.
Quits(quit) == needQuit \/ quit

\* The destructor finds its socket among the instances and erases it.
InstancesWithout(s) == RemoveAt(instances, CHOOSE i \in DOMAIN instances : instances[i] = s)

\* A reference is released; with the last one the destructor of the socket runs, and with
\* the last socket the thread is told to quit and joined.
Release(s, next) ==
  /\ refs' = [refs EXCEPT ![s] = @ - 1]
  /\ LET dies == refs[s] = 1
         left == InstancesWithout(s)
     IN  /\ instances' = IF dies THEN left ELSE instances
         /\ needQuit' = Quits(dies /\ left = << >>)
         /\ main' = IF dies /\ left = << >> THEN "join" ELSE next

JoinThread ==
  /\ main = "join" /\ tpc = "ended"
  /\ tpc' = "none" /\ needQuit' = FALSE
  /\ queue' = << >>
  /\ main' = IF msock = NoSocket THEN "idle" ELSE "closeNext"
  /\ UNCHANGED <<socketVars, tsock, opening, wire, requested, msock, toClose, functions, messages>>

\* The garbage collector finalizes an object that nothing holds: WebSocket_finalize.  (The
\* last reference goes at the end of the frame.  Its end having been told, there is nothing
\* left to be told in between.)
Finalize(s) ==
  /\ main = "idle" /\ StateIsFree(s)
  /\ refs[s] > 0 /\ held[s] = {} /\ ~finalized[s]
  /\ finalized' = [finalized EXCEPT ![s] = TRUE]
  /\ IF readyState[s] # "closed" THEN CloseAsyncEffect(s) ELSE UNCHANGED <<closeState, readyState>>
  /\ Release(s, "idle")
  /\ UNCHANGED <<held, events, queue, tpc, tsock, opening, wire, requested, msock, toClose,
                 functions, messages>>

\* What the delegate does: it tells the script, if its object is still there.
Tell(s, what) == events' = [events EXCEPT ![s] = IF finalized[s] THEN @ ELSE Append(@, what)]

\* JSB_WebSocketDelegate::onClose
OnClose(s, next) ==
  /\ Tell(s, "close")
  /\ held' = [held EXCEPT ![s] = {}]
  /\ Release(s, next)

\* The scheduler performs a function of the thread, which does nothing for a socket that
\* was destroyed.
Perform ==
  /\ main = "idle" /\ functions # << >>
  /\ functions' = Tail(functions)
  /\ LET s == Head(functions).socket
         what == Head(functions).what
     IN  \/ refs[s] = 0 /\ UNCHANGED <<socketVars, needQuit, main>>
         \/ /\ refs[s] > 0 /\ what \in {"open", "message", "error"}
            /\ Tell(s, what)
            /\ held' = [held EXCEPT ![s] = IF what = "error" THEN @ \ {"root"} ELSE @]
            /\ UNCHANGED <<readyState, closeState, refs, finalized, instances, needQuit, main>>
         \/ /\ refs[s] > 0 /\ what = "close"
            /\ OnClose(s, "idle")
            /\ UNCHANGED <<readyState, closeState, finalized>>
  /\ UNCHANGED <<queue, tpc, tsock, opening, wire, requested, msock, toClose, messages>>

\* Application::restartVM: closeAllConnections closes each socket, the youngest first.
RestartVM ==
  /\ main = "idle" /\ instances # << >>
  /\ toClose' = Reverse(instances)
  /\ msock' = Head(toClose')
  /\ main' = "closeNext"
  /\ UNCHANGED <<socketVars, queue, threadVars, functions, messages>>

\* close(), which does nothing for a socket that is being closed already.
CloseNext ==
  /\ main = "closeNext" /\ toClose # << >>
  /\ LET s == Head(toClose)
     IN  /\ msock' = s
         /\ IF closeState[s] # "none"
            THEN toClose' = Tail(toClose) /\ UNCHANGED <<main, closeState>>
            ELSE /\ closeState' = [closeState EXCEPT ![s] = "sync"]
                 /\ main' = "close"
                 /\ UNCHANGED toClose
  /\ UNCHANGED <<readyState, refs, held, finalized, instances, events, queue, threadVars,
                 functions, messages>>

\* A socket whose end has been seen but not reported is reported now; for the others it
\* waits until the thread has ended the connection.
CloseLock ==
  /\ main = "close" /\ StateIsFree(msock)
  /\ IF readyState[msock] = "closed"
     THEN main' = "onClose" /\ UNCHANGED readyState
     ELSE main' = "wait" /\ readyState' = [readyState EXCEPT ![msock] = "closing"]
  /\ UNCHANGED <<closeState, refs, held, finalized, instances, events, queue, threadVars, msock,
                 toClose, functions, messages>>

CloseWoken ==
  /\ main = "woken"
  /\ closeState' = [closeState EXCEPT ![msock] = "synced"]
  /\ main' = "onClose"
  /\ UNCHANGED <<readyState, refs, held, finalized, instances, events, queue, threadVars, msock,
                 toClose, functions, messages>>

\* The sleep of 5 milliseconds is taken to be long enough for the thread to leave
\* onConnectionClosed.
CloseReports ==
  /\ main = "onClose" /\ StateIsFree(msock)
  /\ OnClose(msock, "closeNext")
  /\ toClose' = Tail(toClose)
  /\ UNCHANGED <<readyState, closeState, finalized, queue, tpc, tsock, opening, wire, requested,
                 msock, functions, messages>>

\* All are closed, and the functions not yet performed are removed.  The script engine
\* goes next; the model ends here.
AllClosed ==
  /\ main = "closeNext" /\ toClose = << >>
  /\ functions' = << >>
  /\ main' = "restarted"
  /\ UNCHANGED <<socketVars, queue, threadVars, msock, toClose, messages>>

Restarted == main = "restarted" /\ UNCHANGED wsVars

\* A frame in which there is nothing to do, and no thread.
IdleFrame == main = "idle" /\ tpc = "none" /\ UNCHANGED wsVars

-----------------------------------------------------------------------------
Handler == Connect \/ NoConnection \/ ConnectionError \/ ConnectionClosed \/ NotifyClose \/ Write \/ ThreadEnds

Event(s) ==
  \/ OpenRequest(s) \/ Established(s) \/ ConnectionFails(s) \/ ConnectionEnds(s)
  \/ WritableEnds(s) \/ Writable(s) \/ Receive(s)

Closing == CloseNext \/ CloseLock \/ CloseWoken \/ CloseReports \/ AllClosed

Next ==
  \/ \E s \in Sockets : Event(s) \/ Create(s) \/ SendMessage(s) \/ CloseAsync(s) \/ Finalize(s)
  \/ Handler \/ JoinThread \/ Perform \/ RestartVM \/ Closing \/ IdleTurn \/ IdleFrame \/ Restarted

Spec == Init /\ [][Next]_wsVars

\* What the thread and libwebsockets owe each socket: to begin, to report how the handshake
\* ends, that it is writable when it is to be closed, and its end when it was told to end.
Owed(s) ==
  \/ OpenRequest(s) \/ Established(s) \/ ConnectionFails(s) \/ WritableEnds(s)
  \/ wire[s] = "ending" /\ ConnectionEnds(s)

\* The websocket thread is scheduled and libwebsockets forgets no connection, but it need
\* not report an end that nobody asked for.  The cocos thread goes on with its frames and
\* with what it has begun.
FairSpec ==
  /\ Spec
  /\ WF_wsVars(Handler)
  /\ \A s \in Sockets : SF_wsVars(Owed(s))
  /\ WF_wsVars(JoinThread \/ Perform \/ Closing)

-----------------------------------------------------------------------------
(***************************************************************************)
(* Properties.                                                             *)
(***************************************************************************)
\* Every variable has its type.
TypeOK ==
  /\ readyState \in [Sockets -> {"connecting", "open", "closing", "closed"}]
  /\ closeState \in [Sockets -> {"none", "sync", "synced", "async"}]
  /\ refs \in [Sockets -> 0..2]
  /\ held \in [Sockets -> SUBSET {"root", "global"}]
  /\ finalized \in [Sockets -> BOOLEAN]
  /\ instances \in Seq(Sockets) /\ toClose \in Seq(Sockets)
  /\ queue \in Seq([what : {"open", "send"}, user : Sockets])
  /\ needQuit \in BOOLEAN /\ opening \in BOOLEAN
  /\ tpc \in {"none", "loop", "connect", "error", "closed", "notify", "write", "ended"}
  /\ tsock \in Sockets \cup {NoSocket} /\ msock \in Sockets \cup {NoSocket}
  /\ wire \in [Sockets -> {"none", "connecting", "established", "writable", "ending", "gone"}]
  /\ main \in {"idle", "join", "closeNext", "close", "wait", "woken", "onClose", "restarted"}
  /\ functions \in Seq([socket : Sockets, what : {"open", "message", "error", "close"}])
  /\ events \in [Sockets -> Seq({"open", "message", "error", "close"})]
  /\ requested \in [Sockets -> BOOLEAN]
  /\ messages \in 0..MaxMessages

\* The delegate is told that a socket is open before anything else, of an error once, and
\* nothing but the end after an error or the end, whether the thread saw the end, close()
\* did, or both at the same time.
EventsInOrder ==
  \A s \in Sockets : \A i \in DOMAIN events[s] :
    /\ events[s][i] = "open" => i = 1
    /\ events[s][i] \in {"error", "close"} => \A j \in DOMAIN events[s] : j > i => events[s][j] = "close"

\* As long as nobody calls close(), the end is told once: both references are held until
\* it is, one for the end and one for the script's object, and no object of the script
\* that was told something outlives its socket.
EndToldOnce ==
  msock = NoSocket => \A s \in Sockets :
    /\ ~finalized[s] /\ events[s] # << >> => IsInstance(s)
    /\ refs[s] = Cardinality({w \in {"end", "object"} :
         /\ IsInstance(s)
         /\ IF w = "end" THEN \A i \in DOMAIN events[s] : events[s][i] # "close" ELSE ~finalized[s]})

\* While the thread handles a socket whose end it has not reported, the socket is not
\* destroyed, and it never finds a request of one that is, though it keeps only pointers.
\* (Once the end is reported the two are not synchronized: see the README.)
ThreadUsesLiveSockets ==
  /\ tsock # NoSocket /\ readyState[tsock] # "closed" => refs[tsock] > 0
  /\ \A i \in DOMAIN queue : queue[i].what = "open" => refs[queue[i].user] > 0

\* A socket that is told to close after the thread has begun to open it, by the script, by
\* a failed write or because it could not connect, is closed and the delegate told so,
\* unless the virtual machine is restarted meanwhile.
ClosesReported ==
  \/ toClose # << >> \/ main = "restarted"
  \/ \A s \in Sockets : (requested[s] /\ readyState[s] \in {"closing", "closed"}) =>
       finalized[s] \/ (\E i \in DOMAIN events[s] : events[s][i] = "close")

\* The cocos thread comes back from the destructor of the last socket, which joins the
\* websocket thread.
DestructorReturned == main # "join"

(***************************************************************************)
(* What comments say and the code does not do.                             *)
(***************************************************************************)
\* close(): "If readState is closed, it means that onConnectionClosed was invoked in
\* websocket thread, but the callback of performInCocosThread has not been triggered."
\* It has, if the socket's object is not collected yet: the second onClose then releases
\* the reference of that object.
ClosedIsUntold ==
  main = "onClose" /\ closeState[msock] = "sync" =>
    \A i \in DOMAIN events[msock] : events[msock][i] # "close"
=============================================================================

----------------------------- MODULE HttpClient -----------------------------
(***************************************************************************)
(* cc::network::HttpClient (cocos/network/HttpClient.cpp): a thread that   *)
(* takes requests from a queue, a thread of its own for each request that  *)
(* is sent immediately, the responses that are handed to the cocos thread, *)
(* and the count by which the last of the users of the client deletes it,  *)
(* after destroyInstance() has been called by Application::restartVM.      *)
(*                                                                         *)
(* Each critical section is one step.  Requests are numbered as they are   *)
(* sent; a response has the number of its request.  What the transfer      *)
(* returns makes no difference here: a failed one is answered too.         *)
(***************************************************************************)
EXTENDS Integers, Sequences, FiniteSets, SequencesExt

CONSTANTS
  MaxRequests  (* bound: requests in a behaviour *)

Requests == 1..MaxRequests

\* _requestSentinel, which tells the network thread to leave.
Sentinel == 0

VARIABLES
  count,         (* _threadCount                                               *)
  deleted,       (* the client has been deleted                                *)
  scheduler,     (* _scheduler still leads to the scheduler                    *)
  requestQueue,  (* _requestQueue                                              *)
  responseQueue, (* _responseQueue                                             *)
  net,           (* where the network thread is                                *)
  request,       (* the request it works on                                    *)
  alone,         (* where the thread of each request sent immediately is       *)
  functions,     (* the scheduler's functions: a request sent immediately, or  *)
                 (* Dispatch                                                   *)
  main,          (* where the cocos thread is in a call of the client          *)
  sent,          (* how many requests were sent                                *)
  answered       (* history: the requests whose callbacks were called          *)

Dispatch == 0

clientVars == <<count, deleted>>
vars == <<clientVars, scheduler, requestQueue, responseQueue, net, request, alone, functions, main, sent, answered>>

Init ==
  /\ count = 1  (* by the constructor *)
  /\ deleted = FALSE
  /\ scheduler = TRUE
  /\ requestQueue = << >> /\ responseQueue = << >>
  /\ net = "none" /\ request = Sentinel
  /\ alone = [r \in Requests |-> "none"]
  /\ functions = << >>
  /\ main = "idle"
  /\ sent = 0
  /\ answered = << >>

-----------------------------------------------------------------------------
\* Mutant: a thread does not count itself.
Uncounted(n) == n

Counted(n) == n + 1

\* A thread counts itself when it begins to run.  If the client has been deleted before,
\* what it does is undefined: the model follows it no further.
Begin == IF deleted THEN UNCHANGED clientVars ELSE count' = Counted(count) /\ UNCHANGED deleted

\* decreaseThreadCountAndMayDeleteThis
Leave ==
  /\ count' = count - 1
  /\ deleted' = (count = 1)

(***************************************************************************)
(* networkThread                                                           *)
(***************************************************************************)
NetBegins ==
  /\ net = "created"
  /\ Begin
  /\ net' = IF deleted THEN "undefined" ELSE "test"
  /\ UNCHANGED <<scheduler, requestQueue, responseQueue, request, alone, functions, main, sent,
                 answered>>

NetSleeps ==
  /\ net = "test" /\ requestQueue = << >>
  /\ net' = "asleep"
  /\ UNCHANGED <<clientVars, scheduler, requestQueue, responseQueue, request, alone, functions,
                 main, sent, answered>>

NetTakes ==
  /\ net = "test" /\ requestQueue # << >>
  /\ request' = Head(requestQueue)
  /\ requestQueue' = Tail(requestQueue)
  /\ net' = IF request' = Sentinel THEN "clean" ELSE "transfer"
  /\ UNCHANGED <<clientVars, scheduler, responseQueue, alone, functions, main, sent, answered>>

\* The transfer ends, and its response is put in the queue ...
NetResponds ==
  /\ net = "transfer"
  /\ responseQueue' = Append(responseQueue, request)
  /\ net' = "post"
  /\ UNCHANGED <<clientVars, scheduler, requestQueue, request, alone, functions, main, sent,
                 answered>>

\* Mutant: the scheduler is asked whether or not the client is being destroyed.
PostedAnyway(f) == Append(functions, f)

\* What _scheduler.lock() and performFunctionInCocosThread make of the functions.
Posted(f) == IF scheduler THEN Append(functions, f) ELSE functions

\* ... before a call of dispatchResponseCallbacks is posted for it.
NetPosts ==
  /\ net = "post"
  /\ functions' = Posted(Dispatch)
  /\ net' = "test"
  /\ UNCHANGED <<clientVars, scheduler, requestQueue, responseQueue, request, alone, main, sent,
                 answered>>

NetCleans ==
  /\ net = "clean"
  /\ requestQueue' = << >> /\ responseQueue' = << >>
  /\ net' = "leave"
  /\ UNCHANGED <<clientVars, scheduler, request, alone, functions, main, sent, answered>>

NetLeaves ==
  /\ net = "leave"
  /\ Leave
  /\ net' = "over"
  /\ UNCHANGED <<scheduler, requestQueue, responseQueue, request, alone, functions, main, sent,
                 answered>>

(***************************************************************************)
(* networkThreadAlone                                                      *)
(***************************************************************************)
AloneBegins(r) ==
  /\ alone[r] = "created"
  /\ Begin
  /\ alone' = [alone EXCEPT ![r] = IF deleted THEN "undefined" ELSE "transfer"]
  /\ UNCHANGED <<scheduler, requestQueue, responseQueue, net, request, functions, main, sent,
                 answered>>

AlonePosts(r) ==
  /\ alone[r] = "transfer"
  /\ functions' = Posted(r)
  /\ alone' = [alone EXCEPT ![r] = "leave"]
  /\ UNCHANGED <<clientVars, scheduler, requestQueue, responseQueue, net, request, main, sent,
                 answered>>

AloneLeaves(r) ==
  /\ alone[r] = "leave"
  /\ Leave
  /\ alone' = [alone EXCEPT ![r] = "over"]
  /\ UNCHANGED <<scheduler, requestQueue, responseQueue, net, request, functions, main, sent,
                 answered>>

-----------------------------------------------------------------------------
(***************************************************************************)
(* The cocos thread.                                                       *)
(***************************************************************************)
\* send() starts the network thread, if it is the first, and queues the request.
Send ==
  /\ main = "idle" /\ sent < MaxRequests
  /\ sent' = sent + 1
  /\ requestQueue' = Append(requestQueue, sent + 1)
  /\ net' = IF net = "none" THEN "created" ELSE net
  /\ main' = "notify"
  /\ UNCHANGED <<clientVars, scheduler, responseQueue, request, alone, functions, answered>>

\* Mutant: the notification is lost.
NobodyWoken == net

Woken == IF net = "asleep" THEN "test" ELSE net

Notify ==
  /\ main \in {"notify", "notifyQuit"}
  /\ net' = Woken
  /\ main' = IF main = "notify" THEN "idle" ELSE "leave"
  /\ UNCHANGED <<clientVars, scheduler, requestQueue, responseQueue, request, alone, functions,
                 sent, answered>>

SendImmediate ==
  /\ main = "idle" /\ sent < MaxRequests
  /\ sent' = sent + 1
  /\ alone' = [alone EXCEPT ![sent'] = "created"]
  /\ UNCHANGED <<clientVars, scheduler, requestQueue, responseQueue, net, request, functions,
                 main, answered>>

\* Mutant: the responses are dropped with the first.
NoneLeft(q) == << >>

\* Mutant: the response is not taken out of the queue.
AllLeft(q) == q

\* What dispatchResponseCallbacks leaves of the responses.
Left(q) == Tail(q)

\* A function is performed: dispatchResponseCallbacks, or the callback of a request that
\* was sent immediately.
Perform ==
  /\ main \in {"idle", "restarted"} /\ functions # << >>
  /\ functions' = Tail(functions)
  /\ IF Head(functions) # Dispatch
     THEN answered' = Append(answered, Head(functions)) /\ UNCHANGED responseQueue
     ELSE IF responseQueue = << >> THEN UNCHANGED <<responseQueue, answered>>
     ELSE /\ answered' = Append(answered, Head(responseQueue))
          /\ responseQueue' = Left(responseQueue)
  /\ UNCHANGED <<clientVars, scheduler, requestQueue, net, request, alone, main, sent>>

\* restartVM calls destroyInstance: nothing is posted from now on ...
DestroyInstance ==
  /\ main = "idle"
  /\ scheduler' = FALSE
  /\ main' = "sentinel"
  /\ UNCHANGED <<clientVars, requestQueue, responseQueue, net, request, alone, functions, sent,
                 answered>>

\* Mutant: the thread is notified without a sentinel.
NoSentinel(q) == q

WithSentinel(q) == Append(q, Sentinel)

\* ... the network thread is told to leave ...
PushSentinel ==
  /\ main = "sentinel"
  /\ requestQueue' = WithSentinel(requestQueue)
  /\ main' = "notifyQuit"
  /\ UNCHANGED <<clientVars, scheduler, responseQueue, net, request, alone, functions, sent,
                 answered>>

\* ... and the client is deleted, unless threads still use it.
LeaveClient ==
  /\ main = "leave"
  /\ Leave
  /\ main' = "remove"
  /\ UNCHANGED <<scheduler, requestQueue, responseQueue, net, request, alone, functions, sent,
                 answered>>

\* restartVM then removes the functions that have not been performed.
RemoveFunctions ==
  /\ main = "remove"
  /\ functions' = << >>
  /\ main' = "restarted"
  /\ UNCHANGED <<clientVars, scheduler, requestQueue, responseQueue, net, request, alone, sent,
                 answered>>

\* Frames in which nothing is left to do.
Quiet == main \in {"idle", "restarted"} /\ UNCHANGED vars

-----------------------------------------------------------------------------
Network == NetBegins \/ NetSleeps \/ NetTakes \/ NetResponds \/ NetPosts \/ NetCleans \/ NetLeaves
Alone(r) == AloneBegins(r) \/ AlonePosts(r) \/ AloneLeaves(r)
Continue == Notify \/ Perform \/ PushSentinel \/ LeaveClient \/ RemoveFunctions

Next ==
  \/ Network \/ Continue
  \/ \E r \in Requests : Alone(r)
  \/ Send \/ SendImmediate \/ DestroyInstance \/ Quiet

Spec == Init /\ [][Next]_vars

Threads == Network \/ \E r \in Requests : Alone(r)

\* Threads are scheduled, and as each has finitely many steps, one of them is enough;
\* transfers end (curl is given timeouts).  The cocos thread goes on.
FairSpec == Spec /\ WF_vars(Threads) /\ WF_vars(Continue)

-----------------------------------------------------------------------------
(***************************************************************************)
(* Properties.                                                             *)
(***************************************************************************)
NetPlaces == {"none", "created", "test", "asleep", "transfer", "post", "clean", "leave", "over", "undefined"}

\* Every variable has its type.
TypeOK ==
  /\ count \in 0..(MaxRequests + 2) /\ deleted \in BOOLEAN /\ scheduler \in BOOLEAN
  /\ requestQueue \in Seq(0..MaxRequests) /\ responseQueue \in Seq(Requests)
  /\ net \in NetPlaces /\ request \in 0..MaxRequests
  /\ alone \in [Requests -> NetPlaces]
  /\ functions \in Seq(0..MaxRequests)
  /\ main \in {"idle", "notify", "sentinel", "notifyQuit", "leave", "remove", "restarted"}
  /\ sent \in 0..MaxRequests /\ answered \in Seq(Requests)

\* No thread that has begun is left with a client that was deleted, and no function that
\* is performed is, although neither holds a reference to it: the last user deletes it.
UsersHaveTheirClient ==
  deleted =>
    /\ net \in {"none", "created", "over", "undefined"}
    /\ \A r \in Requests : alone[r] \in {"none", "created", "over", "undefined"}
    /\ main \in {"remove", "restarted"} /\ (main = "restarted" => functions = << >>)

\* While the client is in use there is a call of dispatchResponseCallbacks for each
\* response, posted or about to be: no response waits for the next request to be answered.
ResponsesHaveTheirCall ==
  scheduler => Len(responseQueue) =
    Cardinality({i \in DOMAIN functions : functions[i] = Dispatch}) + (IF net = "post" THEN 1 ELSE 0)

\* Each request is answered at most once, and those of the queue in the order in which
\* they were sent.
AnsweredInOrder ==
  /\ IsInjective(answered)
  /\ \A i, j \in DOMAIN answered :
       i < j /\ alone[answered[i]] = "none" /\ alone[answered[j]] = "none" => answered[i] < answered[j]

\* Each request is answered, unless the client is destroyed.
RequestsAnswered == ~scheduler \/ ToSet(answered) = 1..sent

\* A client that is destroyed is deleted in the end, unless a thread had not begun.
ClientDeleted ==
  main = "restarted" => deleted \/ net = "undefined" \/ \E r \in Requests : alone[r] = "undefined"
=============================================================================

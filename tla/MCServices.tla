----------------------------- MODULE MCServices -----------------------------
(***************************************************************************)
(* The network services, WebSocket and HttpClient, for TLC.  They share no *)
(* state, so that a behaviour is about one of them, `part`.                *)
(***************************************************************************)
EXTENDS WebSocket

CONSTANTS MaxRequests

VARIABLES
  part,
  count, deleted, scheduler, requestQueue, responseQueue, net, request, alone, httpFunctions,
  httpMain, sent, answered

Http == INSTANCE HttpClient WITH main <- httpMain, functions <- httpFunctions

httpVars ==
  <<count, deleted, scheduler, requestQueue, responseQueue, net, request, alone, httpFunctions,
    httpMain, sent, answered>>

allVars == <<part, wsVars, httpVars>>

SocketStep(A) == part = "websocket" /\ A /\ UNCHANGED <<part, httpVars>>
HttpStep(A)   == part = "http"      /\ A /\ UNCHANGED <<part, wsVars>>

ServicesInit == part \in {"websocket", "http"} /\ Init /\ Http!Init

ServicesNext == SocketStep(Next) \/ HttpStep(Http!Next)

\* The fairness of each component, for its own part: as a behaviour has one part, what is
\* fair in both is stated for them together.
ServicesSpec ==
  /\ ServicesInit /\ [][ServicesNext]_allVars
  /\ WF_allVars(SocketStep(Handler) \/ HttpStep(Http!Threads))
  /\ WF_allVars(SocketStep(JoinThread \/ Perform \/ Closing) \/ HttpStep(Http!Continue))
  /\ \A s \in Sockets : SF_allVars(SocketStep(Owed(s)))

-----------------------------------------------------------------------------
(***************************************************************************)
(* The properties of both, joined where they say the same of the two.      *)
(***************************************************************************)
\* Every variable has its type.
ServicesTypeOK == TypeOK /\ Http!TypeOK

\* No thread and no function that is performed is left with a socket or a client that was
\* deleted, though they keep only pointers.
ThreadsUseLiveObjects == ThreadUsesLiveSockets /\ Http!UsersHaveTheirClient

\* Each response is handed over by its own call, once and in order.
ResponsesHandedOver == Http!ResponsesHaveTheirCall /\ Http!AnsweredInOrder

\* A socket that is to close is told so in the end, and each request is answered.
EverythingIsAnswered == []<>(ClosesReported /\ Http!RequestsAnswered)

\* The last socket is destroyed with its thread, and the client by its last user.
DestroyingEnds == []<>(DestructorReturned /\ Http!ClientDeleted)
=============================================================================

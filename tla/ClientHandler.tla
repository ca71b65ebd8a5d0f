---------------------------- MODULE ClientHandler ----------------------------
(***************************************************************************)
(* ClientHandler: one connection, from run() to cleanUp().  The client     *)
(* writes frames, a size and then that many bytes of JSON, without waiting *)
(* for answers; the handler's thread reads, handles and answers them one   *)
(* by one; the listener may close() the handler between any two steps.     *)
(*                                                                         *)
(* A request stands for the JSON document of a frame: is it JSON, what is  *)
(* its "auth", its "cmd", and does it name a database.  An answer is the   *)
(* name of the key or error it carries.  Socket.isConnected() stays true   *)
(* when a socket is closed, so the test at the head of readClientChannel   *)
(* never succeeds and is left out.                                         *)
(***************************************************************************)
EXTENDS Naturals, Sequences

CONSTANTS
    Requests,       \* the requests the client makes
    Sizes,          \* the sizes it announces: of {"fits", "huge", "negative"}
    Passwords,      \* the values of isAuthRequired()
    None,           \* no request at hand
    MaxFrames,      \* bound on the frames of the client
    MaxAnswers      \* bound on the answers once the handler is out of step

AllRequests == [json : BOOLEAN, auth : {"none", "wrong", "right"},
                cmd : {"none", "unknown", "LIST", "QUERY", "DELETE_DB"}, db : BOOLEAN]

ASSUME HandlerAssumption ==
    /\ Requests \subseteq AllRequests /\ None \notin Requests /\ None \notin Nat
    /\ Sizes \subseteq {"fits", "huge", "negative"}
    /\ Passwords \subseteq BOOLEAN
    /\ MaxFrames \in Nat /\ MaxAnswers \in Nat

VARIABLES
    sent,           \* requests whose frame the client has written completely
    network,        \* sizes and bodies on their way to the handler
    bodyDue,        \* the client has written a size but not yet the body
    peer,           \* the client's end of the connection
    running,        \* running
    socketOpen,     \* neither close() nor cleanUp() has closed clientSocket
    currentState,   \* currentState
    password,       \* isAuthRequired(), which never changes
    authorized,     \* authorized
    denyAccess,     \* denyAccess
    pc,             \* where run() is
    request,        \* the request read and not yet handled
    answer,         \* the answer not yet sent
    answers,        \* what was written to the socket
    received,       \* how many bodies were read
    executed,       \* which of them reached the databases
    lost,           \* None, or the number of answers when the handler fell
                    \* out of step with the client's frames
    databases       \* does dbService hold an open database

clientVars == <<sent, network, bodyDue, peer>>
authVars == <<password, authorized, denyAccess>>
dataVars == <<request, answer, answers, received, executed>>
vars == <<clientVars, running, socketOpen, currentState, authVars, pc, dataVars, lost, databases>>

InStep == lost = None
Nothing == "nothing"
SizeOf(size) == [part |-> "size", size |-> size]
BodyOf(r) == [part |-> "body", request |-> r]

Init ==
    /\ sent = <<>> /\ network = <<>> /\ bodyDue = FALSE /\ peer = "up"
    /\ running = TRUE /\ socketOpen = TRUE
    /\ currentState = "READING_SIZE"
    /\ password \in Passwords /\ authorized = ~password /\ denyAccess = FALSE
    /\ pc = "start"
    /\ request = None /\ answer = Nothing
    /\ answers = <<>> /\ received = 0 /\ executed = {}
    /\ lost = None /\ databases = FALSE

-----------------------------------------------------------------------------
(* The client.                                                             *)

handlerVars == <<running, socketOpen, currentState, authVars, pc, dataVars, lost, databases>>

SendSize(size) ==
    /\ peer = "up" /\ ~bodyDue /\ Len(sent) < MaxFrames
    /\ network' = Append(network, SizeOf(size))
    /\ bodyDue' = TRUE
    /\ UNCHANGED <<sent, peer, handlerVars>>

SendBody(r) ==
    /\ peer = "up" /\ bodyDue
    /\ network' = Append(network, BodyOf(r))
    /\ sent' = Append(sent, r)
    /\ bodyDue' = FALSE
    /\ UNCHANGED <<peer, handlerVars>>

(* The client closes its end, or the connection is reset and what was on   *)
(* its way is lost.                                                        *)
HangUp ==
    /\ peer = "up"
    /\ \/ peer' = "eof" /\ UNCHANGED network
       \/ peer' = "reset" /\ network' = <<>>
    /\ UNCHANGED <<sent, bodyDue, handlerVars>>

Client ==
    \/ \E size \in Sizes : SendSize(size)
    \/ \E r \in Requests : SendBody(r)
    \/ HangUp

-----------------------------------------------------------------------------
(* run().                                                                  *)

(* The address may not be allowed; a socket that is already closed has no  *)
(* streams, and init() returns FALSE.                                      *)
Start ==
    /\ pc = "start"
    /\ \/ socketOpen /\ pc' = "loop"
       \/ pc' = "cleanUp"
    /\ UNCHANGED <<clientVars, running, socketOpen, currentState, authVars, dataVars, lost,
                   databases>>

Loop_DenialIgnored ==
    /\ pc = "loop"
    /\ pc' = IF running THEN "read" ELSE "cleanUp"
    /\ UNCHANGED <<clientVars, running, socketOpen, currentState, authVars, dataVars, lost,
                   databases>>

Loop ==
    /\ pc = "loop"
    /\ pc' = IF running /\ ~denyAccess THEN "read" ELSE "cleanUp"
    /\ UNCHANGED <<clientVars, running, socketOpen, currentState, authVars, dataVars, lost,
                   databases>>

CleanUp ==
    /\ pc = "cleanUp"
    /\ databases' = FALSE
    /\ socketOpen' = FALSE
    /\ pc' = "done"
    /\ UNCHANGED <<clientVars, running, currentState, authVars, dataVars, lost>>

(* close(), called by the listener or at the end of the stream. *)
CloseSocket == running' = FALSE /\ socketOpen' = FALSE

Close ==
    /\ running
    /\ CloseSocket
    /\ UNCHANGED <<clientVars, currentState, authVars, pc, dataVars, lost, databases>>

-----------------------------------------------------------------------------
(* readClientChannel().                                                    *)

Reading(state) == pc = "read" /\ socketOpen /\ peer # "reset" /\ currentState = state

SendAnswer(a) == answer' = a /\ pc' = "send"

(* The stream ends before what is to be read is complete. *)
ReadEnds ==
    /\ pc = "read" /\ socketOpen /\ peer = "eof"
    /\ network = <<>> \/ ~InStep
    /\ CloseSocket
    /\ pc' = "loop"
    /\ UNCHANGED <<clientVars, currentState, authVars, dataVars, lost, databases>>

ReadFails ==
    /\ pc = "read" /\ (~socketOpen \/ peer = "reset")
    /\ SendAnswer("ERROR_READING_FROM_CLIENT")
    /\ UNCHANGED <<clientVars, running, socketOpen, currentState, authVars, request, answers,
                   received, executed, lost, databases>>

(* The effect of the four bytes read as a size.  new byte[size] throws      *)
(* NegativeArraySizeException for a size of 2^31 or more, and nobody        *)
(* catches it.                                                              *)
SizeRead(size) ==
    /\ \/ /\ size = "fits"
          /\ currentState' = "READING_DATA" /\ pc' = "loop"
          /\ UNCHANGED answer
       \/ /\ size = "huge"
          /\ SendAnswer("ERROR_READING_FROM_CLIENT")
          /\ UNCHANGED currentState
       \/ /\ size = "negative"
          /\ pc' = "crashed"
          /\ UNCHANGED <<currentState, answer>>
    /\ UNCHANGED <<sent, peer, bodyDue, running, socketOpen, authVars, request, answers,
                   received, executed, databases>>

(* A frame that is too large is not skipped: what follows is its body, read *)
(* as sizes and documents of whatever its bytes happen to be.               *)
ReadSize ==
    /\ Reading("READING_SIZE")
    /\ \/ /\ InStep /\ network # <<>>
          /\ SizeRead(network[1].size)
          /\ lost' = IF network[1].size = "huge" THEN Len(answers) ELSE None
          /\ network' = Tail(network)
       \/ /\ ~InStep /\ Len(answers) < MaxAnswers
          /\ \E size \in {"fits", "huge", "negative"} : SizeRead(size)
          /\ UNCHANGED <<lost, network>>

BodyRead(r) ==
    /\ request' = r
    /\ received' = received + 1
    /\ pc' = "handle"
    /\ UNCHANGED <<sent, peer, bodyDue, running, socketOpen, currentState, authVars, answer,
                   answers, executed, lost, databases>>

ReadBody ==
    /\ Reading("READING_DATA")
    /\ \/ /\ InStep /\ network # <<>>
          /\ BodyRead(network[1].request)
          /\ network' = Tail(network)
       \/ /\ ~InStep
          /\ \E r \in Requests : BodyRead(r)
          /\ UNCHANGED network

-----------------------------------------------------------------------------
(* handleRequest(), and the answer it sends.                               *)

Authorize_Silent ==
    IF request.auth = "right"
    THEN authorized' = TRUE /\ pc' = "loop" /\ UNCHANGED <<password, denyAccess, answer>>
    ELSE denyAccess' = TRUE /\ pc' = "loop" /\ UNCHANGED <<password, authorized, answer>>

Authorize ==
    IF request.auth = "right"
    THEN authorized' = TRUE /\ SendAnswer("ok") /\ UNCHANGED <<password, denyAccess>>
    ELSE denyAccess' = TRUE /\ pc' = "loop" /\ UNCHANGED <<password, authorized, answer>>

(* LIST and DELETE_DB look at the files only.  QUERY opens the database,    *)
(* unless it is open, outside of the try block of exec(): what opening      *)
(* throws, nobody catches.                                                  *)
List ==
    /\ request.cmd = "LIST"
    /\ SendAnswer("list")
    /\ UNCHANGED databases

DeleteDb ==
    /\ request.cmd = "DELETE_DB" /\ request.db
    /\ \E a \in {"ok", "error"} : SendAnswer(a)
    /\ UNCHANGED databases

Query_ErrorDropped ==
    /\ request.cmd = "QUERY" /\ request.db
    /\ databases' = TRUE
    /\ \/ SendAnswer("rows")
       \/ pc' = "loop" /\ UNCHANGED answer

Query ==
    /\ request.cmd = "QUERY" /\ request.db
    /\ \/ /\ \E a \in {"rows", "sqlError"} : SendAnswer(a)
          /\ databases' = TRUE
       \/ /\ pc' = "crashed"
          /\ UNCHANGED <<answer, databases>>

Refused(error) == SendAnswer(error) /\ UNCHANGED <<executed, databases>>

Command ==
    \/ request.cmd = "none" /\ Refused("NO_COMMAND_SPECIFIED")
    \/ request.cmd = "unknown" /\ Refused("UNKNOWN_COMMAND")
    \/ request.cmd \in {"QUERY", "DELETE_DB"} /\ ~request.db /\ Refused("NO_DATABASE_SPECIFIED")
    \/ /\ List \/ DeleteDb \/ Query
       /\ executed' = executed \cup {received}

HandleRequest_Unlocked ==
    /\ pc = "handle"
    /\ currentState' = "READING_SIZE"
    /\ request' = None
    /\ \/ ~request.json /\ Refused("INVALID_FORMAT") /\ UNCHANGED authVars
       \/ request.json /\ ~authorized /\ request.cmd = "none" /\ Authorize
                       /\ UNCHANGED <<executed, databases>>
       \/ request.json /\ request.cmd # "none" /\ Command /\ UNCHANGED authVars
    /\ UNCHANGED <<clientVars, running, socketOpen, answers, received, lost>>

HandleRequest ==
    /\ pc = "handle"
    /\ currentState' = "READING_SIZE"
    /\ request' = None
    /\ \/ ~request.json /\ Refused("INVALID_FORMAT") /\ UNCHANGED authVars
       \/ request.json /\ ~authorized /\ Authorize /\ UNCHANGED <<executed, databases>>
       \/ request.json /\ authorized /\ Command /\ UNCHANGED authVars
    /\ UNCHANGED <<clientVars, running, socketOpen, answers, received, lost>>

(* send(): an IOException is logged and the answer is lost. *)
Send ==
    /\ pc = "send"
    /\ answers' = IF socketOpen /\ peer # "reset" THEN Append(answers, answer) ELSE answers
    /\ answer' = Nothing
    /\ pc' = "loop"
    /\ UNCHANGED <<clientVars, running, socketOpen, currentState, authVars, request, received,
                   executed, lost, databases>>

Handler ==
    \/ Start \/ Loop \/ CleanUp
    \/ ReadEnds \/ ReadFails \/ ReadSize \/ ReadBody
    \/ HandleRequest \/ Send

Next == Client \/ Close \/ Handler

Spec == Init /\ [][Next]_vars

(* The handler's thread is scheduled; nothing is assumed of the client, nor *)
(* of the listener.                                                         *)
FairSpec == Spec /\ WF_vars(Handler)

-----------------------------------------------------------------------------
(* Properties.                                                             *)

(* Every variable keeps the type of what it stands for. *)
TypeOK ==
    /\ sent \in Seq(Requests) /\ Len(sent) <= MaxFrames
    /\ peer \in {"up", "eof", "reset"}
    /\ {bodyDue, running, socketOpen, authorized, denyAccess, databases} \subseteq BOOLEAN
    /\ password \in BOOLEAN /\ lost \in Nat \cup {None}
    /\ currentState \in {"READING_SIZE", "READING_DATA"}
    /\ pc \in {"start", "loop", "read", "handle", "send", "cleanUp", "done", "crashed"}
    /\ request \in Requests \cup {None}
    /\ received \in Nat /\ executed \subseteq 1 .. received
    /\ (pc = "handle") = (request # None)
    /\ (pc = "send") = (answer # Nothing)

(* The answers given while the handler was in step. *)
AnswersInStep == IF InStep THEN answers ELSE SubSeq(answers, 1, lost)

Contract == INSTANCE RequestServer WITH requests <- sent, answers <- AnswersInStep

(* Requests are answered one by one and in order, and only those that may  *)
(* be: the framing, the two states of the reader and the answers of the    *)
(* commands never get out of line, whenever the client hangs up, the       *)
(* connection breaks or the listener closes the handler.  A frame that is  *)
(* too large ends the promise.                                             *)
KeepsContract == Contract!Spec

(* When a password is set, nothing reaches the databases before a request  *)
(* with that password has been handled: no order of requests, malformed    *)
(* ones included, gets round it.                                           *)
NothingBeforeAuthorization ==
    InStep => \A k \in executed : Contract!Unlocked(k)

(* A client that did not get an answer knows that at most the last request *)
(* was executed without one, and only if the connection or the process has *)
(* ended.                                                                  *)
OneEffectUnanswered ==
    InStep => \A k \in executed :
        k <= Len(answers) \/ (k = received /\ (pc \in {"send", "crashed"} \/ ~socketOpen \/ peer = "reset"))

(* Every complete request is answered, or the connection ends. *)
EveryRequestAnswered ==
    \A k \in 1 .. MaxFrames :
        Len(sent) >= k ~> Len(answers) >= k \/ ~InStep \/ ~socketOpen \/ peer = "reset" \/ pc = "crashed"

(* However a connection ends for the handler, it gives back its databases  *)
(* and its socket.  A read error does not end it.                          *)
ResourcesReleased ==
    (~running \/ denyAccess) ~> pc = "crashed" \/ (pc = "done" /\ ~databases /\ ~socketOpen)

=============================================================================

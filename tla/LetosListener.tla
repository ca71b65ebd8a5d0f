---------------------------- MODULE LetosListener ----------------------------
(***************************************************************************)
(* LetosListener: one thread accepts clients and hands them to a           *)
(* ThreadPoolExecutor, whose workers run a ClientHandler each; close() is  *)
(* called by the service's main thread, which then joins the listener      *)
(* thread.  The module models the life of one listener.                    *)
(*                                                                         *)
(* close() is synchronized and holds the listener's monitor until it       *)
(* returns, so it shuts out isRunning(), the only other method that takes  *)
(* the monitor.  Everything else is shared without a lock: what init()     *)
(* stores is certain to be visible to close() only once the listener       *)
(* thread has been through isRunning() (published).                        *)
(*                                                                         *)
(* An exception nobody catches ends the process (crashed), as Android's    *)
(* default handler does.                                                   *)
(***************************************************************************)
EXTENDS Naturals, Sequences, FiniteSets

CONSTANTS
    Clients,        \* clients that may connect during the listener's life
    None,           \* no client
    PoolSize,       \* core and maximum size of the thread pool (20)
    QueueSize,      \* capacity of jobsQueue (1)
    HasAddress      \* is an IP address configured: {TRUE}, {FALSE} or both

ASSUME ListenerAssumption ==
    /\ None \notin Clients
    /\ IsFiniteSet(Clients)
    /\ PoolSize \in Nat \ {0} /\ QueueSize \in Nat
    /\ HasAddress \subseteq BOOLEAN

VARIABLES
    running,        \* running
    serverSocket,   \* does the field serverSocket hold the socket
    listening,      \* is the server socket bound and open
    lpc, current,   \* the listener thread and the client it is accepting
    published,      \* running was read once since init() stored the fields
    poolReady,      \* threadPool and clientJobs are stored
    shutdown,       \* threadPool.shutdown() was called
    workers,        \* worker threads the pool has started
    jobsQueue,      \* handlers that wait for a worker
    clientJobs,     \* handlers on record
    handler,        \* what became of each client's handler
    open,           \* handlers whose close() nobody has called
    peer,           \* the other end of each client's connection
    cpc, todo,      \* the thread in close(), and the handlers it has yet to close
    crashed         \* the process was ended by an uncaught exception

listenerVars == <<lpc, current>>
socketVars == <<serverSocket, listening>>
poolVars == <<poolReady, shutdown, workers, jobsQueue>>
jobVars == <<clientJobs, handler, open, peer>>
closeVars == <<running, cpc, todo>>
vars == <<listenerVars, socketVars, published, poolVars, jobVars, closeVars, crashed>>

Idle == "idle"
AtWork == {c \in Clients : handler[c] \in {"serving", "cleaning", "threw"}}
Executed == AtWork \cup {c \in Clients : handler[c] = "queued"}
ClosePhases == {"idle", "socket", "pool", "snapshot", "handlers", "await", "join", "done"}
ListenerSteps == {"create", "bind", "timeout", "fields", "check", "accept", "blocked",
                  "register", "submit", "ended"}

Init ==
    /\ running = TRUE
    /\ serverSocket = FALSE /\ listening = FALSE
    /\ lpc = "create" /\ current = None /\ published = FALSE
    /\ poolReady = FALSE /\ shutdown = FALSE /\ workers = 0 /\ jobsQueue = <<>>
    /\ clientJobs = {}
    /\ handler = [c \in Clients |-> "none"]
    /\ open = [c \in Clients |-> TRUE]
    /\ peer = [c \in Clients |-> "up"]
    /\ cpc = Idle /\ todo = {}
    /\ crashed = FALSE

-----------------------------------------------------------------------------
(* The listener thread: init().                                            *)

Goto(step) == lpc' = step /\ UNCHANGED current

(* The port may be taken, so binding may fail: IOException, init returns FALSE. *)
Bound ==
    /\ \/ listening' = TRUE /\ Goto("timeout")
       \/ listening' = FALSE /\ Goto("ended")

CreateSocket ==
    /\ lpc = "create"
    /\ \/ /\ TRUE \in HasAddress
          /\ serverSocket' = TRUE
          /\ Goto("bind")
          /\ UNCHANGED listening
       \/ /\ FALSE \in HasAddress
          /\ Bound
          /\ serverSocket' = listening'
    /\ UNCHANGED <<published, poolVars, jobVars, closeVars, crashed>>

(* A method called through serverSocket: once close() has closed the socket *)
(* the call throws IOException, once close() has cleared the field it may   *)
(* throw NullPointerException instead.                                      *)
SocketGone(onIOException) ==
    /\ ~serverSocket
    /\ \/ Goto(onIOException) /\ UNCHANGED crashed
       \/ Goto("ended") /\ crashed' = TRUE

Bind ==
    /\ lpc = "bind"
    /\ \/ SocketGone("ended") /\ UNCHANGED listening
       \/ serverSocket /\ Bound /\ UNCHANGED crashed
    /\ UNCHANGED <<serverSocket, published, poolVars, jobVars, closeVars>>

SetTimeout ==
    /\ lpc = "timeout"
    /\ \/ SocketGone("ended")
       \/ serverSocket /\ Goto("fields") /\ UNCHANGED crashed
    /\ UNCHANGED <<socketVars, published, poolVars, jobVars, closeVars>>

(* The last of the fields is the AuthServiceImpl, whose constructor makes a *)
(* pattern of each entry of the two lists and throws for one that is none:  *)
(* PatternSyntaxException, which neither init() nor run() catches.          *)
StoreFields ==
    /\ lpc = "fields"
    /\ poolReady' = TRUE
    /\ \/ Goto("check") /\ UNCHANGED crashed
       \/ Goto("ended") /\ crashed' = TRUE
    /\ UNCHANGED <<socketVars, published, shutdown, workers, jobsQueue, jobVars, closeVars>>

-----------------------------------------------------------------------------
(* The listener thread: run().                                             *)

MonitorFree == cpc \in {"idle", "join", "done"}

CheckRunning ==
    /\ lpc = "check" /\ MonitorFree
    /\ Goto(IF running THEN "accept" ELSE "ended")
    /\ published' = (published \/ running)
    /\ UNCHANGED <<socketVars, poolVars, jobVars, closeVars, crashed>>

CallAccept ==
    /\ lpc = "accept"
    /\ \/ SocketGone("check")
       \/ serverSocket /\ Goto("blocked") /\ UNCHANGED crashed
    /\ UNCHANGED <<socketVars, published, poolVars, jobVars, closeVars>>

(* accept() gives up after the interval of one second, or at once when the *)
(* socket is closed under it: SocketTimeoutException and SocketException   *)
(* are IOExceptions.                                                       *)
AcceptFails ==
    /\ lpc = "blocked"
    /\ Goto("check")
    /\ UNCHANGED <<socketVars, published, poolVars, jobVars, closeVars, crashed>>

Accept(c) ==
    /\ lpc = "blocked" /\ listening
    /\ handler[c] = "none"
    /\ handler' = [handler EXCEPT ![c] = "accepted"]
    /\ lpc' = "register" /\ current' = c
    /\ UNCHANGED <<socketVars, published, poolVars, clientJobs, open, peer, closeVars, crashed>>

Register ==
    /\ lpc = "register"
    /\ clientJobs' = clientJobs \cup {current}
    /\ Goto("submit")
    /\ UNCHANGED <<socketVars, published, poolVars, handler, open, peer, closeVars, crashed>>

PoolHasRoom == workers < PoolSize
QueueHasRoom_Never == FALSE
QueueHasRoom == Len(jobsQueue) < QueueSize

(* threadPool.execute: a new worker as long as there are fewer than PoolSize, *)
(* idle ones or not; then the queue; then, or after shutdown(), the           *)
(* RejectedExecutionException, which run() does not catch.                    *)
Submit ==
    /\ lpc = "submit"
    /\ UNCHANGED <<socketVars, published, poolReady, shutdown, clientJobs, open, peer, closeVars>>
    /\ \/ /\ ~shutdown /\ PoolHasRoom
          /\ workers' = workers + 1
          /\ handler' = [handler EXCEPT ![current] = "serving"]
          /\ lpc' = "check" /\ current' = None
          /\ UNCHANGED <<jobsQueue, crashed>>
       \/ /\ ~shutdown /\ ~PoolHasRoom /\ QueueHasRoom
          /\ jobsQueue' = Append(jobsQueue, current)
          /\ handler' = [handler EXCEPT ![current] = "queued"]
          /\ lpc' = "check" /\ current' = None
          /\ UNCHANGED <<workers, crashed>>
       \/ /\ shutdown \/ (~PoolHasRoom /\ ~QueueHasRoom)
          /\ crashed' = TRUE
          /\ Goto("ended")
          /\ UNCHANGED <<workers, jobsQueue, handler>>

ListenerThread ==
    \/ CreateSocket \/ Bind \/ SetTimeout \/ StoreFields
    \/ CheckRunning \/ CallAccept \/ AcceptFails \/ Register \/ Submit
    \/ \E c \in Clients : Accept(c)

-----------------------------------------------------------------------------
(* The workers.                                                            *)

IdleWorkers == workers - Cardinality(AtWork)

TakeQueued ==
    /\ jobsQueue # <<>> /\ IdleWorkers > 0
    /\ jobsQueue' = Tail(jobsQueue)
    /\ handler' = [handler EXCEPT ![Head(jobsQueue)] = "serving"]
    /\ UNCHANGED <<listenerVars, socketVars, published, poolReady, shutdown, workers,
                   clientJobs, open, peer, closeVars, crashed>>

HandlerStep(c, state) ==
    /\ handler' = [handler EXCEPT ![c] = state]
    /\ UNCHANGED <<listenerVars, socketVars, published, poolVars, peer, closeVars, crashed>>

LeaveLoop_OnlyAtEof(c) ==
    /\ handler[c] = "serving" /\ peer[c] = "eof"
    /\ open' = [open EXCEPT ![c] = FALSE]
    /\ HandlerStep(c, "cleaning")
    /\ UNCHANGED clientJobs

LeaveLoop_OnlyClosed(c) ==
    /\ handler[c] = "serving" /\ ~open[c]
    /\ HandlerStep(c, "cleaning")
    /\ UNCHANGED <<clientJobs, open>>

(* The loop of ClientHandler.run ends when close() was called, by the       *)
(* listener or by readClientChannel at the end of the stream.  A connection *)
(* that was reset is neither: every read throws IOException, and the loop   *)
(* goes on.                                                                 *)
LeaveLoop(c) ==
    /\ handler[c] = "serving"
    /\ ~open[c] \/ peer[c] = "eof"
    /\ open' = [open EXCEPT ![c] = FALSE]
    /\ HandlerStep(c, "cleaning")
    /\ UNCHANGED clientJobs

(* The client's address is not allowed, or it failed to authorize. *)
Deny(c) ==
    /\ handler[c] = "serving"
    /\ HandlerStep(c, "cleaning")
    /\ UNCHANGED <<clientJobs, open>>

CleanUp_NotRemoved(c) ==
    /\ handler[c] = "cleaning"
    /\ HandlerStep(c, "done")
    /\ UNCHANGED <<clientJobs, open>>

CleanUp(c) ==
    /\ handler[c] = "cleaning"
    /\ clientJobs' = clientJobs \ {c}
    /\ HandlerStep(c, "done")
    /\ UNCHANGED open

Worker(c) == LeaveLoop(c) \/ Deny(c) \/ CleanUp(c)

(* A negative size makes new byte[size] throw, and a database that cannot be *)
(* opened makes exec() throw; run() catches neither, and its handler never   *)
(* gets to cleanUp().                                                        *)
HandlerThrows(c) ==
    /\ handler[c] = "serving"
    /\ handler' = [handler EXCEPT ![c] = "threw"]
    /\ crashed' = TRUE
    /\ UNCHANGED <<listenerVars, socketVars, published, poolVars, clientJobs, open, peer, closeVars>>

(* The client, or the network. *)
PeerGoes(c) ==
    /\ handler[c] \notin {"none", "done"} /\ peer[c] = "up"
    /\ \E state \in {"eof", "reset"} : peer' = [peer EXCEPT ![c] = state]
    /\ UNCHANGED <<listenerVars, socketVars, published, poolVars, clientJobs, handler, open,
                   closeVars, crashed>>

-----------------------------------------------------------------------------
(* close(), and the join() that follows it in LetosService.shutdownListener. *)

StartClose ==
    /\ cpc = Idle
    /\ running' = FALSE
    /\ cpc' = "socket"
    /\ UNCHANGED <<listenerVars, socketVars, published, poolVars, jobVars, todo, crashed>>

(* What a thread that was never synchronized with the listener may read of *)
(* a field the listener has assigned.                                      *)
Seen(assigned) == IF published THEN {assigned} ELSE {assigned, FALSE}

CloseSocket_OnlyForgotten ==
    /\ cpc = "socket"
    /\ serverSocket' = FALSE
    /\ cpc' = "pool"
    /\ UNCHANGED <<listenerVars, listening, published, poolVars, jobVars, running, todo, crashed>>

CloseSocket ==
    /\ cpc = "socket"
    /\ \E seen \in Seen(serverSocket) :
          /\ serverSocket' = (serverSocket /\ ~seen)
          /\ listening' = (listening /\ ~seen)
    /\ cpc' = "pool"
    /\ UNCHANGED <<listenerVars, published, poolVars, jobVars, running, todo, crashed>>

ShutdownPool_Later ==
    /\ cpc = "pool"
    /\ cpc' = IF poolReady THEN "snapshot" ELSE "join"
    /\ UNCHANGED <<listenerVars, socketVars, published, poolVars, jobVars, running, todo, crashed>>

ShutdownPool ==
    /\ cpc = "pool"
    /\ \E seen \in Seen(poolReady) :
          /\ shutdown' = seen
          /\ cpc' = IF seen THEN "snapshot" ELSE "join"
    /\ UNCHANGED <<listenerVars, socketVars, published, poolReady, workers, jobsQueue, jobVars,
                   running, todo, crashed>>

(* The iterator of a CopyOnWriteArrayList does not see later changes. *)
StartClosingHandlers ==
    /\ cpc = "snapshot"
    /\ todo' = clientJobs
    /\ cpc' = "handlers"
    /\ UNCHANGED <<listenerVars, socketVars, published, poolVars, jobVars, running, crashed>>

CloseHandler ==
    /\ cpc = "handlers"
    /\ \/ /\ todo = {}
          /\ cpc' = "await"
          /\ UNCHANGED <<todo, open>>
       \/ \E c \in todo :
          /\ open' = [open EXCEPT ![c] = FALSE]
          /\ todo' = todo \ {c}
          /\ UNCHANGED cpc
    /\ UNCHANGED <<listenerVars, socketVars, published, poolVars, clientJobs, handler, peer,
                   running, crashed>>

(* awaitTermination: every job is done, or ten seconds have passed. *)
Await ==
    /\ cpc = "await"
    /\ cpc' = "join"
    /\ UNCHANGED <<listenerVars, socketVars, published, poolVars, jobVars, running, todo, crashed>>

Join ==
    /\ cpc = "join" /\ lpc = "ended"
    /\ cpc' = "done"
    /\ UNCHANGED <<listenerVars, socketVars, published, poolVars, jobVars, running, todo, crashed>>

Closer ==
    CloseSocket \/ ShutdownPool \/ StartClosingHandlers \/ CloseHandler \/ Await \/ Join

(* Nothing is left to do. *)
Finished ==
    /\ crashed \/ (lpc = "ended" /\ cpc = "done" /\ Executed = {})
    /\ UNCHANGED vars

Next ==
    \/ /\ ~crashed
       /\ \/ ListenerThread
          \/ TakeQueued
          \/ \E c \in Clients : Worker(c) \/ HandlerThrows(c) \/ PeerGoes(c)
          \/ StartClose
          \/ Closer
    \/ Finished

Spec == Init /\ [][Next]_vars

(* Every thread that can run is scheduled, and a request that a handler is  *)
(* executing comes to its end.  Nothing is assumed of clients, of a         *)
(* handler's decision to deny one, or of the service's call to close().     *)
FairSpec ==
    /\ Spec
    /\ WF_vars(~crashed /\ ListenerThread)
    /\ WF_vars(~crashed /\ TakeQueued)
    /\ WF_vars(~crashed /\ Closer)
    /\ \A c \in Clients : WF_vars(~crashed /\ (LeaveLoop(c) \/ CleanUp(c)))

-----------------------------------------------------------------------------
(* Properties.                                                             *)

(* Every variable keeps the type of the field or thread it stands for. *)
TypeOK ==
    /\ {running, serverSocket, listening, published, poolReady, shutdown, crashed} \subseteq BOOLEAN
    /\ lpc \in ListenerSteps /\ current \in Clients \cup {None}
    /\ workers \in 0 .. PoolSize
    /\ jobsQueue \in Seq(Clients) /\ Len(jobsQueue) <= QueueSize
    /\ clientJobs \subseteq Clients /\ todo \subseteq Clients
    /\ handler \in [Clients -> {"none", "accepted", "queued", "serving", "cleaning", "done",
                              "threw"}]
    /\ open \in [Clients -> BOOLEAN]
    /\ peer \in [Clients -> {"up", "eof", "reset"}]
    /\ cpc \in ClosePhases

(* run() adds a handler to clientJobs before it executes it, and the handler *)
(* removes itself as the last thing it does: whatever the listener thread    *)
(* and the workers do in between, every handler that was executed and has    *)
(* not ended is on record, and no handler that has ended is.                 *)
RegisteredWhileServed ==
    /\ Executed \subseteq clientJobs
    /\ clientJobs \subseteq Executed \cup {current}

(* close() shuts the pool down before it iterates over clientJobs.  Once it *)
(* has its iterator there is no handler, queued or serving, that it will not *)
(* have closed, although the listener thread still runs.                     *)
SnapshotComplete ==
    cpc \in {"handlers", "await", "join", "done"} =>
        \A c \in Clients : handler[c] \in {"queued", "serving"} => c \in todo \/ ~open[c]

(* After close() the port is free again, however its steps interleaved with *)
(* the listener thread, unless close() ran before that thread was first      *)
(* through isRunning() (then the socket may be opened afterwards, or may not *)
(* have been seen, and nobody closes it).                                    *)
PortReleased == cpc = "done" /\ published => ~listening

(* No client is accepted once the socket has been closed, nor ever by a *)
(* listener that was closed before it started.                          *)
NoLateClient ==
    [][\A c \in Clients : handler[c] = "none" /\ handler'[c] # "none"
                             => running \/ cpc = "socket"]_vars

(* The loop of run() throws by itself only if it is closed or crowded:      *)
(* accept() and isRunning() race only with close(), and execute() rejects a *)
(* handler only after PoolSize workers were started and the queue is full.  *)
(* While the service has not closed the listener, whatever else ends the    *)
(* process is init(), before the loop (~published), or a handler that threw. *)
AcceptLoopSurvives ==
    crashed /\ running /\ published /\ (\A c \in Clients : handler[c] # "threw") =>
        Cardinality({c \in Clients : handler[c] # "none"}) > PoolSize + QueueSize

(* close() and the join() after it return, and every handler that was      *)
(* executed ends, whatever the clients do: the time-outs of accept() and   *)
(* awaitTermination() and the closed sockets leave nobody waiting for ever. *)
CloseCompletes == ~running ~> crashed \/ (cpc = "done" /\ Executed = {})

(* A client that disconnects in an orderly way frees its worker, whoever   *)
(* else is connected.                                                      *)
DisconnectFreesWorker ==
    \A c \in Clients :
        (handler[c] = "serving" /\ peer[c] = "eof") ~> (crashed \/ handler[c] = "done")

=============================================================================

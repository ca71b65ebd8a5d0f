------------------------- MODULE LetosListenerProofs -------------------------
(* Proofs about LetosListener, for any number of clients, any pool and any *)
(* queue.                                                                  *)
EXTENDS LetosListener, FiniteSetTheorems, SequenceTheorems, TLAPS

(* The strengthening that makes the properties inductive.                  *)

(* The phases of close(): running is cleared first, and the pool is shut   *)
(* down before the snapshot is taken; it is passed over only by a close()  *)
(* that came before the listener was published.                            *)
CloserInv ==
    /\ running <=> cpc = Idle
    /\ cpc \in {"snapshot", "handlers", "await"} => shutdown
    /\ published /\ cpc \in {"join", "done"} => shutdown

(* The listener is published before it accepts anybody. *)
PublishedInv ==
    /\ lpc \in {"check", "accept", "blocked", "register", "submit"} => poolReady
    /\ lpc \in {"accept", "blocked", "register", "submit"} => published
    /\ published => poolReady /\ lpc \notin {"create", "bind", "timeout", "fields"}
    /\ ~published => \A c \in Clients : handler[c] = "none"

(* A published socket is found by close(). *)
SocketInv ==
    /\ listening => serverSocket
    /\ published /\ cpc \notin {"idle", "socket"} => ~listening

(* The client that is being accepted, and the record of the others. *)
JobInv ==
    /\ lpc \in {"register", "submit"} => current \in Clients /\ handler[current] = "accepted"
    /\ lpc \notin {"register", "submit", "ended"} => current = None
    /\ lpc = "submit" => current \in clientJobs
    /\ lpc \notin {"submit", "ended"} => clientJobs \subseteq Executed
    /\ RegisteredWhileServed

(* The queue holds every queued handler once. *)
QueueInv ==
    /\ \A k \in 1 .. Len(jobsQueue) : handler[jobsQueue[k]] = "queued"
    /\ \A j, k \in 1 .. Len(jobsQueue) : jobsQueue[j] = jobsQueue[k] => j = k

IInv ==
    /\ TypeOK
    /\ CloserInv /\ PublishedInv /\ SocketInv
    /\ JobInv /\ QueueInv
    /\ SnapshotComplete

LEMMA InitIInv == Init => IInv
<1> SUFFICES ASSUME Init PROVE IInv
  OBVIOUS
<1> USE ListenerAssumption DEF Init
<1>1. Executed = {}
  BY DEF Executed, AtWork
<1>2. TypeOK
  <2>1. {running, serverSocket, listening, published, poolReady, shutdown, crashed} \subseteq BOOLEAN
    OBVIOUS
  <2>2. jobsQueue \in Seq(Clients) /\ Len(jobsQueue) <= QueueSize /\ workers \in 0 .. PoolSize
    OBVIOUS
  <2>3. /\ handler \in [Clients -> {"none", "accepted", "queued", "serving", "cleaning", "done", "threw"}]
        /\ open \in [Clients -> BOOLEAN]
        /\ peer \in [Clients -> {"up", "eof", "reset"}]
    OBVIOUS
  <2> QED BY <2>1, <2>2, <2>3 DEF TypeOK, ListenerSteps, ClosePhases, Idle
<1>3. CloserInv /\ PublishedInv /\ SocketInv
  BY DEF CloserInv, PublishedInv, SocketInv, Idle
<1>4. JobInv
  BY <1>1 DEF JobInv, RegisteredWhileServed
<1>5. QueueInv /\ SnapshotComplete
  BY DEF QueueInv, SnapshotComplete, Idle
<1> QED BY <1>2, <1>3, <1>4, <1>5 DEF IInv

-----------------------------------------------------------------------------
(* The listener thread until it accepts: nothing about handlers changes.   *)

LEMMA SetUpKeeps ==
  ASSUME IInv, CreateSocket \/ Bind \/ SetTimeout \/ StoreFields \/ CallAccept \/ AcceptFails
  PROVE  IInv'
<1> USE ListenerAssumption DEF IInv, Goto, SocketGone, Bound, listenerVars, socketVars, poolVars,
        jobVars, closeVars
<1>1. UNCHANGED <<published, shutdown, workers, jobsQueue, jobVars, closeVars, current>>
  BY DEF CreateSocket, Bind, SetTimeout, StoreFields, CallAccept, AcceptFails
<1>2. TypeOK'
  BY <1>1 DEF TypeOK, ListenerSteps, CreateSocket, Bind, SetTimeout, StoreFields, CallAccept, AcceptFails
<1>3. CloserInv'
  BY <1>1 DEF CloserInv
<1>4. PublishedInv'
  BY <1>1 DEF PublishedInv, CreateSocket, Bind, SetTimeout, StoreFields, CallAccept, AcceptFails
<1>5. SocketInv'
  <2>1. CASE CreateSocket
    <3>1. ~published /\ UNCHANGED published
      BY <1>1, <2>1 DEF PublishedInv, CreateSocket
    <3>2. listening' => serverSocket'
      BY <2>1 DEF SocketInv, CreateSocket
    <3> QED BY <3>1, <3>2 DEF SocketInv
  <2>2. CASE Bind
    BY <1>1, <2>2 DEF SocketInv, PublishedInv, Bind
  <2>3. CASE SetTimeout \/ StoreFields \/ CallAccept \/ AcceptFails
    BY <1>1, <2>3 DEF SocketInv, SetTimeout, StoreFields, CallAccept, AcceptFails
  <2> QED BY <2>1, <2>2, <2>3
<1>6. JobInv'
  BY <1>1 DEF JobInv, RegisteredWhileServed, Executed, AtWork,
     CreateSocket, Bind, SetTimeout, StoreFields, CallAccept, AcceptFails
<1>7. QueueInv' /\ SnapshotComplete'
  BY <1>1 DEF QueueInv, SnapshotComplete
<1> QED BY <1>2, <1>3, <1>4, <1>5, <1>6, <1>7

LEMMA CheckRunningKeeps ==
  ASSUME IInv, CheckRunning
  PROVE  IInv'
<1> USE ListenerAssumption DEF IInv, Goto, CheckRunning, MonitorFree, listenerVars, socketVars,
        poolVars, jobVars, closeVars
<1>1. TypeOK'
  BY DEF TypeOK, ListenerSteps
<1>2. CloserInv' /\ PublishedInv' /\ SocketInv'
  BY DEF CloserInv, PublishedInv, SocketInv, Idle, TypeOK
<1>3. JobInv'
  BY DEF JobInv, RegisteredWhileServed, Executed, AtWork
<1>4. QueueInv' /\ SnapshotComplete'
  BY DEF QueueInv, SnapshotComplete
<1> QED BY <1>1, <1>2, <1>3, <1>4

LEMMA AcceptKeeps ==
  ASSUME IInv, NEW c \in Clients, Accept(c)
  PROVE  IInv'
<1> USE ListenerAssumption DEF IInv, Accept, socketVars, poolVars, closeVars
<1>1. TypeOK'
  BY DEF TypeOK, ListenerSteps
<1>2. CloserInv' /\ PublishedInv' /\ SocketInv'
  BY DEF CloserInv, PublishedInv, SocketInv, TypeOK
<1>3. \A d \in Clients : handler'[d] = IF d = c THEN "accepted" ELSE handler[d]
  BY DEF TypeOK
<1>4. Executed' = Executed
  BY <1>3 DEF Executed, AtWork
<1>5. JobInv'
  BY <1>3, <1>4 DEF JobInv, RegisteredWhileServed
<1>6. QueueInv'
  BY <1>3 DEF QueueInv, TypeOK
<1>7. SnapshotComplete'
  BY <1>3 DEF SnapshotComplete
<1> QED BY <1>1, <1>2, <1>5, <1>6, <1>7

LEMMA RegisterKeeps ==
  ASSUME IInv, Register
  PROVE  IInv'
<1> USE ListenerAssumption DEF IInv, Register, Goto, socketVars, poolVars, closeVars
<1>1. TypeOK'
  BY DEF TypeOK, ListenerSteps, JobInv
<1>2. CloserInv' /\ PublishedInv' /\ SocketInv'
  BY DEF CloserInv, PublishedInv, SocketInv, TypeOK
<1>3. JobInv'
  BY DEF JobInv, RegisteredWhileServed, Executed, AtWork
<1>4. QueueInv' /\ SnapshotComplete'
  BY DEF QueueInv, SnapshotComplete
<1> QED BY <1>1, <1>2, <1>3, <1>4

(* execute(): the handler is on record already, and a pool that is shut    *)
(* down takes nobody.                                                      *)
LEMMA SubmitKeeps ==
  ASSUME IInv, Submit
  PROVE  IInv'
<1> USE ListenerAssumption DEF IInv, Submit, Goto, socketVars, closeVars
<1>0. current \in Clients /\ handler[current] = "accepted" /\ current \in clientJobs /\ published
      /\ lpc = "submit"
  BY DEF JobInv, PublishedInv
<1>1. CASE shutdown \/ (~PoolHasRoom /\ ~QueueHasRoom)
  <2>1. UNCHANGED <<published, poolVars, jobVars, socketVars, closeVars, current>> /\ lpc' = "ended"
        /\ crashed' = TRUE
    BY <1>1 DEF poolVars, jobVars
  <2>2. TypeOK'
    BY <2>1 DEF TypeOK, ListenerSteps, poolVars, jobVars
  <2>3. CloserInv' /\ PublishedInv' /\ SocketInv'
    BY <2>1 DEF CloserInv, PublishedInv, SocketInv, poolVars, jobVars
  <2>4. JobInv' /\ QueueInv' /\ SnapshotComplete'
    BY <2>1 DEF JobInv, QueueInv, SnapshotComplete, RegisteredWhileServed, Executed, AtWork, poolVars,
       jobVars
  <2> QED BY <2>2, <2>3, <2>4
<1>2. CASE ~shutdown /\ PoolHasRoom
  <2>1. /\ workers' = workers + 1
        /\ handler' = [handler EXCEPT ![current] = "serving"]
        /\ lpc' = "check" /\ current' = None
        /\ UNCHANGED <<jobsQueue, crashed, published, poolReady, shutdown, clientJobs, open, peer,
                       serverSocket, listening, running, cpc, todo>>
    BY <1>2
  <2>2. TypeOK'
    BY <1>0, <1>2, <2>1 DEF TypeOK, ListenerSteps, PoolHasRoom
  <2>3. CloserInv' /\ PublishedInv' /\ SocketInv'
    BY <1>0, <2>1 DEF CloserInv, PublishedInv, SocketInv
  <2>4. \A d \in Clients : handler'[d] = IF d = current THEN "serving" ELSE handler[d]
    BY <2>1 DEF TypeOK
  <2>5. Executed' = Executed \cup {current}
    BY <1>0, <2>4 DEF Executed, AtWork
  <2>6. JobInv'
    BY <1>0, <2>1, <2>5 DEF JobInv, RegisteredWhileServed
  <2>7. QueueInv'
    BY <1>0, <2>1, <2>4 DEF QueueInv, TypeOK
  <2>8. SnapshotComplete'
    BY <1>0, <1>2, <2>1 DEF SnapshotComplete, CloserInv
  <2> QED BY <2>2, <2>3, <2>6, <2>7, <2>8
<1>3. CASE ~shutdown /\ ~PoolHasRoom /\ QueueHasRoom
  <2>1. /\ jobsQueue' = Append(jobsQueue, current)
        /\ handler' = [handler EXCEPT ![current] = "queued"]
        /\ lpc' = "check" /\ current' = None
        /\ UNCHANGED <<workers, crashed, published, poolReady, shutdown, clientJobs, open, peer,
                       serverSocket, listening, running, cpc, todo>>
    BY <1>3
  <2>2. TypeOK'
    BY <1>0, <1>3, <2>1 DEF TypeOK, ListenerSteps, QueueHasRoom
  <2>3. CloserInv' /\ PublishedInv' /\ SocketInv'
    BY <1>0, <2>1 DEF CloserInv, PublishedInv, SocketInv
  <2>4. \A d \in Clients : handler'[d] = IF d = current THEN "queued" ELSE handler[d]
    BY <2>1 DEF TypeOK
  <2>5. Executed' = Executed \cup {current}
    BY <1>0, <2>4 DEF Executed, AtWork
  <2>6. JobInv'
    BY <1>0, <2>1, <2>5 DEF JobInv, RegisteredWhileServed
  <2>7. QueueInv'
    <3>1. /\ Len(jobsQueue') = Len(jobsQueue) + 1
          /\ \A k \in 1 .. Len(jobsQueue') :
                jobsQueue'[k] = IF k = Len(jobsQueue) + 1 THEN current ELSE jobsQueue[k]
      BY <1>0, <2>1 DEF TypeOK
    <3>2. \A k \in 1 .. Len(jobsQueue) : jobsQueue[k] \in Clients /\ jobsQueue[k] # current
      BY <1>0 DEF QueueInv, TypeOK
    <3>3. \A k \in 1 .. Len(jobsQueue') :
             k = Len(jobsQueue) + 1 \/ (k \in 1 .. Len(jobsQueue) /\ k # Len(jobsQueue) + 1)
      BY <3>1 DEF TypeOK
    <3>4. \A k \in 1 .. Len(jobsQueue') : handler'[jobsQueue'[k]] = "queued"
      BY <1>0, <2>4, <3>1, <3>2, <3>3 DEF QueueInv
    <3>5. \A j, k \in 1 .. Len(jobsQueue') : jobsQueue'[j] = jobsQueue'[k] => j = k
      BY <3>1, <3>2, <3>3 DEF QueueInv
    <3> QED BY <3>4, <3>5 DEF QueueInv
  <2>8. SnapshotComplete'
    BY <1>0, <1>3, <2>1 DEF SnapshotComplete, CloserInv
  <2> QED BY <2>2, <2>3, <2>6, <2>7, <2>8
<1> QED BY <1>1, <1>2, <1>3

-----------------------------------------------------------------------------
(* The workers and the clients.                                            *)

LEMMA TakeQueuedKeeps ==
  ASSUME IInv, TakeQueued
  PROVE  IInv'
<1> USE ListenerAssumption DEF IInv, TakeQueued, listenerVars, socketVars, closeVars
<1> DEFINE h == Head(jobsQueue)
<1>1. /\ h \in Clients /\ handler[h] = "queued" /\ h = jobsQueue[1]
      /\ Len(jobsQueue') = Len(jobsQueue) - 1 /\ jobsQueue' \in Seq(Clients)
      /\ \A k \in 1 .. Len(jobsQueue') : jobsQueue'[k] = jobsQueue[k + 1]
  BY DEF TypeOK, QueueInv
<1>2. handler' = [handler EXCEPT ![h] = "serving"]
  OBVIOUS
<1> HIDE DEF h
<1>3. TypeOK'
  BY <1>1, <1>2 DEF TypeOK
<1>4. \A d \in Clients : handler'[d] = IF d = h THEN "serving" ELSE handler[d]
  BY <1>2 DEF TypeOK
<1>5. Executed' = Executed
  BY <1>1, <1>4 DEF Executed, AtWork
<1>6. CloserInv' /\ PublishedInv' /\ SocketInv'
  BY <1>1, <1>4 DEF CloserInv, PublishedInv, SocketInv
<1>7. JobInv'
  BY <1>1, <1>4, <1>5 DEF JobInv, RegisteredWhileServed
<1>8. QueueInv'
  <2>1. \A k \in 1 .. Len(jobsQueue') :
            k + 1 \in 1 .. Len(jobsQueue) /\ jobsQueue[k + 1] \in Clients /\ jobsQueue[k + 1] # h
    BY <1>1 DEF QueueInv, TypeOK
  <2> QED BY <1>1, <1>4, <2>1 DEF QueueInv, TypeOK
<1>9. SnapshotComplete'
  BY <1>1, <1>4 DEF SnapshotComplete
<1> QED BY <1>3, <1>6, <1>7, <1>8, <1>9

LEMMA WorkerKeeps ==
  ASSUME IInv, NEW c \in Clients, Worker(c)
  PROVE  IInv'
<1> USE ListenerAssumption DEF IInv, listenerVars, socketVars, poolVars, closeVars
<1>1. PICK state \in {"cleaning", "done"} : handler' = [handler EXCEPT ![c] = state]
  BY DEF Worker, LeaveLoop, Deny, CleanUp, HandlerStep
<1>2. /\ handler[c] \in {"serving", "cleaning"}
      /\ clientJobs' = IF state = "done" THEN clientJobs \ {c} ELSE clientJobs
      /\ UNCHANGED <<listenerVars, socketVars, published, poolVars, peer, closeVars, crashed>>
  BY <1>1 DEF Worker, LeaveLoop, Deny, CleanUp, HandlerStep, TypeOK
<1>3. \A d \in Clients : handler'[d] = IF d = c THEN state ELSE handler[d]
  BY <1>1 DEF TypeOK
<1>4. open' \in [Clients -> BOOLEAN] /\ \A d \in Clients : open'[d] => open[d]
  BY DEF Worker, LeaveLoop, Deny, CleanUp, HandlerStep, TypeOK
<1>5. TypeOK'
  BY <1>1, <1>2, <1>4 DEF TypeOK
<1>6. CloserInv' /\ PublishedInv' /\ SocketInv'
  BY <1>2, <1>3 DEF CloserInv, PublishedInv, SocketInv
<1>7. Executed' = IF state = "done" THEN Executed \ {c} ELSE Executed
  BY <1>2, <1>3 DEF Executed, AtWork
<1>8. JobInv'
  BY <1>2, <1>3, <1>7 DEF JobInv, RegisteredWhileServed
<1>9. QueueInv'
  BY <1>2, <1>3 DEF QueueInv, TypeOK
<1>10. SnapshotComplete'
  BY <1>2, <1>3, <1>4 DEF SnapshotComplete
<1> QED BY <1>5, <1>6, <1>8, <1>9, <1>10

LEMMA HandlerThrowsKeeps ==
  ASSUME IInv, NEW c \in Clients, HandlerThrows(c)
  PROVE  IInv'
<1> USE DEF IInv, HandlerThrows, listenerVars, socketVars, poolVars, closeVars
<1>1. handler[c] = "serving" /\ \A d \in Clients : handler'[d] = IF d = c THEN "threw" ELSE handler[d]
  BY DEF TypeOK
<1>2. TypeOK'
  BY DEF TypeOK
<1>3. CloserInv' /\ PublishedInv' /\ SocketInv' /\ SnapshotComplete'
  BY <1>1 DEF CloserInv, PublishedInv, SocketInv, SnapshotComplete
<1>4. Executed' = Executed
  BY <1>1 DEF Executed, AtWork
<1>5. JobInv'
  BY <1>1, <1>4 DEF JobInv, RegisteredWhileServed
<1>6. QueueInv'
  BY <1>1 DEF QueueInv, TypeOK
<1> QED BY <1>2, <1>3, <1>5, <1>6

LEMMA PeerGoesKeeps ==
  ASSUME IInv, NEW c \in Clients, PeerGoes(c)
  PROVE  IInv'
<1> USE DEF IInv, PeerGoes, listenerVars, socketVars, poolVars, closeVars
<1>1. TypeOK'
  BY DEF TypeOK
<1>2. CloserInv' /\ PublishedInv' /\ SocketInv' /\ QueueInv' /\ SnapshotComplete'
  BY DEF CloserInv, PublishedInv, SocketInv, QueueInv, SnapshotComplete
<1>3. JobInv'
  BY DEF JobInv, RegisteredWhileServed, Executed, AtWork
<1> QED BY <1>1, <1>2, <1>3

-----------------------------------------------------------------------------
(* close().                                                                *)

LEMMA CloseStepsKeep ==
  ASSUME IInv, StartClose \/ ShutdownPool \/ Await \/ Join
  PROVE  IInv'
<1> USE DEF IInv
<1>1. /\ UNCHANGED <<lpc, current, serverSocket, listening, published, poolReady, workers, jobsQueue>>
      /\ UNCHANGED <<clientJobs, handler, open, peer, todo, crashed>>
  BY DEF StartClose, ShutdownPool, Await, Join, listenerVars, socketVars, poolVars, jobVars
<1>2. TypeOK'
  <2>1. cpc' \in ClosePhases /\ running' \in BOOLEAN
    BY DEF StartClose, ShutdownPool, Await, Join, TypeOK, ClosePhases
  <2>2. shutdown' \in BOOLEAN
    BY DEF StartClose, ShutdownPool, Await, Join, TypeOK, poolVars, Seen
  <2> QED BY <1>1, <2>1, <2>2 DEF TypeOK
<1>3. CloserInv'
  <2>1. CASE StartClose
    BY <1>1, <2>1 DEF CloserInv, StartClose, Idle, poolVars
  <2>2. CASE ShutdownPool
    <3>1. PICK seen \in Seen(poolReady) :
             shutdown' = seen /\ cpc' = (IF seen THEN "snapshot" ELSE "join")
      BY <2>2 DEF ShutdownPool
    <3>2. seen \in BOOLEAN /\ (published => seen)
      BY <3>1 DEF Seen, PublishedInv, TypeOK
    <3>3. cpc = "pool" /\ ~running /\ ~running'
      BY <2>2 DEF ShutdownPool, CloserInv, Idle
    <3> QED BY <1>1, <3>1, <3>2, <3>3 DEF CloserInv, Idle
  <2>3. CASE Await \/ Join
    BY <1>1, <2>3 DEF CloserInv, Await, Join, Idle, poolVars
  <2> QED BY <2>1, <2>2, <2>3
<1>4. PublishedInv'
  BY <1>1 DEF PublishedInv
<1>5. SocketInv'
  BY <1>1 DEF SocketInv, StartClose, ShutdownPool, Await, Join, Idle
<1>6. JobInv' /\ QueueInv'
  BY <1>1 DEF JobInv, QueueInv, RegisteredWhileServed, Executed, AtWork
<1>7. SnapshotComplete'
  <2>1. CASE StartClose \/ Await \/ Join
    BY <1>1, <2>1 DEF SnapshotComplete, StartClose, Await, Join
  <2>2. CASE ShutdownPool /\ published
    BY <1>1, <2>2 DEF SnapshotComplete, ShutdownPool, PublishedInv, Seen
  <2>3. CASE ShutdownPool /\ ~published
    BY <1>1, <2>3 DEF SnapshotComplete, PublishedInv
  <2> QED BY <2>1, <2>2, <2>3
<1> QED BY <1>2, <1>3, <1>4, <1>5, <1>6, <1>7

LEMMA CloseSocketKeeps ==
  ASSUME IInv, CloseSocket
  PROVE  IInv'
<1> USE DEF IInv, CloseSocket
<1>1. /\ UNCHANGED <<lpc, current, published, poolReady, shutdown, workers, jobsQueue, running>>
      /\ UNCHANGED <<clientJobs, handler, open, peer, todo, crashed>>
      /\ cpc = "socket" /\ cpc' = "pool"
  BY DEF listenerVars, poolVars, jobVars
<1>2. PICK seen \in Seen(serverSocket) :
         serverSocket' = (serverSocket /\ ~seen) /\ listening' = (listening /\ ~seen)
  OBVIOUS
<1>3. serverSocket \in BOOLEAN /\ listening \in BOOLEAN /\ seen \in BOOLEAN
  BY DEF TypeOK, Seen
<1>4. serverSocket' \in BOOLEAN /\ listening' \in BOOLEAN
  BY <1>2, <1>3
<1>5. TypeOK'
  BY <1>1, <1>4 DEF TypeOK, ClosePhases
<1>6. CloserInv' /\ PublishedInv'
  BY <1>1 DEF CloserInv, PublishedInv, Idle
<1>7. SocketInv'
  <2>1. listening' => serverSocket'
    BY <1>2, <1>3 DEF SocketInv
  <2>2. published => ~listening'
    BY <1>2, <1>3 DEF SocketInv, Seen
  <2> QED BY <1>1, <2>1, <2>2 DEF SocketInv
<1>8. JobInv' /\ QueueInv' /\ SnapshotComplete'
  BY <1>1 DEF JobInv, QueueInv, SnapshotComplete, RegisteredWhileServed, Executed, AtWork
<1> QED BY <1>5, <1>6, <1>7, <1>8

(* The snapshot holds every handler that is on record, and all that were   *)
(* executed are; later steps only close what they take out of it.          *)
LEMMA ClosingHandlersKeeps ==
  ASSUME IInv, StartClosingHandlers \/ CloseHandler
  PROVE  IInv'
<1> USE DEF IInv
<1>1. /\ UNCHANGED <<lpc, current, serverSocket, listening, published, poolReady, shutdown, workers>>
      /\ UNCHANGED <<jobsQueue, clientJobs, handler, peer, running, crashed>>
  BY DEF StartClosingHandlers, CloseHandler, listenerVars, socketVars, poolVars, jobVars
<1>2. /\ cpc \in {"snapshot", "handlers"} /\ cpc' \in {"handlers", "await"}
      /\ todo' \subseteq Clients /\ open' \in [Clients -> BOOLEAN]
  BY DEF StartClosingHandlers, CloseHandler, TypeOK, jobVars
<1>3. TypeOK'
  BY <1>1, <1>2 DEF TypeOK, ClosePhases
<1>4. CloserInv' /\ PublishedInv' /\ SocketInv'
  BY <1>1, <1>2 DEF CloserInv, PublishedInv, SocketInv, Idle
<1>5. JobInv' /\ QueueInv'
  BY <1>1 DEF JobInv, QueueInv, RegisteredWhileServed, Executed, AtWork
<1>6. SnapshotComplete'
  <2>1. CASE StartClosingHandlers
    BY <1>1, <2>1 DEF StartClosingHandlers, SnapshotComplete, JobInv, RegisteredWhileServed, Executed,
       AtWork
  <2>2. CASE CloseHandler /\ todo = {}
    BY <1>1, <2>2 DEF CloseHandler, SnapshotComplete
  <2>3. CASE CloseHandler /\ todo # {}
    <3>1. PICK c \in todo : open' = [open EXCEPT ![c] = FALSE] /\ todo' = todo \ {c} /\ cpc = "handlers"
      BY <2>3 DEF CloseHandler
    <3> QED BY <1>1, <3>1 DEF SnapshotComplete, TypeOK
  <2> QED BY <2>1, <2>2, <2>3
<1> QED BY <1>3, <1>4, <1>5, <1>6

-----------------------------------------------------------------------------
(* The theorems.                                                           *)

LEMMA NextKeeps == IInv /\ [Next]_vars => IInv'
<1> SUFFICES ASSUME IInv, [Next]_vars PROVE IInv'
  OBVIOUS
<1>1. CASE ListenerThread
  BY <1>1, SetUpKeeps, CheckRunningKeeps, AcceptKeeps, RegisterKeeps, SubmitKeeps DEF ListenerThread
<1>2. CASE TakeQueued
  BY <1>2, TakeQueuedKeeps
<1>3. CASE \E c \in Clients : Worker(c) \/ HandlerThrows(c) \/ PeerGoes(c)
  BY <1>3, WorkerKeeps, HandlerThrowsKeeps, PeerGoesKeeps
<1>4. CASE StartClose \/ Closer
  BY <1>4, CloseStepsKeep, CloseSocketKeeps, ClosingHandlersKeeps DEF Closer
<1>5. CASE UNCHANGED vars
  BY <1>5 DEF vars, listenerVars, socketVars, poolVars, jobVars, closeVars, IInv, TypeOK, CloserInv,
     PublishedInv, SocketInv, JobInv, QueueInv, SnapshotComplete, RegisteredWhileServed, Executed, AtWork
<1> QED BY <1>1, <1>2, <1>3, <1>4, <1>5 DEF Next, Finished

(* The inductive invariant holds in every state. *)
THEOREM InvariantHolds == Spec => []IInv
<1>1. Init => IInv
  BY InitIInv
<1>2. IInv /\ [Next]_vars => IInv'
  BY NextKeeps
<1> QED BY <1>1, <1>2, PTL DEF Spec

(* Every variable keeps the type of the field or thread it stands for. *)
THEOREM TypeCorrect == Spec => []TypeOK
<1>1. IInv => TypeOK
  BY DEF IInv
<1> QED BY <1>1, InvariantHolds, PTL

(* clientJobs is what it is used for: the handlers that were executed and  *)
(* have not ended, and at most the one being accepted.                     *)
THEOREM RecordIsExact == Spec => []RegisteredWhileServed
<1>1. IInv => RegisteredWhileServed
  BY DEF IInv, JobInv
<1> QED BY <1>1, InvariantHolds, PTL

(* close() closes every handler that was executed, however its steps and   *)
(* the listener thread's interleave.                                       *)
THEOREM CloseMissesNobody == Spec => []SnapshotComplete
<1>1. IInv => SnapshotComplete
  BY DEF IInv
<1> QED BY <1>1, InvariantHolds, PTL

(* The port is free after close(), but for a close() before publication. *)
THEOREM PortIsReleased == Spec => []PortReleased
<1>1. IInv => PortReleased
  BY DEF IInv, SocketInv, PortReleased
<1> QED BY <1>1, InvariantHolds, PTL

(* No client is accepted after the socket was closed. *)
THEOREM NobodyComesLate == Spec => NoLateClient
<1>1. IInv /\ [Next]_vars =>
        [\A c \in Clients : handler[c] = "none" /\ handler'[c] # "none" => running \/ cpc = "socket"]_vars
  <2> SUFFICES ASSUME IInv, Next, NEW c \in Clients, handler[c] = "none", handler'[c] # "none"
               PROVE  running \/ cpc = "socket"
    BY DEF vars
  <2>1. \E d \in Clients : Accept(d)
    <3>1. ASSUME TakeQueued PROVE FALSE
      BY <3>1 DEF TakeQueued, IInv, QueueInv, TypeOK
    <3>2. ASSUME Submit PROVE FALSE
      BY <3>2 DEF Submit, IInv, JobInv, TypeOK
    <3>3. ASSUME NEW d \in Clients, Worker(d) \/ HandlerThrows(d) PROVE FALSE
      BY <3>3 DEF HandlerThrows, Worker, LeaveLoop, Deny, CleanUp, HandlerStep, IInv, TypeOK
    <3>4. ASSUME UNCHANGED handler PROVE FALSE
      BY <3>4
    <3> QED BY <3>1, <3>2, <3>3, <3>4
        DEF Next, ListenerThread, CreateSocket, Bind, SetTimeout, StoreFields, CheckRunning, CallAccept,
            AcceptFails, Register, PeerGoes, StartClose, Closer, CloseSocket, ShutdownPool,
            StartClosingHandlers, CloseHandler, Await, Join, Finished, jobVars, vars
  <2> QED BY <2>1 DEF Accept, IInv, PublishedInv, SocketInv, CloserInv, Idle
<1> QED BY <1>1, InvariantHolds, PTL DEF Spec, NoLateClient

-----------------------------------------------------------------------------
(* Clients counted against workers.                                        *)

Taken == {c \in Clients : handler[c] \notin {"none", "accepted"}}

(* Every worker was started for a client and every place in the queue is   *)
(* taken by one more: a worker that is through with its client takes the   *)
(* next from the queue and never another.                                  *)
CrowdInv ==
    /\ shutdown => ~running
    /\ running /\ lpc \notin {"create", "ended"} => serverSocket
    /\ workers + Len(jobsQueue) <= Cardinality(Taken)
    /\ AcceptLoopSurvives

LEMMA ClientsAreFinite ==
  ASSUME NEW S \in SUBSET Clients
  PROVE  IsFiniteSet(S) /\ Cardinality(S) \in Nat
<1>1. IsFiniteSet(S)
  BY ListenerAssumption, FS_Subset
<1> QED BY <1>1, FS_CardinalityType

LEMMA InitCrowd == Init => CrowdInv
<1> SUFFICES ASSUME Init PROVE CrowdInv
  OBVIOUS
<1>1. Cardinality(Taken) \in Nat
  BY ClientsAreFinite DEF Taken
<1> QED BY <1>1 DEF Init, CrowdInv, AcceptLoopSurvives

LEMMA SubmitCrowd == ASSUME IInv, CrowdInv, ~crashed, Submit PROVE CrowdInv'
<1> USE ListenerAssumption DEF IInv, TypeOK
<1>1. current \in Clients /\ handler[current] = "accepted" /\ lpc = "submit"
  BY DEF JobInv, Submit
<1>2. Taken \in SUBSET Clients /\ current \notin Taken /\ Cardinality(Taken) \in Nat
      /\ Cardinality(Taken \cup {current}) = Cardinality(Taken) + 1
  BY <1>1, ClientsAreFinite, FS_AddElement DEF Taken
<1>3. UNCHANGED <<shutdown, running, serverSocket>> /\ Len(jobsQueue) \in Nat
  BY LenProperties DEF Submit, socketVars, closeVars
<1>4. CASE ~shutdown /\ (PoolHasRoom \/ QueueHasRoom) /\ UNCHANGED crashed
           /\ \E state \in {"serving", "queued"} : handler' = [handler EXCEPT ![current] = state]
  <2>1. Taken' = Taken \cup {current}
    BY <1>1, <1>4 DEF Taken
  <2>2. workers' + Len(jobsQueue') = workers + Len(jobsQueue) + 1
    <3>1. CASE workers' = workers + 1 /\ UNCHANGED jobsQueue
      BY <1>3, <3>1
    <3>2. CASE jobsQueue' = Append(jobsQueue, current) /\ UNCHANGED workers
      BY <1>1, <1>3, <3>2, AppendProperties
    <3> QED BY <1>4, <3>1, <3>2 DEF Submit
  <2>3. lpc' = "check" /\ ~crashed'
    BY <1>4 DEF Submit
  <2> QED BY <1>1, <1>2, <1>3, <2>1, <2>2, <2>3 DEF CrowdInv, AcceptLoopSurvives
<1>5. CASE shutdown \/ (~PoolHasRoom /\ ~QueueHasRoom)
  <2>1. UNCHANGED <<workers, jobsQueue, handler>> /\ lpc' = "ended"
    BY <1>5 DEF Submit, Goto
  <2>2. running => workers >= PoolSize /\ Len(jobsQueue) >= QueueSize
    BY <1>3, <1>5 DEF CrowdInv, PoolHasRoom, QueueHasRoom
  <2> DEFINE Known == {c \in Clients : handler[c] # "none"}
  <2>3. Known \in SUBSET Clients /\ Taken \cup {current} \in SUBSET Known
    BY <1>1 DEF Taken
  <2>4. Cardinality(Taken \cup {current}) <= Cardinality(Known) /\ Cardinality(Known) \in Nat
    <3> HIDE DEF Known
    <3> QED BY <2>3, ClientsAreFinite, FS_Subset
  <2>5. running => Cardinality(Known) > PoolSize + QueueSize
    <3> HIDE DEF Known
    <3> QED BY <1>2, <1>3, <2>2, <2>4 DEF CrowdInv
  <2>6. AcceptLoopSurvives'
    BY <1>3, <2>1, <2>5 DEF AcceptLoopSurvives
  <2>7. Taken' = Taken
    BY <2>1 DEF Taken
  <2> QED BY <1>3, <2>1, <2>6, <2>7 DEF CrowdInv
<1> QED BY <1>4, <1>5 DEF Submit

(* Steps that leave the workers and the queue alone.                       *)
LEMMA CrowdFrame ==
  ASSUME IInv, CrowdInv, UNCHANGED <<workers, jobsQueue>>,
         shutdown' => ~running', running' /\ lpc' \notin {"create", "ended"} => serverSocket',
         Taken' = Taken,
         crashed' /\ running' /\ published' => \E c \in Clients : handler'[c] = "threw"
  PROVE  CrowdInv'
  BY DEF CrowdInv, AcceptLoopSurvives

LEMMA SetUpCrowd ==
  ASSUME IInv, CrowdInv, ~crashed,
         \/ CreateSocket \/ Bind \/ SetTimeout \/ StoreFields
         \/ CheckRunning \/ CallAccept \/ AcceptFails \/ Register
         \/ \E c \in Clients : Accept(c)
  PROVE  CrowdInv'
<1> USE DEF IInv, TypeOK, listenerVars, socketVars, poolVars, jobVars, closeVars
<1>1. UNCHANGED <<workers, jobsQueue, shutdown, running>>
  BY DEF CreateSocket, Bind, SetTimeout, StoreFields, CheckRunning, CallAccept, AcceptFails, Register, Accept
<1>2. running /\ lpc' \notin {"create", "ended"} => serverSocket'
  <2>1. CASE CreateSocket
    <3>1. \/ serverSocket' = TRUE
          \/ listening' = TRUE /\ serverSocket' = listening'
          \/ lpc' = "ended"
      BY <2>1 DEF CreateSocket, Goto, Bound
    <3> QED BY <3>1
  <2>2. CASE Bind \/ SetTimeout
    BY <2>2 DEF CrowdInv, Bind, SetTimeout, Goto, Bound, SocketGone
  <2>3. CASE CallAccept
    BY <2>3 DEF CrowdInv, CallAccept, Goto, SocketGone
  <2>4. CASE StoreFields \/ CheckRunning \/ AcceptFails \/ Register
    BY <2>4 DEF CrowdInv, StoreFields, CheckRunning, AcceptFails, Register, Goto
  <2>5. CASE \E c \in Clients : Accept(c)
    BY <2>5 DEF CrowdInv, Accept
  <2> QED BY <2>1, <2>2, <2>3, <2>4, <2>5
<1>3. Taken' = Taken
  <2>1. CASE UNCHANGED handler
    BY <2>1 DEF Taken
  <2>2. ASSUME NEW c \in Clients, Accept(c) PROVE Taken' = Taken
    BY <2>2 DEF Accept, Taken
  <2> QED
    BY <2>1, <2>2 DEF CreateSocket, Bind, SetTimeout, StoreFields, CheckRunning, CallAccept, AcceptFails,
                      Register
<1>4. crashed' /\ running => ~published'
  <2>1. CASE StoreFields
    BY <2>1 DEF StoreFields, PublishedInv
  <2>2. CASE ~StoreFields
    BY <2>2 DEF CrowdInv, SocketGone,
           CreateSocket, Bind, SetTimeout, CheckRunning, CallAccept, AcceptFails, Register, Accept
  <2> QED BY <2>1, <2>2
<1> QED BY <1>1, <1>2, <1>3, <1>4, CrowdFrame DEF CrowdInv

LEMMA OthersCrowd ==
  ASSUME IInv, CrowdInv, ~crashed,
         \/ TakeQueued \/ StartClose \/ Closer
         \/ \E c \in Clients : Worker(c) \/ HandlerThrows(c) \/ PeerGoes(c)
  PROVE  CrowdInv'
<1> USE DEF IInv, TypeOK, listenerVars, socketVars, poolVars, jobVars, closeVars
<1>1. CASE TakeQueued
  <2>1. Head(jobsQueue) \in Clients /\ handler[Head(jobsQueue)] = "queued"
        /\ Len(jobsQueue') = Len(jobsQueue) - 1 /\ Len(jobsQueue) \in Nat
    <3>1. Len(jobsQueue) \in Nat /\ Len(jobsQueue) # 0
      BY <1>1, EmptySeq, LenProperties DEF TakeQueued
    <3>2. 1 \in 1 .. Len(jobsQueue) /\ Head(jobsQueue) = jobsQueue[1]
      BY <3>1
    <3> QED BY <1>1, <3>1, <3>2, HeadTailProperties, ElementOfSeq DEF TakeQueued, QueueInv
  <2>2. Taken' = Taken
    BY <1>1, <2>1 DEF TakeQueued, Taken
  <2>3. Cardinality(Taken) \in Nat
    BY ClientsAreFinite DEF Taken
  <2>4. UNCHANGED <<workers, shutdown, running, lpc, serverSocket, crashed>> /\ workers \in Nat
    BY <1>1, ListenerAssumption DEF TakeQueued
  <2> QED BY <2>1, <2>2, <2>3, <2>4 DEF CrowdInv, AcceptLoopSurvives
<1>2. ASSUME NEW c \in Clients, Worker(c) \/ PeerGoes(c) PROVE CrowdInv'
  <2>1. UNCHANGED <<workers, jobsQueue, shutdown, running, lpc, serverSocket, crashed>>
    BY <1>2 DEF Worker, LeaveLoop, Deny, CleanUp, HandlerStep, PeerGoes
  <2>2. Taken' = Taken
    BY <1>2 DEF Worker, LeaveLoop, Deny, CleanUp, HandlerStep, PeerGoes, Taken
  <2> QED BY <2>1, <2>2, CrowdFrame DEF CrowdInv
<1>4. ASSUME NEW c \in Clients, HandlerThrows(c) PROVE CrowdInv'
  <2>1. UNCHANGED <<workers, jobsQueue, shutdown, running, lpc, serverSocket>> /\ handler'[c] = "threw"
    BY <1>4 DEF HandlerThrows
  <2>2. Taken' = Taken
    BY <1>4 DEF HandlerThrows, Taken
  <2> QED BY <2>1, <2>2, CrowdFrame DEF CrowdInv
<1>3. CASE StartClose \/ Closer
  <2>1. UNCHANGED <<workers, jobsQueue, handler, crashed>> /\ ~running'
    BY <1>3 DEF StartClose, Closer, CloseSocket, ShutdownPool, StartClosingHandlers, CloseHandler, Await,
                Join, CloserInv, Idle
  <2>2. Taken' = Taken
    BY <2>1 DEF Taken
  <2> QED BY <2>1, <2>2, CrowdFrame
<1> QED BY <1>1, <1>2, <1>3, <1>4

(* While the service has not closed the listener, the loop of run() throws  *)
(* only when there are more clients than the workers and the queue can      *)
(* take: whatever the clients do, execute() rejects none of the first ones, *)
(* and no call of the listener thread finds its socket gone.  Exceptions    *)
(* of init() and of the handlers' own threads are not the loop's.           *)
THEOREM LoopCrashIsEarned == Spec => []AcceptLoopSurvives
<1>1. CrowdInv => AcceptLoopSurvives
  BY DEF CrowdInv
<1>2. IInv /\ CrowdInv /\ [Next]_vars => CrowdInv'
  <2> SUFFICES ASSUME IInv, CrowdInv, [Next]_vars PROVE CrowdInv'
    OBVIOUS
  <2>1. CASE UNCHANGED vars
    BY <2>1 DEF vars, listenerVars, socketVars, poolVars, jobVars, closeVars, CrowdInv, Taken,
                AcceptLoopSurvives
  <2> QED BY <2>1, SubmitCrowd, SetUpCrowd, OthersCrowd DEF Next, ListenerThread, Finished
<1> QED BY <1>1, <1>2, InitCrowd, InvariantHolds, PTL DEF Spec

-----------------------------------------------------------------------------
(* How many steps the listener's thread has left once running is cleared,  *)
(* and close() and join() after it, at most.                               *)
ListenerLeft ==
    CASE lpc = "create" -> 9 [] lpc = "bind" -> 8 [] lpc = "timeout" -> 7 [] lpc = "fields" -> 6
      [] lpc = "accept" -> 5 [] lpc = "blocked" -> 4 [] lpc = "register" -> 3
      [] lpc = "submit" -> 2 [] lpc = "check" -> 1 [] OTHER -> 0

CloserLeft ==
    CASE cpc = "socket" -> Cardinality(Clients) + 6 [] cpc = "pool" -> Cardinality(Clients) + 5
      [] cpc = "snapshot" -> Cardinality(Clients) + 4 [] cpc = "handlers" -> Cardinality(todo) + 3
      [] cpc = "await" -> 2 [] cpc = "join" -> 1 [] OTHER -> 0

CloseIsBounded ==
    [][~running => /\ ~running'
                   /\ ListenerLeft' <= ListenerLeft /\ CloserLeft' <= CloserLeft
                   /\ ListenerThread => ListenerLeft' < ListenerLeft
                   /\ Closer => CloserLeft' < CloserLeft]_vars

(* A handler goes from one of these to a later one, whatever happens to it. *)
Stage(state) ==
    CASE state = "none" -> 0 [] state = "accepted" -> 1 [] state = "queued" -> 2
      [] state = "serving" -> 3 [] state = "cleaning" -> 4 [] OTHER -> 5

HandlersGoOn == [][\A c \in Clients : handler'[c] # handler[c] => Stage(handler'[c]) > Stage(handler[c])]_vars

(* What a handler needs to go on is there: a queued one is in the queue of  *)
(* a pool all of whose workers were started, no more of them at work than   *)
(* there are, and after close() each that serves a client has been closed.  *)
NobodyIsLeft ==
    /\ \A c \in Clients : handler[c] = "queued" => \E k \in 1 .. Len(jobsQueue) : jobsQueue[k] = c
    /\ jobsQueue # <<>> => workers = PoolSize
    /\ Cardinality(AtWork) <= workers
    /\ cpc = "done" => /\ lpc = "ended"
                       /\ \A c \in Clients : handler[c] = "serving" => ~open[c]

(* What of it has to be carried from step to step.                         *)
LeftInv ==
    /\ \A c \in Clients : handler[c] = "queued" => \E k \in 1 .. Len(jobsQueue) : jobsQueue[k] = c
    /\ jobsQueue # <<>> => workers = PoolSize
    /\ Cardinality(AtWork) <= workers
    /\ cpc = "done" => lpc = "ended"
    /\ cpc # "handlers" => todo = {}

LEMMA InitLeft == Init => LeftInv
<1> SUFFICES ASSUME Init PROVE LeftInv
  OBVIOUS
<1>1. AtWork = {}
  BY DEF Init, AtWork
<1>2. Cardinality(AtWork) = 0
  BY <1>1, FS_EmptySet
<1> QED BY <1>2 DEF Init, LeftInv, Idle

(* A step that does not put anybody to work or into the queue.             *)
LEMMA LeftFrame ==
  ASSUME IInv, LeftInv, UNCHANGED <<jobsQueue, workers>>,
         \A c \in Clients : handler'[c] \in {"queued", "serving", "cleaning", "threw"} => handler[c] = handler'[c]
                              \/ (handler[c] = "serving" /\ handler'[c] \in {"cleaning", "threw"}),
         cpc' = "done" => lpc' = "ended", cpc' # "handlers" => todo' = {}
  PROVE  LeftInv'
<1>1. AtWork' \in SUBSET AtWork /\ AtWork \in SUBSET Clients
  BY DEF AtWork
<1>2. Cardinality(AtWork') <= Cardinality(AtWork) /\ Cardinality(AtWork') \in Nat
      /\ Cardinality(AtWork) \in Nat /\ workers \in Nat
  BY <1>1, ClientsAreFinite, FS_Subset, ListenerAssumption DEF IInv, TypeOK
<1>3. \A c \in Clients : handler'[c] = "queued" => \E k \in 1 .. Len(jobsQueue) : jobsQueue[k] = c
  BY DEF LeftInv
<1> QED BY <1>2, <1>3 DEF LeftInv

(* A step that puts client c to work, with n workers.                      *)
LEMMA OneMoreAtWork ==
  ASSUME IInv, LeftInv, NEW c \in Clients, handler[c] \notin {"serving", "cleaning", "threw"},
         handler' = [handler EXCEPT ![c] = "serving"], Cardinality(AtWork) + 1 <= workers'
  PROVE  Cardinality(AtWork') <= workers'
<1>1. AtWork' = AtWork \cup {c} /\ c \notin AtWork /\ AtWork \in SUBSET Clients
  BY DEF AtWork, IInv, TypeOK
<1>2. IsFiniteSet(AtWork)
  BY <1>1, ClientsAreFinite
<1>3. Cardinality(AtWork') = Cardinality(AtWork) + 1
  BY <1>1, <1>2, FS_AddElement
<1> QED BY <1>3

LEMMA SubmitLeft == ASSUME IInv, LeftInv, Submit PROVE LeftInv'
<1> USE DEF IInv, TypeOK
<1>1. current \in Clients /\ handler[current] = "accepted" /\ UNCHANGED <<cpc, todo>>
      /\ lpc = "submit" /\ cpc # "done"
  BY DEF JobInv, Submit, closeVars, LeftInv
<1>2. jobsQueue \in Seq(Clients) /\ workers \in Nat /\ PoolSize \in Nat /\ Cardinality(AtWork) \in Nat
      /\ workers <= PoolSize
  BY ListenerAssumption, ClientsAreFinite DEF AtWork
<1>3. CASE ~shutdown /\ PoolHasRoom /\ workers' = workers + 1 /\ UNCHANGED jobsQueue
           /\ handler' = [handler EXCEPT ![current] = "serving"]
  <2>1. jobsQueue = <<>>
    BY <1>2, <1>3 DEF LeftInv, PoolHasRoom
  <2>2. Cardinality(AtWork') <= workers'
    <3>1. Cardinality(AtWork) + 1 <= workers'
      BY <1>2, <1>3 DEF LeftInv
    <3> QED BY <1>1, <1>3, <3>1, OneMoreAtWork
  <2>3. \A c \in Clients : handler'[c] # "queued"
    BY <1>1, <1>3, <2>1 DEF LeftInv
  <2> QED BY <1>1, <1>3, <2>1, <2>2, <2>3 DEF LeftInv
<1>4. CASE ~shutdown /\ ~PoolHasRoom /\ jobsQueue' = Append(jobsQueue, current) /\ UNCHANGED workers
           /\ handler' = [handler EXCEPT ![current] = "queued"]
  <2>1. workers = PoolSize
    BY <1>2, <1>4 DEF PoolHasRoom
  <2>2. AtWork' = AtWork
    BY <1>1, <1>4 DEF AtWork
  <2>3. Len(jobsQueue') = Len(jobsQueue) + 1 /\ jobsQueue'[Len(jobsQueue) + 1] = current
        /\ Len(jobsQueue) \in Nat /\ \A k \in 1 .. Len(jobsQueue) : jobsQueue'[k] = jobsQueue[k]
    BY <1>1, <1>2, <1>4
  <2>4. ASSUME NEW c \in Clients, handler'[c] = "queued"
        PROVE  \E k \in 1 .. Len(jobsQueue') : jobsQueue'[k] = c
    <3>1. CASE c = current
      BY <2>3, <3>1
    <3>2. CASE c # current
      <4>1. handler[c] = "queued"
        BY <1>4, <2>4, <3>2
      <4>2. PICK k \in 1 .. Len(jobsQueue) : jobsQueue[k] = c
        BY <4>1 DEF LeftInv
      <4> QED BY <2>3, <4>2
    <3> QED BY <3>1, <3>2
  <2> QED BY <1>1, <1>4, <2>1, <2>2, <2>4 DEF LeftInv
<1>5. CASE (shutdown \/ (~PoolHasRoom /\ ~QueueHasRoom)) /\ UNCHANGED <<workers, jobsQueue, handler>>
  BY <1>1, <1>5, LeftFrame DEF LeftInv
<1> QED BY <1>3, <1>4, <1>5 DEF Submit

LEMMA TakeQueuedLeft == ASSUME IInv, LeftInv, TakeQueued PROVE LeftInv'
<1> USE DEF IInv, TypeOK
<1>1. jobsQueue \in Seq(Clients) /\ jobsQueue # <<>> /\ jobsQueue' = Tail(jobsQueue)
      /\ UNCHANGED <<workers, cpc, todo, lpc>>
      /\ workers \in Nat /\ Cardinality(AtWork) \in Nat
  BY ListenerAssumption, ClientsAreFinite DEF AtWork, TakeQueued, closeVars, listenerVars
<1> DEFINE c == Head(jobsQueue)
<1>2. c \in Clients /\ c = jobsQueue[1] /\ Len(jobsQueue) \in Nat /\ 1 \in 1 .. Len(jobsQueue)
      /\ Len(jobsQueue') = Len(jobsQueue) - 1
      /\ \A k \in 2 .. Len(jobsQueue) : jobsQueue'[k - 1] = jobsQueue[k] /\ k - 1 \in 1 .. Len(jobsQueue')
  BY <1>1
<1>3. handler[c] = "queued" /\ handler' = [handler EXCEPT ![c] = "serving"]
  BY <1>2 DEF QueueInv, TakeQueued
<1> HIDE DEF c
<1>4. Cardinality(AtWork') <= workers'
  <2>1. Cardinality(AtWork) + 1 <= workers'
    BY <1>1 DEF TakeQueued, IdleWorkers
  <2> QED BY <1>2, <1>3, <2>1, OneMoreAtWork
<1>5. ASSUME NEW d \in Clients, handler'[d] = "queued"
      PROVE  \E k \in 1 .. Len(jobsQueue') : jobsQueue'[k] = d
  <2>1. handler[d] = "queued" /\ d # c
    BY <1>2, <1>3, <1>5
  <2>2. PICK k \in 1 .. Len(jobsQueue) : jobsQueue[k] = d
    BY <2>1 DEF LeftInv
  <2>3. k \in 2 .. Len(jobsQueue)
    BY <1>2, <2>1, <2>2
  <2> QED BY <1>2, <2>2, <2>3
<1> QED BY <1>1, <1>4, <1>5 DEF LeftInv

LEMMA NextLeft == ASSUME IInv, LeftInv, [Next]_vars PROVE LeftInv'
<1> USE DEF IInv, TypeOK, listenerVars, socketVars, poolVars, jobVars, closeVars
<1>1. CASE \/ CreateSocket \/ Bind \/ SetTimeout \/ StoreFields
           \/ CheckRunning \/ CallAccept \/ AcceptFails \/ Register
           \/ \E c \in Clients : Accept(c)
  <2>1. UNCHANGED <<jobsQueue, workers, cpc, todo>> /\ lpc # "ended"
    BY <1>1
    DEF CreateSocket, Bind, SetTimeout, StoreFields, CheckRunning, CallAccept, AcceptFails, Register, Accept
  <2>2. \A d \in Clients : handler'[d] = handler[d] \/ handler'[d] = "accepted"
    BY <1>1
    DEF CreateSocket, Bind, SetTimeout, StoreFields, CheckRunning, CallAccept, AcceptFails, Register, Accept
  <2> QED BY <2>1, <2>2, LeftFrame DEF LeftInv
<1>2. CASE Submit
  BY <1>2, SubmitLeft
<1>3. CASE TakeQueued
  BY <1>3, TakeQueuedLeft
<1>4. ASSUME NEW c \in Clients, Worker(c) \/ HandlerThrows(c) \/ PeerGoes(c) PROVE LeftInv'
  <2>1. UNCHANGED <<jobsQueue, workers, cpc, todo, lpc>>
    BY <1>4 DEF Worker, LeaveLoop, Deny, CleanUp, HandlerStep, HandlerThrows, PeerGoes
  <2>2. \A d \in Clients :
            \/ handler'[d] = handler[d]
            \/ handler[d] = "serving" /\ handler'[d] \in {"cleaning", "threw"}
            \/ handler'[d] = "done"
    <3>1. CASE LeaveLoop(c) \/ Deny(c)
      BY <3>1 DEF LeaveLoop, Deny, HandlerStep
    <3>2. CASE CleanUp(c)
      BY <3>2 DEF CleanUp, HandlerStep
    <3>3. CASE PeerGoes(c)
      BY <3>3 DEF PeerGoes
    <3>4. CASE HandlerThrows(c)
      BY <3>4 DEF HandlerThrows
    <3> QED BY <1>4, <3>1, <3>2, <3>3, <3>4 DEF Worker
  <2> QED BY <2>1, <2>2, LeftFrame DEF LeftInv
<1>5. CASE StartClose \/ Closer
  <2>1. UNCHANGED <<jobsQueue, workers, handler, lpc>>
    BY <1>5
    DEF StartClose, Closer, CloseSocket, ShutdownPool, StartClosingHandlers, CloseHandler, Await, Join
  <2>2. (cpc' = "done" => lpc' = "ended") /\ (cpc' # "handlers" => todo' = {})
    BY <1>5
    DEF StartClose, Closer, CloseSocket, ShutdownPool, StartClosingHandlers, CloseHandler, Await, Join,
        LeftInv, Idle
  <2> QED BY <2>1, <2>2, LeftFrame
<1>6. CASE UNCHANGED vars
  BY <1>6, LeftFrame DEF vars, LeftInv
<1> QED BY <1>1, <1>2, <1>3, <1>4, <1>5, <1>6 DEF Next, ListenerThread, Finished

(* A handler in the executor's queue is left there by nobody: the queue has *)
(* waiting handlers only when all workers of the pool were started, and no  *)
(* more of them are at work than were.  And close() ends with the           *)
(* listener's thread ended and every client that is still served cut off,   *)
(* whichever handlers had been accepted, queued or started meanwhile (run   *)
(* and close of LetosListener.java, execute of the pool's executor).        *)
THEOREM NobodyIsLeftBehind == Spec => []NobodyIsLeft
<1>1. IInv /\ LeftInv => NobodyIsLeft
  BY DEF IInv, SnapshotComplete, LeftInv, NobodyIsLeft
<1>2. IInv /\ LeftInv /\ [Next]_vars => LeftInv'
  BY NextLeft
<1> QED BY <1>1, <1>2, InitLeft, InvariantHolds, PTL DEF Spec

-----------------------------------------------------------------------------
(* One case for each action that changes the stage of a handler. *)
LEMMA Advance ==
  ASSUME IInv, [Next]_vars, NEW c \in Clients, handler'[c] # handler[c]
  PROVE  Stage(handler'[c]) > Stage(handler[c])
<1> USE DEF IInv, TypeOK, Stage
<1>1. CASE \E d \in Clients : Accept(d)
  BY <1>1 DEF Accept
<1>2. CASE Submit
  BY <1>2 DEF Submit, JobInv
<1>3. CASE TakeQueued
  <2>1. handler[Head(jobsQueue)] = "queued"
    <3>1. Head(jobsQueue) = jobsQueue[1] /\ 1 \in 1 .. Len(jobsQueue)
      BY <1>3 DEF TakeQueued
    <3> QED BY <3>1 DEF QueueInv
  <2> QED BY <1>3, <2>1 DEF TakeQueued
<1>4. CASE \E d \in Clients : Worker(d) \/ HandlerThrows(d)
  BY <1>4 DEF Worker, LeaveLoop, Deny, CleanUp, HandlerStep, HandlerThrows
<1>5. ~CreateSocket /\ ~Bind /\ ~SetTimeout /\ ~StoreFields /\ ~CheckRunning /\ ~CallAccept
      /\ ~AcceptFails /\ ~Register /\ ~StartClose /\ ~Closer /\ ~Finished /\ ~UNCHANGED vars
      /\ \A d \in Clients : ~PeerGoes(d)
  BY DEF CreateSocket, Bind, SetTimeout, StoreFields, CheckRunning, CallAccept, AcceptFails, Register,
         StartClose, Closer, CloseSocket, ShutdownPool, StartClosingHandlers, CloseHandler, Await, Join,
         Finished, PeerGoes, vars, jobVars
<1> QED BY <1>1, <1>2, <1>3, <1>4, <1>5 DEF Next, ListenerThread

(* A handler only ever goes on: accepted, queued, serving, cleaning up,     *)
(* ended.  No step of the listener, of close() or of a client runs one twice *)
(* or puts it back into the queue, so that the workers have a bounded       *)
(* number of things to do (LetosListener.java, the executor).               *)
THEOREM HandlersAdvance == Spec => HandlersGoOn
<1>1. IInv /\ [Next]_vars =>
          [\A c \in Clients : handler'[c] # handler[c] => Stage(handler'[c]) > Stage(handler[c])]_vars
  BY Advance
<1> QED BY <1>1, InvariantHolds, PTL DEF Spec, HandlersGoOn

-----------------------------------------------------------------------------
LEMMA ListenerRuns ==
  ASSUME IInv, ~running, ListenerThread
  PROVE  ListenerLeft' \in Nat /\ ListenerLeft' < ListenerLeft /\ UNCHANGED <<running, cpc, todo>>
<1> USE DEF ListenerLeft, closeVars
<1>1. CASE CreateSocket
  <2>1. lpc = "create" /\ lpc' \in {"bind", "timeout", "ended"} /\ UNCHANGED <<running, cpc, todo>>
    <3>1. Goto("bind") \/ Bound
      BY <1>1 DEF CreateSocket
    <3>2. lpc' \in {"bind", "timeout", "ended"}
      BY <3>1 DEF Bound, Goto
    <3> QED BY <1>1, <3>2 DEF CreateSocket
  <2> QED BY <2>1
<1>5. CASE Bind
  BY <1>5 DEF Bind, Bound, Goto, SocketGone
<1>6. CASE SetTimeout \/ StoreFields
  BY <1>6 DEF SetTimeout, StoreFields, Goto, SocketGone
<1>2. CASE CheckRunning \/ CallAccept \/ AcceptFails
  BY <1>2 DEF CheckRunning, CallAccept, AcceptFails, Goto, SocketGone
<1>3. CASE Register \/ Submit \/ \E c \in Clients : Accept(c)
  BY <1>3 DEF Register, Submit, Accept, Goto
<1> QED BY <1>1, <1>2, <1>3, <1>5, <1>6 DEF ListenerThread

LEMMA CloserRuns ==
  ASSUME IInv, ~running, Closer
  PROVE  CloserLeft' \in Nat /\ CloserLeft' < CloserLeft /\ UNCHANGED <<running, lpc>>
<1> USE DEF CloserLeft, listenerVars
<1>0. Cardinality(Clients) \in Nat /\ IsFiniteSet(todo) /\ Cardinality(todo) \in Nat
  BY ClientsAreFinite DEF IInv, TypeOK
<1>1. CASE CloseSocket \/ ShutdownPool
  BY <1>0, <1>1 DEF CloseSocket, ShutdownPool
<1>2. CASE StartClosingHandlers
  <2>1. todo' \in SUBSET Clients
    BY <1>2 DEF StartClosingHandlers, IInv, TypeOK
  <2>2. Cardinality(todo') <= Cardinality(Clients) /\ Cardinality(todo') \in Nat
    BY <2>1, ClientsAreFinite, FS_Subset
  <2> QED BY <1>0, <1>2, <2>2 DEF StartClosingHandlers
<1>3. CASE CloseHandler
  <2>0. UNCHANGED <<running, lpc>>
    BY <1>3 DEF CloseHandler
  <2>1. CASE cpc' = "await"
    BY <1>0, <1>3, <2>1 DEF CloseHandler
  <2>2. ASSUME NEW c \in todo, todo' = todo \ {c} PROVE Cardinality(todo') < Cardinality(todo)
    <3>1. Cardinality(todo \ {c}) = Cardinality(todo) - 1
      BY <1>0, FS_RemoveElement
    <3> QED BY <1>0, <2>2, <3>1
  <2>3. CASE UNCHANGED cpc
    <3>1. Cardinality(todo') < Cardinality(todo) /\ cpc = "handlers"
      BY <1>3, <2>2, <2>3 DEF CloseHandler
    <3>2. todo' \in SUBSET Clients
      BY <1>3 DEF CloseHandler, IInv, TypeOK
    <3>3. Cardinality(todo') \in Nat
      BY <3>2, ClientsAreFinite
    <3> QED BY <1>0, <2>0, <2>3, <3>1, <3>3
  <2> QED BY <1>3, <2>1, <2>3 DEF CloseHandler
<1>4. CASE Await \/ Join
  BY <1>4 DEF Await, Join
<1> QED BY <1>1, <1>2, <1>3, <1>4 DEF Closer

(* The two threads leave what the other has left as it is, and every other  *)
(* step leaves both.                                                        *)
LEMMA ClosingStep ==
  ASSUME IInv, ~running, [Next]_vars
  PROVE  /\ ~running'
         /\ ListenerLeft' <= ListenerLeft /\ CloserLeft' <= CloserLeft
         /\ ListenerThread => ListenerLeft' < ListenerLeft
         /\ Closer => CloserLeft' < CloserLeft
<1>1. ListenerLeft \in Nat /\ CloserLeft \in Nat
  <2>1. Cardinality(Clients) \in Nat /\ Cardinality(todo) \in Nat
    BY ClientsAreFinite DEF IInv, TypeOK
  <2> QED BY <2>1 DEF ListenerLeft, CloserLeft
<1>2. CASE UNCHANGED <<running, lpc, cpc, todo>>
  <2>1. ListenerLeft' = ListenerLeft /\ CloserLeft' = CloserLeft
    BY <1>2 DEF ListenerLeft, CloserLeft
  <2>2. ~ListenerThread /\ ~Closer
    BY <1>1, <2>1, ListenerRuns, CloserRuns
  <2> QED BY <1>1, <1>2, <2>1, <2>2
<1>3. CASE ListenerThread
  <2>1. CloserLeft' = CloserLeft
    BY <1>3, ListenerRuns DEF CloserLeft
  <2>2. ~Closer
    BY <1>1, <2>1, CloserRuns
  <2> QED BY <1>1, <1>3, <2>1, <2>2, ListenerRuns
<1>4. CASE Closer
  <2>1. ListenerLeft' = ListenerLeft
    BY <1>4, CloserRuns DEF ListenerLeft
  <2>2. ~ListenerThread
    BY <1>1, <2>1, ListenerRuns
  <2> QED BY <1>1, <1>4, <2>1, <2>2, CloserRuns
<1>5. CASE TakeQueued \/ \E c \in Clients : Worker(c) \/ HandlerThrows(c) \/ PeerGoes(c)
  BY <1>2, <1>5
  DEF TakeQueued, Worker, LeaveLoop, Deny, CleanUp, HandlerStep, HandlerThrows, PeerGoes, listenerVars, closeVars
<1>6. ~StartClose
  BY DEF StartClose, IInv, CloserInv
<1>7. CASE Finished \/ UNCHANGED vars
  BY <1>2, <1>7 DEF Finished, vars, listenerVars, closeVars
<1> QED BY <1>3, <1>4, <1>5, <1>6, <1>7 DEF Next

(* Once close() has cleared running, nothing sets it again, the listener's  *)
(* thread and close() itself each have a bounded number of steps left, each *)
(* step uses one of them up and no step of anybody else gives one back:     *)
(* accept(), the copy of the handlers, awaitTermination() and join() can    *)
(* hold the closer up, and no loop of the two threads can (run and close of *)
(* LetosListener.java).                                                     *)
THEOREM ClosesInBoundedSteps == Spec => CloseIsBounded
<1>1. IInv /\ [Next]_vars =>
          [~running => /\ ~running'
                       /\ ListenerLeft' <= ListenerLeft /\ CloserLeft' <= CloserLeft
                       /\ ListenerThread => ListenerLeft' < ListenerLeft
                       /\ Closer => CloserLeft' < CloserLeft]_vars
  BY ClosingStep
<1> QED BY <1>1, InvariantHolds, PTL DEF Spec, CloseIsBounded

=============================================================================

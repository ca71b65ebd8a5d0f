--------------------------- MODULE ConnectionPool ---------------------------
(***************************************************************************)
(* SQLiteConnectionPool: connections lent to sessions, one monitor (mLock) *)
(* around every operation, and a priority queue of waiters served by       *)
(* wakeConnectionWaitersLocked while the monitor is held.                  *)
(*                                                                         *)
(* Each action is one critical section of mLock, except that the loop of   *)
(* wakeConnectionWaitersLocked takes one step (WakeStep) per waiter: while *)
(* scan # NoScan the monitor is held and only unlocked steps interleave.   *)
(* A wake-up is always the last thing a critical section does.             *)
(*                                                                         *)
(* A connection is an identity of Connections, taken again once the object *)
(* it stood for is closed.  kind[c] = "closed" means no native handle.     *)
(* The acquired connections (mAcquiredConnections) are the c with          *)
(* status[c] # "none".                                                     *)
(***************************************************************************)
EXTENDS Naturals, SequencesExt

CONSTANTS
    Threads,        \* threads of the process that use the database
    Connections,    \* bound on the connections open at one time
    Waiters,        \* ConnectionWaiter objects
    None,           \* null
    JournalModes,   \* is write-ahead logging on when the pool is opened
    WALPoolSize,    \* SQLiteGlobal.getWALConnectionPoolSize()
    Requests,       \* the flags of the acquisitions: [wantPrimary, priority]
    Cancellable,    \* threads that pass a CancellationSignal
    Leaky,          \* threads that may end while they hold a connection
    Reconfigurations,   \* the kinds of reconfiguration that happen
    MaxNonce        \* bound on the reuses of one ConnectionWaiter object

ASSUME PoolAssumption ==
    /\ None \notin Connections \cup Waiters \cup Threads
    /\ IsFiniteSet(Connections) /\ Connections # {} /\ Requests # {}
    /\ JournalModes \subseteq BOOLEAN
    /\ WALPoolSize \in Nat \ {0}
    /\ Requests \subseteq [wantPrimary : BOOLEAN, priority : {0, 1}]
    /\ Reconfigurations \subseteq {"inPlace", "openFlags", "wal"}
    /\ MaxNonce \in Nat

VARIABLES
    isOpen,                 \* mIsOpen
    wal,                    \* ENABLE_WRITE_AHEAD_LOGGING in mConfiguration
    availablePrimary,       \* mAvailablePrimaryConnection
    availableNonPrimary,    \* mAvailableNonPrimaryConnections
    kind,                   \* is the connection open, and as what
    status,                 \* its AcquiredConnectionStatus, or "none"
    stale,                  \* open connections not yet given the pool's configuration
    leaked,                 \* mConnectionLeaked
    scan,                   \* where wakeConnectionWaitersLocked is, or NoScan
    queue,                  \* mConnectionWaiterQueue
    waiterPool,             \* mConnectionWaiterPool
    request, assigned, exception, nonce,    \* fields of ConnectionWaiter
    pc, holds, myWaiter, myNonce,           \* frames of waitForConnection
    signal,                 \* the thread's CancellationSignal
    npe                     \* cancelConnectionWaiterLocked dereferenced null

poolVars == <<isOpen, wal, availablePrimary, availableNonPrimary, kind, status, stale>>
fieldVars == <<request, nonce>>
threadVars == <<pc, holds, myWaiter, myNonce, signal>>
vars == <<poolVars, leaked, scan, queue, waiterPool, fieldVars, assigned,
          exception, threadVars, npe>>

Kinds == {"closed", "primary", "nonPrimary"}
Statuses == {"none", "NORMAL", "RECONFIGURE", "DISCARD"}
NoScan == [at |-> 0, noPrimary |-> FALSE, noNonPrimary |-> FALSE]
LockFree == scan = NoScan
NoRequest == CHOOSE r \in Requests : TRUE

Acquired == {c \in Connections : status[c] # "none"}
Available == availableNonPrimary \cup ({availablePrimary} \ {None})
MaxConnectionPoolSize == IF wal THEN WALPoolSize ELSE 1

(* A connection object the process has room for; None when there is none,  *)
(* and then opening one throws, as it may at any time.                     *)
FreshConnection ==
    IF \E c \in Connections : kind[c] = "closed"
    THEN CHOOSE c \in Connections : kind[c] = "closed" ELSE None

Open(c, k) == kind' = [kind EXCEPT ![c] = k]

ClosedAll(S) == [c \in Connections |-> IF c \in S THEN "closed" ELSE kind[c]]

Init ==
    /\ isOpen = TRUE
    /\ wal \in JournalModes
    /\ availablePrimary = CHOOSE c \in Connections : TRUE
    /\ availableNonPrimary = {}
    /\ kind = [c \in Connections |-> IF c = availablePrimary THEN "primary" ELSE "closed"]
    /\ status = [c \in Connections |-> "none"]
    /\ stale = {}
    /\ leaked = FALSE
    /\ scan = NoScan
    /\ queue = <<>>
    /\ waiterPool = <<>>
    /\ request = [w \in Waiters |-> NoRequest]
    /\ assigned = [w \in Waiters |-> None]
    /\ exception = [w \in Waiters |-> "none"]
    /\ nonce = [w \in Waiters |-> 0]
    /\ pc = [t \in Threads |-> "idle"]
    /\ holds = [t \in Threads |-> None]
    /\ myWaiter = [t \in Threads |-> None]
    /\ myNonce = [t \in Threads |-> 0]
    /\ signal = [t \in Threads |-> "none"]
    /\ npe = FALSE

-----------------------------------------------------------------------------
(* Taking a connection out of the pool. *)

CanTakeNonPrimary ==
    \/ availableNonPrimary # {}
    \/ Cardinality(Acquired) + (IF availablePrimary # None THEN 1 ELSE 0)
         < MaxConnectionPoolSize

CanTakePrimary ==
    \/ availablePrimary # None
    \/ \A c \in Acquired : kind[c] # "primary"

TakeNonPrimary(c) ==
    /\ CanTakeNonPrimary
    /\ \/ c \in availableNonPrimary /\ UNCHANGED kind
       \/ availableNonPrimary = {} /\ c = FreshConnection /\ c # None /\ Open(c, "nonPrimary")
    /\ availableNonPrimary' = availableNonPrimary \ {c}
    /\ status' = [status EXCEPT ![c] = "NORMAL"]
    /\ UNCHANGED availablePrimary

TakePrimary_StillAvailable(c) ==
    /\ CanTakePrimary
    /\ \/ c = availablePrimary /\ c # None /\ UNCHANGED kind
       \/ availablePrimary = None /\ c = FreshConnection /\ c # None /\ Open(c, "primary")
    /\ status' = [status EXCEPT ![c] = "NORMAL"]
    /\ UNCHANGED <<availablePrimary, availableNonPrimary>>
TakePrimary(c) ==
    /\ CanTakePrimary
    /\ \/ c = availablePrimary /\ c # None /\ UNCHANGED kind
       \/ availablePrimary = None /\ c = FreshConnection /\ c # None /\ Open(c, "primary")
    /\ availablePrimary' = None
    /\ status' = [status EXCEPT ![c] = "NORMAL"]
    /\ UNCHANGED availableNonPrimary

(* The non-primary connection is tried first (unless the request wants the *)
(* primary one or this scan has already failed to find one), then the      *)
(* primary.                                                                *)
TryTake(c, tryNonPrimary, tryPrimary) ==
    \/ tryNonPrimary /\ TakeNonPrimary(c)
    \/ ~(tryNonPrimary /\ CanTakeNonPrimary) /\ tryPrimary /\ TakePrimary(c)

Grantable(tryNonPrimary, tryPrimary) ==
    \/ tryNonPrimary /\ CanTakeNonPrimary
    \/ tryPrimary /\ CanTakePrimary

-----------------------------------------------------------------------------
(* wakeConnectionWaitersLocked *)

StartScan(q) == scan' = IF q = <<>> THEN NoScan ELSE [NoScan EXCEPT !.at = 1]

ContinueScan_OnlyOne(q, next) == scan' = NoScan
ContinueScan(q, next) == scan' = IF next.at > Len(q) THEN NoScan ELSE next

(* One iteration of the loop, for the waiter w the scan has reached.       *)
WakeStep ==
    /\ ~LockFree
    /\ LET w == queue[scan.at]
           tryNonPrimary == ~request[w].wantPrimary /\ ~scan.noNonPrimary
           tryPrimary == ~scan.noPrimary
           rest == RemoveAt(queue, scan.at)
           missed == [at |-> scan.at + 1,
                      noNonPrimary |-> scan.noNonPrimary \/ tryNonPrimary,
                      noPrimary |-> TRUE]
       IN  \/ /\ ~isOpen
              /\ queue' = rest /\ ContinueScan(rest, scan)
              /\ UNCHANGED <<poolVars, assigned, exception>>
           \/ /\ isOpen
              /\ \E c \in Connections :
                    TryTake(c, tryNonPrimary, tryPrimary) /\ assigned' = [assigned EXCEPT ![w] = c]
              /\ queue' = rest
              /\ ContinueScan(rest, [scan EXCEPT !.noNonPrimary =
                                        @ \/ (tryNonPrimary /\ ~CanTakeNonPrimary)])
              /\ UNCHANGED <<isOpen, wal, stale, exception>>
           \/ /\ isOpen                        \* opening the connection threw
              /\ Grantable(tryNonPrimary, tryPrimary)
              /\ IF tryNonPrimary /\ CanTakeNonPrimary
                 THEN availableNonPrimary = {} ELSE availablePrimary = None
              /\ exception' = [exception EXCEPT ![w] = "failed"]
              /\ queue' = rest
              /\ ContinueScan(rest, [scan EXCEPT !.noNonPrimary =
                                        @ \/ (tryNonPrimary /\ ~CanTakeNonPrimary)])
              /\ UNCHANGED <<poolVars, assigned>>
           \/ /\ isOpen
              /\ ~Grantable(tryNonPrimary, tryPrimary)
              /\ IF missed.noNonPrimary THEN scan' = NoScan ELSE ContinueScan(queue, missed)
              /\ UNCHANGED <<poolVars, queue, assigned, exception>>
    /\ UNCHANGED <<leaked, waiterPool, fieldVars, threadVars, npe>>

-----------------------------------------------------------------------------
(* acquireConnection / waitForConnection *)

(* First critical section, a connection can be taken at once.              *)
AcquireNow(t) ==
    /\ LockFree /\ isOpen /\ pc[t] = "idle"
    /\ \E r \in Requests, c \in Connections :
          /\ TryTake(c, ~r.wantPrimary, TRUE)
          /\ holds' = [holds EXCEPT ![t] = c]
    /\ pc' = [pc EXCEPT ![t] = "holding"]
    /\ UNCHANGED <<isOpen, wal, stale, leaked, scan, queue, waiterPool, fieldVars,
                   assigned, exception, myWaiter, myNonce, signal, npe>>

(* obtainConnectionWaiterLocked: the head of the free list, or a new one.  *)
FreshWaiters ==
    Waiters \ (Range(waiterPool) \cup Range(myWaiter))

ObtainWaiter(w) ==
    IF waiterPool # <<>>
    THEN w = Head(waiterPool) /\ waiterPool' = Tail(waiterPool)
    ELSE FreshWaiters # {} /\ w = (CHOOSE v \in FreshWaiters : TRUE) /\ UNCHANGED waiterPool

BehindAt_Fifo(i, priority) == i = Len(queue) + 1
BehindAt_Lifo(i, priority) ==
    /\ i <= Len(queue) => priority >= request[queue[i]].priority
    /\ \A j \in 1..(i - 1) : priority < request[queue[j]].priority

(* Position i is behind every waiter of the same or a higher priority.     *)
BehindAt(i, priority) ==
    /\ i <= Len(queue) => priority > request[queue[i]].priority
    /\ \A j \in 1..(i - 1) : priority <= request[queue[j]].priority

(* First critical section, no connection can be taken: join the queue.     *)
Enqueue(t) ==
    /\ LockFree /\ isOpen /\ pc[t] = "idle"
    /\ \E r \in Requests, w \in Waiters :
          /\ ~Grantable(~r.wantPrimary, TRUE)
          /\ ObtainWaiter(w)
          /\ nonce[w] < MaxNonce
          /\ request' = [request EXCEPT ![w] = r]
          /\ \E i \in 1..(Len(queue) + 1) :
                BehindAt(i, r.priority) /\ queue' = InsertAt(queue, i, w)
          /\ myWaiter' = [myWaiter EXCEPT ![t] = w]
          /\ myNonce' = [myNonce EXCEPT ![t] = nonce[w]]
    /\ \E s \in IF t \in Cancellable THEN {"none", "armed"} ELSE {"none"} :
          signal' = [signal EXCEPT ![t] = s]
    /\ pc' = [pc EXCEPT ![t] = "enqueued"]
    /\ UNCHANGED <<poolVars, leaked, scan, nonce, assigned, exception, holds, npe>>

(* setOnCancelListener runs the listener at once if the signal has already *)
(* been cancelled.                                                         *)
RegisterListener(t) ==
    /\ pc[t] = "enqueued"
    /\ signal' = [signal EXCEPT ![t] = IF @ = "cancelled" THEN "cancelling" ELSE @]
    /\ pc' = [pc EXCEPT ![t] = "parked"]
    /\ UNCHANGED <<poolVars, leaked, scan, queue, waiterPool, fieldVars, assigned,
                   exception, holds, myWaiter, myNonce, npe>>

DetectLeak_Ignored(t) ==
    /\ pc[t] = "parked" /\ leaked /\ FALSE
    /\ UNCHANGED vars
(* mConnectionLeaked.compareAndSet(true, false), outside the monitor ...   *)
DetectLeak(t) ==
    /\ pc[t] = "parked" /\ leaked
    /\ leaked' = FALSE
    /\ pc' = [pc EXCEPT ![t] = "recovering"]
    /\ UNCHANGED <<poolVars, scan, queue, waiterPool, fieldVars, assigned, exception,
                   holds, myWaiter, myNonce, signal, npe>>

(* ... and the wake-up under it.                                           *)
RecoverLeak(t) ==
    /\ LockFree /\ pc[t] = "recovering"
    /\ StartScan(queue)
    /\ pc' = [pc EXCEPT ![t] = "parked"]
    /\ UNCHANGED <<poolVars, leaked, queue, waiterPool, fieldVars, assigned, exception,
                   holds, myWaiter, myNonce, signal, npe>>

(* Out of parkNanos (unparked, timed out or spuriously): leave with the    *)
(* connection, the exception, or because the pool has been closed; park    *)
(* again otherwise.  (The flags of a recycled waiter are not read again,   *)
(* and its nonce is read by cancellation listeners only.)                  *)
Recheck(t) ==
    /\ LockFree /\ pc[t] = "parked"
    /\ LET w == myWaiter[t] IN
       \/ /\ ~isOpen                            \* throwIfClosedLocked
          /\ UNCHANGED <<waiterPool, fieldVars, assigned, exception, holds>>
       \/ /\ isOpen
          /\ assigned[w] # None \/ exception[w] # "none"
          /\ holds' = [holds EXCEPT ![t] = assigned[w]]
          /\ waiterPool' = <<w>> \o waiterPool  \* recycleConnectionWaiterLocked
          /\ assigned' = [assigned EXCEPT ![w] = None]
          /\ exception' = [exception EXCEPT ![w] = "none"]
          /\ request' = [request EXCEPT ![w] = NoRequest]
          /\ nonce' = [nonce EXCEPT ![w] = IF Cancellable = {} THEN @ ELSE @ + 1]
    /\ pc' = [pc EXCEPT ![t] = "returning"]
    /\ UNCHANGED <<poolVars, leaked, scan, queue, myWaiter, myNonce, signal, npe>>

(* finally: setOnCancelListener(null) waits for a cancel in progress.      *)
RemoveListener(t) ==
    /\ pc[t] = "returning" /\ signal[t] # "cancelling"
    /\ pc' = [pc EXCEPT ![t] = IF holds[t] # None THEN "holding" ELSE "idle"]
    /\ myWaiter' = [myWaiter EXCEPT ![t] = None]
    /\ myNonce' = [myNonce EXCEPT ![t] = 0]
    /\ signal' = [signal EXCEPT ![t] = "none"]
    /\ UNCHANGED <<poolVars, leaked, scan, queue, waiterPool, fieldVars, assigned,
                   exception, holds, npe>>

(* CancellationSignal.cancel(), from any other thread.                     *)
Cancel(t) ==
    /\ signal[t] = "armed"
    /\ signal' = [signal EXCEPT ![t] = IF pc[t] = "enqueued" THEN "cancelled" ELSE "cancelling"]
    /\ UNCHANGED <<poolVars, leaked, scan, queue, waiterPool, fieldVars, assigned,
                   exception, pc, holds, myWaiter, myNonce, npe>>

(* onCancel and cancelConnectionWaiterLocked.  A waiter recycled since the *)
(* listener was set is left alone.                                         *)
WaiterIsDone(w) == assigned[w] # None \/ exception[w] # "none"

NotRecycled_Unchecked(t) == TRUE
NotRecycled(t) == nonce[myWaiter[t]] = myNonce[t]

OnCancel(t) ==
    /\ LockFree /\ signal[t] = "cancelling"
    /\ signal' = [signal EXCEPT ![t] = "done"]
    /\ LET w == myWaiter[t] IN
       \/ /\ ~NotRecycled(t) \/ WaiterIsDone(w)
          /\ UNCHANGED <<queue, scan, exception, npe>>
       \/ /\ NotRecycled(t) /\ ~WaiterIsDone(w) /\ ~Contains(queue, w)
          /\ npe' = TRUE
          /\ UNCHANGED <<queue, scan, exception>>
       \/ /\ NotRecycled(t) /\ ~WaiterIsDone(w)
          /\ \E i \in DOMAIN queue :
                /\ queue[i] = w
                /\ queue' = RemoveAt(queue, i)
                /\ StartScan(RemoveAt(queue, i))
          /\ exception' = [exception EXCEPT ![w] = "canceled"]
          /\ UNCHANGED npe
    /\ UNCHANGED <<poolVars, leaked, waiterPool, fieldVars, assigned, pc, holds,
                   myWaiter, myNonce>>

-----------------------------------------------------------------------------
(* releaseConnection; recycleConnectionLocked closes a connection that is  *)
(* to be discarded, or that fails to take the new configuration.           *)

Recycled(c) ==
    \/ status[c] = "NORMAL" /\ stale' = stale
    \/ status[c] = "RECONFIGURE" /\ stale' = stale \ {c}

Discarded(c) ==
    /\ kind' = ClosedAll({c})
    /\ stale' = stale \ {c}
    /\ UNCHANGED <<availablePrimary, availableNonPrimary>>

Release(t) ==
    /\ LockFree /\ pc[t] = "holding"
    /\ LET c == holds[t] IN
       /\ status[c] # "none"
       /\ status' = [status EXCEPT ![c] = "none"]
       /\ \/ /\ ~isOpen
             /\ Discarded(c) /\ UNCHANGED scan
          \/ /\ isOpen /\ kind[c] = "primary"
             /\ \/ /\ Recycled(c) /\ availablePrimary' = c
                   /\ UNCHANGED <<kind, availableNonPrimary>>
                \/ status[c] # "NORMAL" /\ Discarded(c)
             /\ StartScan(queue)
          \/ /\ isOpen /\ kind[c] # "primary"
             /\ Cardinality(availableNonPrimary) + 1 >= MaxConnectionPoolSize
             /\ Discarded(c) /\ UNCHANGED scan
          \/ /\ isOpen /\ kind[c] # "primary"
             /\ Cardinality(availableNonPrimary) + 1 < MaxConnectionPoolSize
             /\ \/ /\ Recycled(c) /\ availableNonPrimary' = availableNonPrimary \cup {c}
                   /\ UNCHANGED <<kind, availablePrimary>>
                \/ status[c] # "NORMAL" /\ Discarded(c)
             /\ StartScan(queue)
    /\ holds' = [holds EXCEPT ![t] = None]
    /\ pc' = [pc EXCEPT ![t] = "idle"]
    /\ UNCHANGED <<isOpen, wal, leaked, queue, waiterPool, fieldVars, assigned, exception,
                   myWaiter, myNonce, signal, npe>>

-----------------------------------------------------------------------------
(* close and reconfigure, on a thread of their own.                        *)

Close ==
    /\ LockFree /\ isOpen
    /\ isOpen' = FALSE
    /\ kind' = ClosedAll(Available)
    /\ stale' = stale \ Available
    /\ availablePrimary' = None
    /\ availableNonPrimary' = {}
    /\ StartScan(queue)
    /\ UNCHANGED <<wal, status, leaked, queue, waiterPool, fieldVars, assigned, exception,
                   threadVars, npe>>

Marked_DiscardForgotten(s) ==
    [c \in Connections |-> IF status[c] = "none" THEN "none" ELSE s]
Marked_AcquiredForgotten(s) == status
Marked(s) ==
    [c \in Connections |->
        IF status[c] \in {"none", "DISCARD"} THEN status[c] ELSE s]

(* The open flags are unchanged: each available connection is reconfigured *)
(* or, failing that, closed (the set bad); the acquired ones are marked.   *)
(* closeExcess... closes what exceeds the pool size.  A change of the      *)
(* foreign key mode is the same with no connection acquired.               *)
ReconfigureInPlace ==
    /\ "inPlace" \in Reconfigurations
    /\ LockFree /\ isOpen
    /\ \E bad \in SUBSET Available, kept \in SUBSET availableNonPrimary :
          /\ \/ kept = availableNonPrimary
             \/ Cardinality(kept) + 1 = MaxConnectionPoolSize
          /\ Cardinality(kept) < MaxConnectionPoolSize
          /\ LET closing == bad \cup (availableNonPrimary \ kept) IN
             /\ kind' = ClosedAll(closing)
             /\ stale' = (stale \cup Acquired) \ Available
             /\ availableNonPrimary' = availableNonPrimary \ closing
             /\ availablePrimary' = IF availablePrimary \in closing THEN None ELSE availablePrimary
    /\ status' = Marked("RECONFIGURE")
    /\ StartScan(queue)
    /\ UNCHANGED <<isOpen, wal, leaked, queue, waiterPool, fieldVars, assigned, exception,
                   threadVars, npe>>

(* The open flags change, not the journal mode: a new primary replaces all *)
(* the available connections and the acquired ones are to be discarded.    *)
ReconfigureOpenFlags ==
    /\ "openFlags" \in Reconfigurations
    /\ LockFree /\ isOpen
    /\ FreshConnection # None
    /\ kind' = [ClosedAll(Available) EXCEPT ![FreshConnection] = "primary"]
    /\ stale' = (stale \cup Acquired) \ Available
    /\ availablePrimary' = FreshConnection
    /\ availableNonPrimary' = {}
    /\ status' = Marked("DISCARD")
    /\ StartScan(queue)
    /\ UNCHANGED <<isOpen, wal, leaked, queue, waiterPool, fieldVars, assigned, exception,
                   threadVars, npe>>

(* The journal mode changes: refused while a connection is acquired;       *)
(* everything is closed first, and the new primary may fail to open, which *)
(* leaves the old configuration, no connection, and wakes nobody.          *)
ReconfigureWAL ==
    /\ "wal" \in Reconfigurations
    /\ LockFree /\ isOpen
    /\ Acquired = {}
    /\ availableNonPrimary' = {}
    /\ stale' = {}
    /\ \/ \E c \in Connections :
             /\ kind[c] = "closed" \/ c \in Available
             /\ kind' = [ClosedAll(Available) EXCEPT ![c] = "primary"]
             /\ availablePrimary' = c
             /\ wal' = ~wal
             /\ StartScan(queue)
       \/ /\ kind' = ClosedAll(Available)
          /\ availablePrimary' = None
          /\ UNCHANGED <<wal, scan>>
    /\ UNCHANGED <<isOpen, status, leaked, queue, waiterPool, fieldVars, assigned, exception,
                   threadVars, npe>>

-----------------------------------------------------------------------------
(* The application loses a connection, and the garbage collector.  The     *)
(* session of a thread is a thread-local of the database, so a connection  *)
(* is abandoned when its thread ends inside a transaction.                 *)

Reachable(c) ==
    \/ c \in Available
    \/ \E t \in Threads :
          holds[t] = c \/ (myWaiter[t] # None /\ assigned[myWaiter[t]] = c)

Abandon(t) ==
    /\ t \in Leaky /\ pc[t] = "holding"
    /\ holds' = [holds EXCEPT ![t] = None]
    /\ pc' = [pc EXCEPT ![t] = "ended"]
    /\ UNCHANGED <<poolVars, leaked, scan, queue, waiterPool, fieldVars, assigned, exception,
                   myWaiter, myNonce, signal, npe>>

(* The weak reference of mAcquiredConnections is cleared first ...         *)
ClearWeakReference(c) ==
    /\ c \in Acquired /\ ~Reachable(c)
    /\ status' = [status EXCEPT ![c] = "none"]
    /\ UNCHANGED <<isOpen, wal, availablePrimary, availableNonPrimary, kind, stale, leaked,
                   scan, queue, waiterPool, fieldVars, assigned, exception, threadVars, npe>>

(* ... then SQLiteConnection.finalize reports the leak (onConnectionLeaked)*)
(* and closes the handle.                                                  *)
FinalizeConnection(c) ==
    /\ kind[c] # "closed" /\ c \notin Acquired /\ ~Reachable(c)
    /\ leaked' = TRUE
    /\ kind' = ClosedAll({c})
    /\ stale' = stale \ {c}
    /\ UNCHANGED <<isOpen, wal, availablePrimary, availableNonPrimary, status, scan, queue,
                   waiterPool, fieldVars, assigned, exception, threadVars, npe>>

-----------------------------------------------------------------------------
ThreadStep(t) ==
    \/ AcquireNow(t) \/ Enqueue(t) \/ RegisterListener(t)
    \/ DetectLeak(t) \/ RecoverLeak(t) \/ Recheck(t) \/ RemoveListener(t)
    \/ Cancel(t) \/ OnCancel(t) \/ Release(t) \/ Abandon(t)

Next ==
    \/ \E t \in Threads : ThreadStep(t)
    \/ WakeStep
    \/ Close \/ ReconfigureInPlace \/ ReconfigureOpenFlags \/ ReconfigureWAL
    \/ \E c \in Connections : ClearWeakReference(c) \/ FinalizeConnection(c)

Spec == Init /\ [][Next]_vars

(* The monitor is granted to every thread that keeps asking for it, a park *)
(* ends (after 30 s at most), the holders finish their work, and garbage   *)
(* is collected in the end.                                                *)
Fairness ==
    /\ WF_vars(WakeStep)
    /\ \A t \in Threads :
          /\ WF_vars(RegisterListener(t) \/ DetectLeak(t) \/ RemoveListener(t))
          /\ SF_vars(RecoverLeak(t) \/ Recheck(t) \/ Release(t) \/ Abandon(t))
          /\ SF_vars(OnCancel(t))
    /\ \A c \in Connections :
          WF_vars(ClearWeakReference(c)) /\ WF_vars(FinalizeConnection(c))

FairSpec == Spec /\ Fairness

-----------------------------------------------------------------------------
(* Properties *)

(* Types; a scan points into the queue, a thread in waitForConnection has  *)
(* a waiter, and one that holds a connection has it in holds.              *)
PoolTypeOK ==
    /\ isOpen \in BOOLEAN /\ wal \in BOOLEAN
    /\ availablePrimary \in Connections \cup {None}
    /\ availableNonPrimary \subseteq Connections
    /\ kind \in [Connections -> Kinds]
    /\ status \in [Connections -> Statuses]
    /\ stale \subseteq Connections

WaiterTypeOK ==
    /\ queue \in Seq(Waiters)
    /\ waiterPool \in Seq(Waiters)
    /\ scan \in {NoScan} \cup [at : 1..Len(queue), noPrimary : BOOLEAN, noNonPrimary : BOOLEAN]
    /\ request \in [Waiters -> Requests]
    /\ assigned \in [Waiters -> Connections \cup {None}]
    /\ exception \in [Waiters -> {"none", "failed", "canceled"}]
    /\ nonce \in [Waiters -> Nat]

Waiting == {"enqueued", "parked", "recovering", "returning"}
ThreadTypeOK ==
    /\ leaked \in BOOLEAN /\ npe \in BOOLEAN
    /\ pc \in [Threads -> Waiting \cup {"idle", "holding", "ended"}]
    /\ holds \in [Threads -> Connections \cup {None}]
    /\ myWaiter \in [Threads -> Waiters \cup {None}]
    /\ myNonce \in [Threads -> Nat]
    /\ signal \in [Threads -> {"none", "armed", "cancelled", "cancelling", "done"}]
    /\ \A t \in Threads :
          /\ pc[t] = "holding" => holds[t] # None
          /\ pc[t] \in Waiting => myWaiter[t] # None

TypeOK == PoolTypeOK /\ WaiterTypeOK /\ ThreadTypeOK

(* What the pool has available is open, of the right kind and lent to      *)
(* nobody, and a closed connection is neither on record as acquired nor    *)
(* waiting for a configuration.                                            *)
Bookkeeping ==
    /\ \A c \in availableNonPrimary : kind[c] = "nonPrimary" /\ status[c] = "none"
    /\ availablePrimary # None =>
          kind[availablePrimary] = "primary" /\ status[availablePrimary] = "none"
    /\ \A c \in Connections : kind[c] = "closed" => status[c] = "none" /\ c \notin stale

(* At most one primary connection is in use or available, not counting the *)
(* ones to be discarded on release: what the assertion of releaseConnection*)
(* (mAvailablePrimaryConnection == null) relies on, across reconfigurations*)
(* that replace the primary while a session still holds the old one.       *)
LivePrimaries ==
    {c \in Connections : /\ kind[c] = "primary"
                         /\ c = availablePrimary \/ status[c] \in {"NORMAL", "RECONFIGURE"}}
OnePrimary == \A c, d \in LivePrimaries : c = d

(* Opened connections are always owned, unless the pool was closed while a *)
(* waiter had one or a session abandons what it holds.                     *)
NoConnectionLost == \A c \in Connections : kind[c] # "closed" => Reachable(c)

(* A connection lent to a session, or promised to a waiter, is lent or     *)
(* promised to nobody else, is open, and is on record as acquired: "the    *)
(* connections themselves are not" thread-safe.  While the pool is open it *)
(* loses none.                                                             *)
Users(c) == {<<t>> : t \in {u \in Threads : holds[u] = c}}
            \cup {<<"promised", w>> : w \in {v \in Waiters : assigned[v] = c}}
ExclusiveOwnership ==
    /\ isOpen => NoConnectionLost
    /\ \A c \in Connections :
        /\ \A u, v \in Users(c) : u = v
        /\ isOpen /\ Users(c) # {} => c \in Acquired /\ c \notin Available /\ kind[c] # "closed"

(* No connection is lent with a configuration older than the pool's        *)
(* without being marked for reconfiguration or disposal, and none that is  *)
(* available has an old configuration.                                     *)
ConfigurationPropagated ==
    /\ Available \cap stale = {}
    /\ \A c \in stale : status[c] # "NORMAL"

(* A waiter stays queued only while its request cannot be granted, unless  *)
(* a leak is still to be detected: no wake-up is lost, whatever closed,    *)
(* failed, was cancelled or reconfigured.                                  *)
LeakPending ==
    \/ leaked
    \/ \E t \in Threads : pc[t] = "recovering"
    \/ \E c \in Connections : kind[c] # "closed" /\ c \notin Acquired \cup Available
NoStrandedWaiter ==
    isOpen /\ LockFree /\ ~LeakPending
        => \A w \in Range(queue) : ~Grantable(~request[w].wantPrimary, TRUE)

(* A waiter is granted a connection only if nobody of a higher priority is *)
(* left waiting who would have accepted it.                                *)
GrantsByPriority ==
    [][\A w \in Waiters :
          assigned[w] = None /\ assigned'[w] # None =>
              \A u \in Range(queue') :
                  request[u].priority > request[w].priority =>
                      request[u].wantPrimary /\ kind'[assigned'[w]] # "primary"]_vars

(* A wait is cancelled only by the signal of the thread that waits, not by *)
(* a signal set for an earlier use of the same ConnectionWaiter object.    *)
OnlyOwnSignalCancels ==
    [][\A w \in Waiters :
          exception[w] # "canceled" /\ exception'[w] = "canceled" =>
              \E t \in Threads : /\ myWaiter[t] = w /\ signal[t] = "cancelling"
                                 /\ pc[t] \in {"parked", "recovering"}]_vars

(* A thread that has joined the queue leaves it with a connection or an    *)
(* exception, even when connections are abandoned or the pool is closed.   *)
EveryWaitEnds ==
    \A t \in Threads : pc[t] = "enqueued" ~> pc[t] \in {"holding", "idle"}

(* As long as the pool is open the waiter that is cancelled is in the queue *)
(* ("assert current != null" of cancelConnectionWaiterLocked); close(),     *)
(* which empties the queue and tells no waiter, is the only exception.      *)
CancelFindsWaiter == npe => ~isOpen

(* The line for the connection of a pool with one.                         *)
(* A thread has the connection from the moment that it can no longer go to *)
(* another: while wakeConnectionWaitersLocked has not yet assigned what    *)
(* came back, it is that of the head of the queue.                         *)
InQueue == {t \in Threads : pc[t] \in {"enqueued", "parked", "recovering"}}
Owner(w) == CHOOSE t \in {u \in InQueue : myWaiter[u] = w} : TRUE
Served == {t \in Threads : holds[t] # None \/ (t \in InQueue /\ assigned[myWaiter[t]] # None)}
HandingOver == isOpen /\ ~LockFree /\ availablePrimary # None
Lessee ==
    IF HandingOver THEN Owner(Head(queue))
    ELSE IF Served = {} THEN None ELSE CHOOSE t \in Served : TRUE
LineOf(q) == [i \in DOMAIN q |-> [thread |-> Owner(q[i]), priority |-> request[q[i]].priority]]
Line == IF HandingOver THEN LineOf(Tail(queue)) ELSE LineOf(queue)
OneConnection == INSTANCE Lending
    WITH Nobody <- None, open <- isOpen, holder <- Lessee, line <- Line

(* A pool with one connection, as SQLiteSession has it, lends it as Lending *)
(* promises: wakeups, cancellations and waiter objects that are used again  *)
(* let no thread come in between, or wait for a connection that is free.    *)
LentInTurn == OneConnection!Spec

=============================================================================

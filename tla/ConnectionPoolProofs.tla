------------------------ MODULE ConnectionPoolProofs ------------------------
(***************************************************************************)
(* Theorems about ConnectionPool, for every value of its constants.        *)
(***************************************************************************)
EXTENDS ConnectionPool, SequenceTheorems, FiniteSetTheorems, TLAPS

(* Removing a waiter from a queue leaves a queue, one shorter.             *)
LEMMA RemoveAtType ==
    ASSUME NEW S, NEW s \in Seq(S), NEW i \in 1..Len(s)
    PROVE  RemoveAt(s, i) \in Seq(S) /\ Len(RemoveAt(s, i)) = Len(s) - 1
<1>1. Len(s) \in Nat /\ \A j \in 1..Len(s) : s[j] \in S
  BY LenProperties, ElementOfSeq
<1> DEFINE A == SubSeq(s, 1, i - 1)
           B == SubSeq(s, i + 1, Len(s))
<1>2. A \in Seq(S) /\ Len(A) = i - 1
  <2>1. \A j \in 1..(i - 1) : s[j] \in S
    BY <1>1
  <2> QED
    BY <1>1, <2>1, SubSeqProperties
<1>3. B \in Seq(S) /\ Len(B) = Len(s) - i
  <2>1. \A j \in (i + 1)..Len(s) : s[j] \in S
    BY <1>1
  <2> QED
    BY <1>1, <2>1, SubSeqProperties
<1>4. RemoveAt(s, i) = A \o B
  BY DEF RemoveAt
<1> HIDE DEF A, B
<1>5. A \o B \in Seq(S) /\ Len(A \o B) = Len(A) + Len(B)
  BY <1>2, <1>3, ConcatProperties, Zenon
<1>6. Len(A) + Len(B) = Len(s) - 1
  BY <1>1, <1>2, <1>3
<1> QED
  BY <1>4, <1>5, <1>6, Zenon

(* Inserting a waiter into a queue leaves a queue, one longer.             *)
LEMMA InsertAtType ==
    ASSUME NEW S, NEW s \in Seq(S), NEW i \in 1..(Len(s) + 1), NEW e \in S
    PROVE  InsertAt(s, i, e) \in Seq(S) /\ Len(InsertAt(s, i, e)) = Len(s) + 1
<1>1. Len(s) \in Nat /\ \A j \in 1..Len(s) : s[j] \in S
  BY LenProperties, ElementOfSeq
<1>2. SubSeq(s, 1, i - 1) \in Seq(S) /\ Len(SubSeq(s, 1, i - 1)) = i - 1
  <2>1. \A j \in 1..(i - 1) : s[j] \in S
    BY <1>1
  <2> QED
    BY <1>1, <2>1, SubSeqProperties
<1>3. SubSeq(s, i, Len(s)) \in Seq(S) /\ Len(SubSeq(s, i, Len(s))) = Len(s) - i + 1
  <2>1. \A j \in i..Len(s) : s[j] \in S
    BY <1>1
  <2> QED
    BY <1>1, <2>1, SubSeqProperties
<1>4. <<e>> \in Seq(S) /\ Len(<<e>>) = 1
  OBVIOUS
<1> DEFINE A == SubSeq(s, 1, i - 1)
           B == SubSeq(s, i, Len(s))
           E == <<e>>
<1>5. InsertAt(s, i, e) = A \o E \o B
  BY DEF InsertAt
<1>6. A \o E \o B \in Seq(S) /\ Len(A \o E \o B) = Len(s) + 1
  <2>1. /\ A \in Seq(S) /\ B \in Seq(S) /\ E \in Seq(S)
        /\ Len(A) + 1 + Len(B) = Len(s) + 1 /\ Len(A) \in Nat /\ Len(E) = 1
    BY <1>1, <1>2, <1>3, <1>4
  <2> HIDE DEF A, B, E
  <2>2. A \o E \in Seq(S) /\ Len(A \o E) = Len(A) + Len(E)
    BY <2>1, ConcatProperties, Zenon
  <2>3. A \o E \o B \in Seq(S) /\ Len(A \o E \o B) = Len(A \o E) + Len(B)
    BY <2>1, <2>2, ConcatProperties, Zenon
  <2> QED
    BY <2>1, <2>2, <2>3, Zenon
<1> QED
  BY <1>5, <1>6

-----------------------------------------------------------------------------
(* The part of the invariant that is about the connections alone.          *)
PoolInv == PoolTypeOK /\ Bookkeeping /\ ConfigurationPropagated /\ OnePrimary

(* The inductive invariant.                                                *)
IInv == PoolInv /\ WaiterTypeOK /\ ThreadTypeOK

(* A connection about to be opened is closed: no state refers to it.       *)
LEMMA FreshIsClosed ==
    ASSUME FreshConnection # None
    PROVE  FreshConnection \in Connections /\ kind[FreshConnection] = "closed"
BY DEF FreshConnection

(* Taking a non-primary connection, from the list or newly opened.         *)
LEMMA TakeNonPrimaryKeeps ==
    ASSUME PoolInv, NEW c \in Connections, TakeNonPrimary(c),
           UNCHANGED <<isOpen, wal, stale>>
    PROVE  PoolInv'
<1> USE DEF PoolInv, PoolTypeOK, Kinds, Statuses
<1>1. c # None
  BY PoolAssumption
<1>2. CASE c \in availableNonPrimary /\ UNCHANGED kind
  <2>1. c # availablePrimary
    BY <1>2, <1>1 DEF Bookkeeping
  <2> QED
    BY <1>1, <1>2, <2>1 DEF TakeNonPrimary, Bookkeeping, ConfigurationPropagated,
       OnePrimary, LivePrimaries, Available
<1>3. CASE c = FreshConnection /\ Open(c, "nonPrimary")
  <2>1. kind[c] = "closed"
    BY <1>1, <1>3, FreshIsClosed
  <2> QED
    BY <1>1, <1>3, <2>1 DEF TakeNonPrimary, Bookkeeping, ConfigurationPropagated,
       OnePrimary, LivePrimaries, Available, Open
<1> QED
  BY <1>2, <1>3 DEF TakeNonPrimary

(* Taking the primary connection, or opening one when none is in use.      *)
LEMMA TakePrimaryKeeps ==
    ASSUME PoolInv, NEW c \in Connections, TakePrimary(c),
           UNCHANGED <<isOpen, wal, stale>>
    PROVE  PoolInv'
<1> USE DEF PoolInv, PoolTypeOK, Kinds, Statuses
<1>1. c # None
  BY PoolAssumption
<1>2. CASE c = availablePrimary /\ UNCHANGED kind
  <2>1. /\ availablePrimary' = None /\ UNCHANGED <<kind, availableNonPrimary, stale>>
        /\ status' = [status EXCEPT ![c] = "NORMAL"]
    BY <1>2 DEF TakePrimary
  <2>2. c \notin availableNonPrimary /\ c \notin stale /\ kind[c] = "primary"
    BY <1>1, <1>2 DEF Bookkeeping, ConfigurationPropagated, Available
  <2>3. PoolTypeOK' /\ Bookkeeping'
    BY <2>1, <2>2 DEF Bookkeeping, TakePrimary
  <2>4. ConfigurationPropagated'
    BY <2>1, <2>2 DEF ConfigurationPropagated, Available
  <2>5. LivePrimaries' \subseteq LivePrimaries
    BY <1>2, <2>1, <2>2, PoolAssumption DEF LivePrimaries
  <2> QED
    BY <2>3, <2>4, <2>5 DEF OnePrimary
<1>3. CASE availablePrimary = None /\ c = FreshConnection /\ Open(c, "primary")
  <2>1. /\ availablePrimary' = None /\ UNCHANGED <<availableNonPrimary, stale>>
        /\ status' = [status EXCEPT ![c] = "NORMAL"] /\ kind' = [kind EXCEPT ![c] = "primary"]
    BY <1>3 DEF TakePrimary, Open
  <2>2. kind[c] = "closed" /\ c \notin availableNonPrimary /\ c \notin stale
    BY <1>1, <1>3, FreshIsClosed DEF Bookkeeping
  <2>3. PoolTypeOK' /\ Bookkeeping'
    BY <2>1, <2>2 DEF Bookkeeping, TakePrimary
  <2>4. ConfigurationPropagated'
    BY <2>1, <2>2 DEF ConfigurationPropagated, Available
  <2>5. LivePrimaries' \subseteq {c}
    <3>1. \A d \in Connections : kind[d] = "primary" => status[d] = "none"
      BY <1>3 DEF TakePrimary, CanTakePrimary, Acquired
    <3> QED
      BY <1>1, <2>1, <3>1, PoolAssumption DEF LivePrimaries
  <2> QED
    BY <2>3, <2>4, <2>5 DEF OnePrimary
<1> QED
  BY <1>2, <1>3 DEF TakePrimary

(* Either of them, as a new request or a scan does.                        *)
LEMMA TryTakeKeeps ==
    ASSUME PoolInv, NEW c \in Connections, NEW np, NEW p, TryTake(c, np, p),
           UNCHANGED <<isOpen, wal, stale>>
    PROVE  PoolInv'
BY TakeNonPrimaryKeeps, TakePrimaryKeeps DEF TryTake

(* A connection is returned: kept, reconfigured and kept, or closed.       *)
LEMMA ReleaseKeeps ==
    ASSUME PoolInv, ThreadTypeOK, NEW t \in Threads, Release(t)
    PROVE  PoolInv'
<1> USE DEF PoolInv, PoolTypeOK, Kinds, Statuses
<1> DEFINE c == holds[t]
<1>1. /\ c \in Connections /\ c # None
      /\ status[c] # "none" /\ status' = [status EXCEPT ![c] = "none"]
      /\ UNCHANGED <<isOpen, wal>>
  BY PoolAssumption DEF Release, ThreadTypeOK
<1>2. c \notin Available /\ kind[c] # "closed"
  BY <1>1 DEF Bookkeeping, Available
<1>3. CASE Discarded(c)
  BY <1>1, <1>2, <1>3 DEF Discarded, ClosedAll, Bookkeeping, ConfigurationPropagated,
     OnePrimary, LivePrimaries, Available
<1>4. CASE /\ kind[c] = "primary" /\ Recycled(c) /\ availablePrimary' = c
           /\ UNCHANGED <<kind, availableNonPrimary>>
  <2>1. c \in LivePrimaries /\ c \notin stale'
    BY <1>1, <1>4 DEF LivePrimaries, Recycled, ConfigurationPropagated
  <2> QED
    BY <1>1, <1>2, <1>4, <2>1 DEF Recycled, Bookkeeping, ConfigurationPropagated,
       OnePrimary, LivePrimaries, Available
<1>5. CASE /\ kind[c] # "primary" /\ Recycled(c)
           /\ availableNonPrimary' = availableNonPrimary \cup {c}
           /\ UNCHANGED <<kind, availablePrimary>>
  <2>1. c \notin stale'
    BY <1>1, <1>5 DEF Recycled, ConfigurationPropagated
  <2> QED
    BY <1>1, <1>2, <1>5, <2>1 DEF Recycled, Bookkeeping, ConfigurationPropagated,
       OnePrimary, LivePrimaries, Available
<1> QED
  BY <1>3, <1>4, <1>5 DEF Release

(* Closing the pool closes what is available.                              *)
LEMMA CloseKeeps ==
    ASSUME PoolInv, Close
    PROVE  PoolInv'
<1> USE DEF PoolInv, PoolTypeOK, Kinds, Statuses
<1>1. /\ isOpen' = FALSE /\ kind' = ClosedAll(Available) /\ stale' = stale \ Available
      /\ availablePrimary' = None /\ availableNonPrimary' = {} /\ UNCHANGED <<wal, status>>
  BY DEF Close
<1>2. PoolTypeOK'
  BY <1>1 DEF ClosedAll
<1>3. Bookkeeping'
  BY <1>1 DEF Bookkeeping, ClosedAll, Available
<1>4. ConfigurationPropagated'
  BY <1>1 DEF ConfigurationPropagated, Available
<1>5. LivePrimaries' \subseteq LivePrimaries
  BY <1>1, PoolAssumption DEF LivePrimaries, ClosedAll
<1> QED
  BY <1>2, <1>3, <1>4, <1>5 DEF OnePrimary

(* Reconfiguration in place, and with new open flags: a connection that is *)
(* lent is marked, and a mark to discard it is never weakened.             *)
LEMMA ReconfigureInPlaceKeeps ==
    ASSUME PoolInv, ReconfigureInPlace
    PROVE  PoolInv'
<1> USE DEF PoolInv, PoolTypeOK, Kinds, Statuses
<1>1. PICK closing \in SUBSET Available :
        /\ kind' = ClosedAll(closing)
        /\ stale' = (stale \cup Acquired) \ Available
        /\ availableNonPrimary' = availableNonPrimary \ closing
        /\ availablePrimary' = IF availablePrimary \in closing THEN None ELSE availablePrimary
        /\ status' = Marked("RECONFIGURE")
        /\ UNCHANGED <<isOpen, wal>>
  BY DEF ReconfigureInPlace, Available
<1>2. PoolTypeOK'
  BY <1>1 DEF ClosedAll, Marked, Acquired
<1>3. Bookkeeping'
  BY <1>1, PoolAssumption DEF Bookkeeping, ClosedAll, Marked, Acquired, Available
<1>4. ConfigurationPropagated'
  BY <1>1 DEF Bookkeeping, ConfigurationPropagated, Marked, Acquired, Available
<1>5. OnePrimary'
  <2>1. LivePrimaries' \subseteq LivePrimaries
    BY <1>1, PoolAssumption DEF LivePrimaries, ClosedAll, Marked
  <2> QED
    BY <2>1 DEF OnePrimary
<1> QED
  BY <1>2, <1>3, <1>4, <1>5

LEMMA ReconfigureOpenFlagsKeeps ==
    ASSUME PoolInv, ReconfigureOpenFlags
    PROVE  PoolInv'
<1> USE DEF PoolInv, PoolTypeOK, Kinds, Statuses
<1> DEFINE f == FreshConnection
<1>1. f \in Connections /\ f # None /\ kind[f] = "closed"
  BY FreshIsClosed DEF ReconfigureOpenFlags
<1>2. /\ kind' = [ClosedAll(Available) EXCEPT ![f] = "primary"]
      /\ stale' = (stale \cup Acquired) \ Available
      /\ availablePrimary' = f
      /\ availableNonPrimary' = {}
      /\ status' = Marked("DISCARD")
      /\ UNCHANGED <<isOpen, wal>>
  BY DEF ReconfigureOpenFlags
<1> HIDE DEF f
<1>3. PoolTypeOK'
  BY <1>1, <1>2 DEF ClosedAll, Marked, Acquired
<1>4. status[f] = "none" /\ f \notin stale
  BY <1>1 DEF Bookkeeping
<1>5. Bookkeeping'
  BY <1>1, <1>2, <1>4 DEF Bookkeeping, ClosedAll, Marked, Acquired, Available
<1>6. ConfigurationPropagated'
  BY <1>1, <1>2, <1>4 DEF Bookkeeping, ConfigurationPropagated, Marked, Acquired, Available
<1>7. OnePrimary'
  BY <1>1, <1>2 DEF OnePrimary, LivePrimaries, Marked
<1> QED
  BY <1>3, <1>5, <1>6, <1>7

(* A change of the journal mode, which needs every connection back first.  *)
LEMMA ReconfigureWALKeeps ==
    ASSUME PoolInv, ReconfigureWAL
    PROVE  PoolInv'
<1> USE DEF PoolInv, PoolTypeOK, Kinds, Statuses
<1>1. /\ \A c \in Connections : status[c] = "none"
      /\ status' = status /\ isOpen' = isOpen /\ availableNonPrimary' = {} /\ stale' = {}
  BY DEF ReconfigureWAL, Acquired
<1>2. CASE kind' = ClosedAll(Available) /\ availablePrimary' = None /\ wal' = wal
  BY <1>1, <1>2, PoolAssumption DEF ClosedAll, Bookkeeping, ConfigurationPropagated,
     OnePrimary, LivePrimaries, Available
<1>3. ASSUME NEW c \in Connections,
             kind' = [ClosedAll(Available) EXCEPT ![c] = "primary"],
             availablePrimary' = c, wal' = ~wal
      PROVE  PoolInv'
  BY <1>1, <1>3 DEF ClosedAll, Bookkeeping, ConfigurationPropagated,
     OnePrimary, LivePrimaries, Available
<1> QED
  BY <1>2, <1>3 DEF ReconfigureWAL

(* The garbage collector touches only what nothing refers to.              *)
LEMMA CollectKeeps ==
    ASSUME PoolInv, NEW c \in Connections, ClearWeakReference(c) \/ FinalizeConnection(c)
    PROVE  PoolInv'
<1> USE DEF PoolInv, PoolTypeOK, Kinds, Statuses
<1>1. c \notin Available
  BY DEF ClearWeakReference, FinalizeConnection, Reachable
<1>2. CASE ClearWeakReference(c)
  BY <1>1, <1>2 DEF ClearWeakReference, Bookkeeping, ConfigurationPropagated,
     OnePrimary, LivePrimaries, Available
<1>3. CASE FinalizeConnection(c)
  BY <1>1, <1>3 DEF FinalizeConnection, ClosedAll, Acquired, Bookkeeping,
     ConfigurationPropagated, OnePrimary, LivePrimaries, Available
<1> QED
  BY <1>2, <1>3

(* Steps that touch no connection.                                         *)
LEMMA PoolFrame ==
    ASSUME PoolInv, UNCHANGED poolVars
    PROVE  PoolInv'
BY DEF poolVars, PoolInv, PoolTypeOK, Bookkeeping, ConfigurationPropagated, OnePrimary,
   LivePrimaries, Available

-----------------------------------------------------------------------------
(* A scan that starts, or goes on, points into the queue or is over.       *)
ScanOK(q, sc) ==
    sc \in {NoScan} \cup [at : 1..Len(q), noPrimary : BOOLEAN, noNonPrimary : BOOLEAN]

LEMMA StartScanOK ==
    ASSUME NEW q \in Seq(Waiters), StartScan(q)
    PROVE  ScanOK(q, scan')
<1>1. CASE q = <<>>
  BY <1>1 DEF StartScan, ScanOK
<1>2. CASE q # <<>>
  <2>1. 1 \in 1..Len(q)
    BY <1>2, EmptySeq
  <2> QED
    BY <1>2, <2>1 DEF StartScan, ScanOK, NoScan
<1> QED
  BY <1>1, <1>2

LEMMA ContinueScanOK ==
    ASSUME NEW q \in Seq(Waiters),
           NEW next \in [at : Nat \ {0}, noPrimary : BOOLEAN, noNonPrimary : BOOLEAN],
           ContinueScan(q, next)
    PROVE  ScanOK(q, scan')
<1>1. Len(q) \in Nat
  BY LenProperties
<1>2. CASE next.at > Len(q)
  BY <1>2 DEF ContinueScan, ScanOK
<1>3. CASE ~(next.at > Len(q))
  <2>1. next.at \in 1..Len(q)
    BY <1>1, <1>3
  <2> QED
    BY <1>3, <2>1 DEF ContinueScan, ScanOK
<1> QED
  BY <1>2, <1>3

(* One iteration of wakeConnectionWaitersLocked.                           *)
LEMMA WakeStepKeeps ==
    ASSUME IInv, WakeStep
    PROVE  IInv'
<1> USE DEF IInv
<1> DEFINE w == queue[scan.at]
           rest == RemoveAt(queue, scan.at)
           np == ~request[w].wantPrimary /\ ~scan.noNonPrimary
           p == ~scan.noPrimary
           found == [scan EXCEPT !.noNonPrimary = @ \/ (np /\ ~CanTakeNonPrimary)]
           missed == [at |-> scan.at + 1, noNonPrimary |-> scan.noNonPrimary \/ np,
                      noPrimary |-> TRUE]
<1>1. /\ scan \in [at : 1..Len(queue), noPrimary : BOOLEAN, noNonPrimary : BOOLEAN]
      /\ queue \in Seq(Waiters) /\ Len(queue) \in Nat /\ w \in Waiters
  BY LenProperties, ElementOfSeq DEF WakeStep, LockFree, WaiterTypeOK
<1>2. rest \in Seq(Waiters)
  BY <1>1, RemoveAtType
<1>3. /\ scan \in [at : Nat \ {0}, noPrimary : BOOLEAN, noNonPrimary : BOOLEAN]
      /\ found \in [at : Nat \ {0}, noPrimary : BOOLEAN, noNonPrimary : BOOLEAN]
  <2> DEFINE b == scan.noNonPrimary \/ (np /\ ~CanTakeNonPrimary)
  <2>1. b \in BOOLEAN
    OBVIOUS
  <2>2. found = [scan EXCEPT !.noNonPrimary = b]
    OBVIOUS
  <2> HIDE DEF b, found
  <2> QED
    BY <1>1, <2>1, <2>2
<1>4. missed \in [at : Nat \ {0}, noPrimary : BOOLEAN, noNonPrimary : BOOLEAN]
  <2>1. (scan.noNonPrimary \/ np) \in BOOLEAN /\ scan.at + 1 \in Nat \ {0}
    BY <1>1
  <2> QED
    BY <2>1
<1>5. UNCHANGED <<leaked, waiterPool, fieldVars, threadVars, npe>>
  BY DEF WakeStep
<1>6. ThreadTypeOK'
  BY <1>5 DEF ThreadTypeOK, threadVars
<1>7. ASSUME PoolInv', ScanOK(queue', scan'), queue' \in Seq(Waiters),
             assigned' \in [Waiters -> Connections \cup {None}],
             exception' \in [Waiters -> {"none", "failed", "canceled"}]
      PROVE  IInv'
  BY <1>5, <1>6, <1>7 DEF WaiterTypeOK, ScanOK, fieldVars
<1>8. CASE /\ queue' = rest /\ ContinueScan(rest, scan)
           /\ UNCHANGED <<poolVars, assigned, exception>>
  <2>1. ScanOK(rest, scan')
    BY <1>2, <1>3, <1>8, ContinueScanOK
  <2> QED
    BY <1>2, <1>7, <1>8, <2>1, PoolFrame DEF WaiterTypeOK
<1>9. ASSUME NEW c \in Connections, TryTake(c, np, p),
             assigned' = [assigned EXCEPT ![w] = c],
             queue' = rest, ContinueScan(rest, found), UNCHANGED <<isOpen, wal, stale, exception>>
      PROVE  IInv'
  <2>1. ScanOK(rest, scan')
    BY <1>2, <1>3, <1>9, ContinueScanOK
  <2>2. PoolInv'
    BY <1>9, TryTakeKeeps
  <2> QED
    BY <1>1, <1>2, <1>7, <1>9, <2>1, <2>2 DEF WaiterTypeOK
<1>10. CASE /\ exception' = [exception EXCEPT ![w] = "failed"] /\ queue' = rest
            /\ ContinueScan(rest, found) /\ UNCHANGED <<poolVars, assigned>>
  <2>1. ScanOK(rest, scan')
    BY <1>2, <1>3, <1>10, ContinueScanOK
  <2> QED
    BY <1>1, <1>2, <1>7, <1>10, <2>1, PoolFrame DEF WaiterTypeOK
<1>11. CASE /\ scan' = NoScan \/ ContinueScan(queue, missed)
            /\ UNCHANGED <<poolVars, queue, assigned, exception>>
  <2>1. ScanOK(queue, scan')
    BY <1>1, <1>4, <1>11, ContinueScanOK DEF ScanOK
  <2> QED
    BY <1>1, <1>7, <1>11, <2>1, PoolFrame DEF WaiterTypeOK
<1> QED
  BY <1>8, <1>9, <1>10, <1>11 DEF WakeStep

(* waitForConnection, the cancellation of a wait, and releaseConnection.   *)
LEMMA ThreadStepKeeps ==
    ASSUME IInv, NEW t \in Threads, ThreadStep(t)
    PROVE  IInv'
<1> USE DEF IInv
<1>1. CASE AcquireNow(t)
  <2>1. PICK c \in Connections, np \in BOOLEAN :
            TryTake(c, np, TRUE) /\ holds' = [holds EXCEPT ![t] = c]
    BY <1>1, PoolAssumption DEF AcquireNow
  <2>2. /\ pc' = [pc EXCEPT ![t] = "holding"]
        /\ UNCHANGED <<isOpen, wal, stale, leaked, scan, queue, waiterPool, fieldVars, assigned,
                       exception, myWaiter, myNonce, signal, npe>>
    BY <1>1 DEF AcquireNow
  <2>3. PoolInv'
    BY <2>1, <2>2, TryTakeKeeps
  <2>4. WaiterTypeOK'
    BY <2>2 DEF WaiterTypeOK, fieldVars
  <2>5. ThreadTypeOK'
    BY <2>1, <2>2, PoolAssumption DEF ThreadTypeOK, Waiting
  <2> QED
    BY <2>3, <2>4, <2>5
<1>2. CASE Enqueue(t)
  <2>1. PICK r \in Requests, w \in Waiters :
          /\ ObtainWaiter(w)
          /\ request' = [request EXCEPT ![w] = r]
          /\ \E i \in 1..(Len(queue) + 1) : queue' = InsertAt(queue, i, w)
          /\ myWaiter' = [myWaiter EXCEPT ![t] = w]
          /\ myNonce' = [myNonce EXCEPT ![t] = nonce[w]]
    BY <1>2 DEF Enqueue
  <2>2. /\ LockFree /\ pc' = [pc EXCEPT ![t] = "enqueued"]
        /\ \E x \in {"none", "armed"} : signal' = [signal EXCEPT ![t] = x]
        /\ UNCHANGED <<poolVars, leaked, scan, nonce, assigned, exception, holds, npe>>
    BY <1>2 DEF Enqueue
  <2>3. waiterPool' \in Seq(Waiters)
    <3>1. CASE waiterPool # <<>>
      <4>1. waiterPool \in Seq(Waiters)
        BY DEF WaiterTypeOK
      <4>2. Tail(waiterPool) \in Seq(Waiters)
        BY <3>1, <4>1, HeadTailProperties
      <4>3. waiterPool' = Tail(waiterPool)
        BY <2>1, <3>1, Zenon DEF ObtainWaiter
      <4> QED
        BY <4>2, <4>3
    <3>2. CASE waiterPool = <<>>
      BY <2>1, <3>2 DEF ObtainWaiter, WaiterTypeOK
    <3> QED
      BY <3>1, <3>2
  <2>4. queue' \in Seq(Waiters)
    BY <2>1, InsertAtType DEF WaiterTypeOK
  <2>5. WaiterTypeOK'
    BY <2>1, <2>2, <2>3, <2>4 DEF WaiterTypeOK, LockFree
  <2>6. ThreadTypeOK'
    <3>1. nonce[w] \in Nat /\ w # None
      BY PoolAssumption DEF WaiterTypeOK
    <3> QED
      BY <2>1, <2>2, <3>1 DEF ThreadTypeOK, Waiting
  <2> QED
    BY <2>2, <2>5, <2>6, PoolFrame
<1>3. CASE RegisterListener(t)
  BY <1>3, PoolFrame DEF RegisterListener, ThreadTypeOK, WaiterTypeOK, Waiting, fieldVars
<1>4. CASE DetectLeak(t)
  BY <1>4, PoolFrame DEF DetectLeak, ThreadTypeOK, WaiterTypeOK, Waiting, fieldVars
<1>5. CASE RecoverLeak(t)
  <2>1. ScanOK(queue, scan')
    BY <1>5, StartScanOK DEF RecoverLeak, WaiterTypeOK
  <2> QED
    BY <1>5, <2>1, PoolFrame DEF RecoverLeak, ThreadTypeOK, WaiterTypeOK, Waiting, fieldVars, ScanOK
<1>6. CASE Recheck(t)
  <2> DEFINE w == myWaiter[t]
  <2>1. w \in Waiters
    BY <1>6 DEF Recheck, ThreadTypeOK, Waiting
  <2>2. /\ pc[t] = "parked" /\ pc' = [pc EXCEPT ![t] = "returning"]
        /\ UNCHANGED <<poolVars, leaked, scan, queue, myWaiter, myNonce, signal, npe>>
    BY <1>6 DEF Recheck
  <2>3. CASE UNCHANGED <<waiterPool, fieldVars, assigned, exception, holds>>
    BY <2>2, <2>3, PoolFrame DEF ThreadTypeOK, WaiterTypeOK, Waiting, fieldVars
  <2>4. CASE /\ holds' = [holds EXCEPT ![t] = assigned[w]]
             /\ waiterPool' = <<w>> \o waiterPool
             /\ assigned' = [assigned EXCEPT ![w] = None]
             /\ exception' = [exception EXCEPT ![w] = "none"]
             /\ request' = [request EXCEPT ![w] = NoRequest]
             /\ nonce' = [nonce EXCEPT ![w] = IF Cancellable = {} THEN @ ELSE @ + 1]
    <3>1. NoRequest \in Requests
      BY PoolAssumption DEF NoRequest
    <3>2. waiterPool' \in Seq(Waiters)
      <4>1. <<w>> \in Seq(Waiters)
        BY <2>1
      <4> QED
        BY <2>4, <4>1, ConcatProperties, Zenon DEF WaiterTypeOK
    <3>3. WaiterTypeOK'
      BY <2>1, <2>2, <2>4, <3>1, <3>2 DEF WaiterTypeOK
    <3>4. ThreadTypeOK'
      BY <2>1, <2>2, <2>4 DEF ThreadTypeOK, WaiterTypeOK, Waiting
    <3> QED
      BY <2>2, <3>3, <3>4, PoolFrame
  <2> QED
    BY <1>6, <2>3, <2>4 DEF Recheck
<1>7. CASE RemoveListener(t)
  BY <1>7, PoolFrame DEF RemoveListener, ThreadTypeOK, WaiterTypeOK, Waiting, fieldVars
<1>8. CASE Cancel(t)
  BY <1>8, PoolFrame DEF Cancel, ThreadTypeOK, WaiterTypeOK, Waiting, fieldVars
<1>9. CASE OnCancel(t)
  <2> DEFINE w == myWaiter[t]
  <2>1. /\ LockFree /\ signal' = [signal EXCEPT ![t] = "done"]
        /\ UNCHANGED <<poolVars, leaked, waiterPool, fieldVars, assigned, pc, holds,
                       myWaiter, myNonce>>
    BY <1>9 DEF OnCancel
  <2>2. npe' \in BOOLEAN
    BY <1>9 DEF OnCancel, ThreadTypeOK
  <2>3. ThreadTypeOK'
    BY <2>1, <2>2 DEF ThreadTypeOK
  <2>4. CASE UNCHANGED <<queue, scan, exception>>
    BY <2>1, <2>3, <2>4, PoolFrame DEF WaiterTypeOK, fieldVars
  <2>5. ASSUME NEW i \in DOMAIN queue, queue' = RemoveAt(queue, i),
               StartScan(RemoveAt(queue, i)), exception' = [exception EXCEPT ![w] = "canceled"]
        PROVE  IInv'
    <3>1. i \in 1..Len(queue) /\ queue \in Seq(Waiters)
      BY <2>5, LenProperties DEF WaiterTypeOK
    <3>2. queue' \in Seq(Waiters)
      BY <2>5, <3>1, RemoveAtType
    <3>3. ScanOK(queue', scan')
      BY <2>5, <3>2, StartScanOK
    <3>4. WaiterTypeOK'
      BY <2>1, <2>5, <3>2, <3>3 DEF WaiterTypeOK, ScanOK, fieldVars
    <3> QED
      BY <2>1, <2>3, <3>4, PoolFrame
  <2> QED
    BY <1>9, <2>4, <2>5 DEF OnCancel
<1>10. CASE Release(t)
  <2>1. ScanOK(queue, scan')
    BY <1>10, StartScanOK DEF Release, WaiterTypeOK, ScanOK
  <2>2. UNCHANGED <<leaked, queue, waiterPool, fieldVars, assigned, exception,
                    myWaiter, myNonce, signal, npe>>
    BY <1>10 DEF Release
  <2>3. WaiterTypeOK'
    BY <2>1, <2>2 DEF WaiterTypeOK, ScanOK, fieldVars
  <2>4. ThreadTypeOK'
    BY <1>10, <2>2 DEF Release, ThreadTypeOK, Waiting
  <2> QED
    BY <1>10, <2>3, <2>4, ReleaseKeeps
<1>11. CASE Abandon(t)
  BY <1>11, PoolFrame DEF Abandon, ThreadTypeOK, WaiterTypeOK, Waiting, fieldVars
<1> QED
  BY <1>1, <1>2, <1>3, <1>4, <1>5, <1>6, <1>7, <1>8, <1>9, <1>10, <1>11 DEF ThreadStep

(* Everything else: close, reconfigure and the garbage collector.          *)
LEMMA PoolStepKeeps ==
    ASSUME IInv,
           \/ Close \/ ReconfigureInPlace \/ ReconfigureOpenFlags \/ ReconfigureWAL
           \/ \E c \in Connections : ClearWeakReference(c) \/ FinalizeConnection(c)
    PROVE  IInv'
<1> USE DEF IInv
<1>1. PoolInv'
  BY CloseKeeps, ReconfigureInPlaceKeeps, ReconfigureOpenFlagsKeeps, ReconfigureWALKeeps,
     CollectKeeps
<1>2. /\ StartScan(queue) \/ UNCHANGED scan
      /\ UNCHANGED <<queue, waiterPool, fieldVars, assigned, exception, threadVars, npe>>
      /\ leaked' \in BOOLEAN
  BY DEF Close, ReconfigureInPlace, ReconfigureOpenFlags, ReconfigureWAL,
     ClearWeakReference, FinalizeConnection, ThreadTypeOK
<1>3. ScanOK(queue, scan')
  BY <1>2, StartScanOK DEF WaiterTypeOK, ScanOK
<1>4. WaiterTypeOK' /\ ThreadTypeOK'
  BY <1>2, <1>3 DEF WaiterTypeOK, ThreadTypeOK, ScanOK, fieldVars, threadVars
<1> QED
  BY <1>1, <1>4

(* The initial state: one primary connection, available.                   *)
LEMMA InitIInv == Init => IInv
<1> SUFFICES ASSUME Init PROVE IInv
  OBVIOUS
<1> DEFINE p == CHOOSE c \in Connections : TRUE
<1>1. availablePrimary = p /\ p \in Connections /\ p # None
  BY PoolAssumption DEF Init
<1>2. PoolTypeOK
  BY <1>1, PoolAssumption DEF Init, PoolTypeOK, Kinds, Statuses
<1>3. Bookkeeping /\ ConfigurationPropagated /\ OnePrimary
  BY <1>1 DEF Init, Bookkeeping, ConfigurationPropagated, OnePrimary, LivePrimaries
<1>4. NoRequest \in Requests
  BY PoolAssumption DEF NoRequest
<1>5. WaiterTypeOK
  BY <1>4, EmptySeq DEF Init, WaiterTypeOK
<1>6. ThreadTypeOK
  BY DEF Init, ThreadTypeOK, Waiting
<1> QED
  BY <1>2, <1>3, <1>5, <1>6 DEF IInv, PoolInv

LEMMA NextIInv == IInv /\ [Next]_vars => IInv'
<1> SUFFICES ASSUME IInv, [Next]_vars PROVE IInv'
  OBVIOUS
<1>1. CASE Next
  BY <1>1, ThreadStepKeeps, WakeStepKeeps, PoolStepKeeps DEF Next
<1>2. CASE UNCHANGED vars
  BY <1>2, PoolFrame DEF IInv, WaiterTypeOK, ThreadTypeOK, vars, fieldVars, threadVars
<1> QED
  BY <1>1, <1>2

(* The invariant is inductive and holds of every reachable state.          *)
THEOREM InvariantHolds == Spec => []IInv
  BY InitIInv, NextIInv, PTL DEF Spec

-----------------------------------------------------------------------------
(* Queues without duplicates.                                              *)

LEMMA RemoveAtElements ==
    ASSUME NEW S, NEW s \in Seq(S), NEW i \in 1..Len(s)
    PROVE  \A j \in 1..(Len(s) - 1) : RemoveAt(s, i)[j] = IF j < i THEN s[j] ELSE s[j + 1]
<1> DEFINE A == SubSeq(s, 1, i - 1)
           B == SubSeq(s, i + 1, Len(s))
<1>1. Len(s) \in Nat /\ \A j \in 1..Len(s) : s[j] \in S
  BY LenProperties, ElementOfSeq
<1>2. A \in Seq(S) /\ Len(A) = i - 1 /\ \A j \in 1..(i - 1) : A[j] = s[j]
  <2>1. \A j \in 1..(i - 1) : s[j] \in S
    BY <1>1
  <2> QED
    BY <1>1, <2>1, SubSeqProperties
<1>3. B \in Seq(S) /\ Len(B) = Len(s) - i /\ \A j \in 1..(Len(s) - i) : B[j] = s[i + j]
  <2>1. \A j \in (i + 1)..Len(s) : s[j] \in S
    BY <1>1
  <2> QED
    BY <1>1, <2>1, SubSeqProperties
<1>4. RemoveAt(s, i) = A \o B
  BY DEF RemoveAt
<1> HIDE DEF A, B
<1>5. ASSUME NEW j \in 1..(Len(s) - 1) PROVE (A \o B)[j] = IF j < i THEN s[j] ELSE s[j + 1]
  <2>1. Len(A) + Len(B) = Len(s) - 1
    BY <1>1, <1>2, <1>3
  <2>2. (A \o B)[j] = IF j <= Len(A) THEN A[j] ELSE B[j - Len(A)]
    BY <1>2, <1>3, <2>1, ConcatProperties
  <2>3. CASE j < i
    BY <1>1, <1>2, <2>2, <2>3
  <2>4. CASE ~(j < i)
    <3>1. j - Len(A) \in 1..(Len(s) - i) /\ i + (j - Len(A)) = j + 1 /\ ~(j <= Len(A))
      BY <1>1, <1>2, <2>4
    <3> QED
      BY <1>3, <2>2, <2>4, <3>1
  <2> QED
    BY <2>3, <2>4
<1> QED
  BY <1>4, <1>5

LEMMA InsertAtElements ==
    ASSUME NEW S, NEW s \in Seq(S), NEW i \in 1..(Len(s) + 1), NEW e \in S
    PROVE  \A j \in 1..(Len(s) + 1) :
               InsertAt(s, i, e)[j] = IF j < i THEN s[j] ELSE IF j = i THEN e ELSE s[j - 1]
<1> DEFINE A == SubSeq(s, 1, i - 1)
           B == SubSeq(s, i, Len(s))
           E == <<e>>
           AE == A \o E
<1>1. Len(s) \in Nat /\ \A j \in 1..Len(s) : s[j] \in S
  BY LenProperties, ElementOfSeq
<1>2. A \in Seq(S) /\ Len(A) = i - 1 /\ \A j \in 1..(i - 1) : A[j] = s[j]
  <2>1. \A j \in 1..(i - 1) : s[j] \in S
    BY <1>1
  <2> QED
    BY <1>1, <2>1, SubSeqProperties
<1>3. /\ B \in Seq(S) /\ Len(B) = Len(s) - i + 1
      /\ \A j \in 1..(Len(s) - i + 1) : B[j] = s[i + j - 1]
  <2>1. \A j \in i..Len(s) : s[j] \in S
    BY <1>1
  <2> QED
    BY <1>1, <2>1, SubSeqProperties
<1>4. E \in Seq(S) /\ Len(E) = 1 /\ E[1] = e
  OBVIOUS
<1>5. InsertAt(s, i, e) = AE \o B
  BY DEF InsertAt
<1> HIDE DEF A, B, E
<1>6. /\ AE \in Seq(S) /\ Len(AE) = i
      /\ \A j \in 1..i : AE[j] = IF j <= Len(A) THEN A[j] ELSE E[j - Len(A)]
  <2>1. Len(A) + Len(E) = i
    BY <1>1, <1>2, <1>4
  <2> QED
    BY <1>2, <1>4, <2>1, ConcatProperties
<1> HIDE DEF AE
<1>7. ASSUME NEW j \in 1..(Len(s) + 1)
      PROVE  (AE \o B)[j] = IF j < i THEN s[j] ELSE IF j = i THEN e ELSE s[j - 1]
  <2>1. Len(AE) + Len(B) = Len(s) + 1
    BY <1>1, <1>3, <1>6
  <2>2. (AE \o B)[j] = IF j <= Len(AE) THEN AE[j] ELSE B[j - Len(AE)]
    BY <1>3, <1>6, <2>1, ConcatProperties
  <2>3. CASE j < i
    BY <1>1, <1>2, <1>6, <2>2, <2>3
  <2>4. CASE j = i
    <3>1. AE[i] = E[1]
      BY <1>1, <1>2, <1>6
    <3> QED
      BY <1>4, <1>6, <2>2, <2>4, <3>1
  <2>5. CASE j > i
    <3>1. /\ j - i \in 1..(Len(s) - i + 1) /\ i + (j - i) - 1 = j - 1 /\ ~(j <= i) /\ ~(j < i)
          /\ j # i
      BY <1>1, <2>5
    <3> QED
      BY <1>3, <1>6, <2>2, <3>1
  <2>6. j < i \/ j = i \/ j > i
    BY <1>1
  <2> QED
    BY <2>3, <2>4, <2>5, <2>6, Zenon
<1> QED
  BY <1>5, <1>7

Distinct(s) == \A i, j \in 1..Len(s) : s[i] = s[j] => i = j

LEMMA RangeElements == ASSUME NEW s PROVE Range(s) = {s[i] : i \in DOMAIN s}
  BY DEF Range

LEMMA RangeIsIndexed ==
    ASSUME NEW S, NEW s \in Seq(S), NEW n, n = Len(s)
    PROVE  Range(s) = {s[i] : i \in 1..n}
<1>1. DOMAIN s = 1..n
  BY LenProperties
<1> QED
  BY <1>1, RangeElements

LEMMA RangeIn == ASSUME NEW S, NEW s \in Seq(S) PROVE Range(s) \subseteq S
<1>1. \A i \in 1..Len(s) : s[i] \in S
  BY ElementOfSeq
<1> QED
  BY <1>1, RangeIsIndexed

(* A waiter that is removed is not in the rest of the queue, and only it.  *)
LEMMA RemoveAtRange ==
    ASSUME NEW S, NEW s \in Seq(S), NEW i \in 1..Len(s), Distinct(s)
    PROVE  Distinct(RemoveAt(s, i)) /\ Range(RemoveAt(s, i)) = Range(s) \ {s[i]}
<1> DEFINE r == RemoveAt(s, i)
           f(j) == IF j < i THEN j ELSE j + 1
           n == Len(s)
<1>1. r \in Seq(S) /\ Len(r) = n - 1 /\ n \in Nat /\ i \in 1..n
  BY RemoveAtType, LenProperties
<1>2. \A j \in 1..(n - 1) : r[j] = s[f(j)]
  BY RemoveAtElements
<1>3. \A j \in 1..(n - 1) : f(j) \in 1..n /\ f(j) # i
  BY <1>1
<1>4. \A j, k \in 1..(n - 1) : f(j) = f(k) => j = k
  BY <1>1
<1>5. ASSUME NEW k \in 1..n, k # i PROVE \E j \in 1..(n - 1) : f(j) = k
  <2>1. CASE k < i
    BY <1>1, <2>1
  <2>2. CASE k > i
    <3>1. k - 1 \in 1..(n - 1) /\ f(k - 1) = k
      BY <1>1, <2>2
    <3> QED
      BY <3>1
  <2> QED
    BY <1>1, <1>5, <2>1, <2>2
<1>6. Range(r) = {r[j] : j \in 1..(n - 1)} /\ Range(s) = {s[j] : j \in 1..n}
  <2> HIDE DEF r, f
  <2> QED
    BY <1>1, RangeIsIndexed
<1>7. \A j, k \in 1..n : s[j] = s[k] => j = k
  BY DEF Distinct
<1> HIDE DEF r, f, n
<1>8. Range(r) = Range(s) \ {s[i]}
  <2>1. ASSUME NEW j \in 1..(n - 1) PROVE r[j] \in Range(s) /\ r[j] # s[i]
    BY <1>1, <1>2, <1>3, <1>6, <1>7
  <2>2. ASSUME NEW k \in 1..n, s[k] # s[i] PROVE s[k] \in Range(r)
    BY <1>2, <1>5, <1>6, <2>2
  <2> QED
    BY <1>6, <2>1, <2>2
<1>9. Distinct(r)
  <2>1. ASSUME NEW j \in 1..(n - 1), NEW k \in 1..(n - 1), r[j] = r[k] PROVE j = k
    <3>1. s[f(j)] = s[f(k)]
      BY <1>2, <2>1
    <3>2. f(j) = f(k)
      BY <1>3, <1>7, <3>1
    <3> QED
      BY <1>4, <3>2
  <2> QED
    BY <1>1, <2>1 DEF Distinct
<1> QED
  BY <1>8, <1>9 DEF r

LEMMA InsertAtRange ==
    ASSUME NEW S, NEW s \in Seq(S), NEW i \in 1..(Len(s) + 1), NEW e \in S,
           Distinct(s), e \notin Range(s)
    PROVE  Distinct(InsertAt(s, i, e)) /\ Range(InsertAt(s, i, e)) = Range(s) \cup {e}
<1> DEFINE r == InsertAt(s, i, e)
           f(j) == IF j < i THEN j ELSE j - 1
           n == Len(s)
<1>1. r \in Seq(S) /\ Len(r) = n + 1 /\ n \in Nat /\ i \in 1..(n + 1)
  BY InsertAtType, LenProperties
<1>2. r[i] = e /\ \A j \in 1..(n + 1) : j # i => r[j] = s[f(j)]
  BY <1>1, InsertAtElements
<1>3. \A j \in 1..(n + 1) : j # i => f(j) \in 1..n
  BY <1>1
<1>4. \A j, k \in 1..(n + 1) : j # i /\ k # i /\ f(j) = f(k) => j = k
  BY <1>1
<1>5. ASSUME NEW k \in 1..n PROVE \E j \in 1..(n + 1) : j # i /\ f(j) = k
  <2>1. CASE k < i
    <3>1. k \in 1..(n + 1) /\ k # i /\ f(k) = k
      BY <1>1, <2>1
    <3> QED
      BY <3>1
  <2>2. CASE ~(k < i)
    <3>1. k + 1 \in 1..(n + 1) /\ k + 1 # i /\ f(k + 1) = k
      BY <1>1, <2>2
    <3> QED
      BY <3>1
  <2> QED
    BY <2>1, <2>2
<1>6. Range(r) = {r[j] : j \in 1..(n + 1)} /\ Range(s) = {s[j] : j \in 1..n}
  <2> HIDE DEF r, f
  <2> QED
    BY <1>1, RangeIsIndexed
<1>7. \A j, k \in 1..n : s[j] = s[k] => j = k
  BY DEF Distinct
<1> HIDE DEF r, f, n
<1>8. Range(r) = Range(s) \cup {e}
  <2>1. ASSUME NEW j \in 1..(n + 1) PROVE r[j] \in Range(s) \cup {e}
    BY <1>2, <1>3, <1>6
  <2>2. ASSUME NEW k \in 1..n PROVE s[k] \in Range(r)
    BY <1>2, <1>5, <1>6, <2>2
  <2>3. e \in Range(r)
    BY <1>1, <1>2, <1>6
  <2> QED
    BY <1>6, <2>1, <2>2, <2>3
<1>9. ASSUME NEW j \in 1..(n + 1), NEW k \in 1..(n + 1), r[j] = r[k] PROVE j = k
  <2>1. CASE j # i /\ k # i
    BY <1>2, <1>3, <1>4, <1>7, <1>9, <2>1
  <2>2. \A l \in 1..(n + 1) : l # i => r[l] # e
    BY <1>2, <1>3, <1>6
  <2> QED
    BY <1>2, <1>9, <2>1, <2>2
<1> QED
  BY <1>1, <1>8, <1>9 DEF r, Distinct

LEMMA TailRange ==
    ASSUME NEW S, NEW s \in Seq(S), s # <<>>, Distinct(s)
    PROVE  Distinct(Tail(s)) /\ Range(Tail(s)) = Range(s) \ {Head(s)} /\ Head(s) \in Range(s)
<1> DEFINE r == Tail(s)
           n == Len(s)
<1>1. /\ r \in Seq(S) /\ Len(r) = n - 1 /\ n \in Nat /\ 1 \in 1..n
      /\ \A j \in 1..(n - 1) : r[j] = s[j + 1]
  BY HeadTailProperties, LenProperties, EmptySeq
<1>2. Range(r) = {r[j] : j \in 1..(n - 1)} /\ Range(s) = {s[j] : j \in 1..n}
  <2> HIDE DEF r
  <2> QED
    BY <1>1, RangeIsIndexed
<1>3. \A j, k \in 1..n : s[j] = s[k] => j = k
  BY DEF Distinct
<1>4. Head(s) = s[1]
  OBVIOUS
<1>5. \A j \in 1..(n - 1) : j + 1 \in 1..n /\ j + 1 # 1
  BY <1>1
<1>6. \A k \in 1..n : k # 1 => k - 1 \in 1..(n - 1) /\ (k - 1) + 1 = k
  BY <1>1
<1> HIDE DEF r, n
<1>7. Range(r) = Range(s) \ {s[1]}
  <2>1. ASSUME NEW j \in 1..(n - 1) PROVE r[j] \in Range(s) /\ r[j] # s[1]
    BY <1>1, <1>2, <1>3, <1>5
  <2>2. ASSUME NEW k \in 1..n, s[k] # s[1] PROVE s[k] \in Range(r)
    <3>1. k - 1 \in 1..(n - 1) /\ r[k - 1] = s[k]
      BY <1>1, <1>6, <2>2
    <3> QED
      BY <1>2, <3>1
  <2> QED
    BY <1>2, <2>1, <2>2
<1>8. Distinct(r)
  BY <1>1, <1>3 DEF Distinct
<1> QED
  BY <1>1, <1>2, <1>4, <1>7, <1>8 DEF r

LEMMA ConsRange ==
    ASSUME NEW S, NEW s \in Seq(S), NEW e \in S, Distinct(s), e \notin Range(s)
    PROVE  Distinct(<<e>> \o s) /\ Range(<<e>> \o s) = Range(s) \cup {e}
<1> DEFINE r == <<e>> \o s
           n == Len(s)
<1>1. n \in Nat /\ <<e>> \in Seq(S) /\ Len(<<e>>) = 1 /\ <<e>>[1] = e
  BY LenProperties
<1>2. r \in Seq(S) /\ Len(r) = n + 1 /\ r[1] = e /\ \A j \in 2..(n + 1) : r[j] = s[j - 1]
  <2>1. \A j \in 1..Len(<<e>>) + n : r[j] = IF j <= Len(<<e>>) THEN <<e>>[j] ELSE s[j - Len(<<e>>)]
    BY <1>1, ConcatProperties
  <2>2. r \in Seq(S) /\ Len(r) = 1 + n
    BY <1>1, ConcatProperties
  <2> QED
    BY <1>1, <2>1, <2>2
<1>3. Range(r) = {r[j] : j \in 1..(n + 1)} /\ Range(s) = {s[j] : j \in 1..n}
  <2> HIDE DEF r
  <2> QED
    BY <1>2, RangeIsIndexed
<1>4. \A j, k \in 1..n : s[j] = s[k] => j = k
  BY DEF Distinct
<1>5. \A j \in 1..(n + 1) : j = 1 \/ (j \in 2..(n + 1) /\ j - 1 \in 1..n)
  BY <1>1
<1>6. \A k \in 1..n : k + 1 \in 2..(n + 1) /\ k + 1 \in 1..(n + 1) /\ (k + 1) - 1 = k
  BY <1>1
<1>7. 1 \in 1..(n + 1)
  BY <1>1
<1> HIDE DEF r, n
<1>8. Range(r) = Range(s) \cup {e}
  BY <1>2, <1>3, <1>5, <1>6, <1>7
<1>9. ASSUME NEW j \in 1..(n + 1), NEW k \in 1..(n + 1), r[j] = r[k] PROVE j = k
  <2>1. CASE j # 1 /\ k # 1
    BY <1>1, <1>2, <1>4, <1>5, <1>9, <2>1
  <2>2. \A i \in 1..(n + 1) : i # 1 => r[i] # e
    BY <1>2, <1>3, <1>5
  <2> QED
    BY <1>2, <1>9, <2>1, <2>2
<1> QED
  BY <1>2, <1>8, <1>9 DEF r, Distinct

-----------------------------------------------------------------------------
(* Who waits with which ConnectionWaiter.                                  *)

(* The threads that are in waitForConnection and have not left the loop.   *)
Active == {"enqueued", "parked", "recovering"}
ActiveThreads == {t \in Threads : pc[t] \in Active}
DoneWaiters == {w \in Waiters : WaiterIsDone(w)}

(* A waiter is in the queue Q or done (D), but not both, if and only if it *)
(* is the waiter m[t] of one of the active threads A, and of no other; the *)
(* recycled ones P are nobody's.                                           *)
WaitersOK(Q, P, D, A, m) ==
    /\ Q \cap D = {} /\ Q \cup D = {m[t] : t \in A} /\ P \cap {m[t] : t \in A} = {}
    /\ \A t, u \in A : m[t] = m[u] => t = u

(* The state that a thread has outside of the monitor.                     *)
FrameInv ==
    \A t \in Threads :
        /\ pc[t] \notin Waiting => myWaiter[t] = None /\ signal[t] = "none"
        /\ pc[t] \in Active \cup {"idle", "ended"} => holds[t] = None
        /\ signal[t] # "none" => Cancellable # {}
        /\ signal[t] = "cancelling" => pc[t] # "enqueued"

(* A pool that has been closed empties the queue from its head.            *)
ClosedInv == ~isOpen => (LockFree => queue = <<>>) /\ (~LockFree => scan.at = 1)

(* A waiter that has been recycled has another nonce than the thread that  *)
(* still has a listener for it.                                            *)
NonceInv ==
    \A t \in Threads :
        /\ pc[t] \in Active => nonce[myWaiter[t]] = myNonce[t]
        /\ pc[t] = "returning" /\ Cancellable # {} => myNonce[t] < nonce[myWaiter[t]]

(* The queue q is ordered by the priorities of the requests rq.            *)
SortedBy(q, rq) ==
    \A i, j \in 1..Len(q) : i < j => rq[q[j]].priority <= rq[q[i]].priority

WaiterInv ==
    isOpen =>
        /\ Distinct(queue) /\ Distinct(waiterPool) /\ NonceInv /\ SortedBy(queue, request)
        /\ WaitersOK(Range(queue), Range(waiterPool), DoneWaiters, ActiveThreads, myWaiter)

(* The invariant about waiters.                                            *)
Waits == FrameInv /\ ClosedInv /\ WaiterInv

WInv == IInv /\ Waits

LEMMA JoinOK ==
    ASSUME NEW Q, NEW P, NEW D, NEW A, NEW m, NEW t, NEW w, NEW P2, NEW m2,
           WaitersOK(Q, P, D, A, m), t \notin A, w \notin {m[u] : u \in A},
           \A u \in A : m2[u] = m[u], m2[t] = w, P2 \subseteq P, w \notin P2
    PROVE  WaitersOK(Q \cup {w}, P2, D, A \cup {t}, m2)
<1>1. {m2[u] : u \in A \cup {t}} = {m[u] : u \in A} \cup {w}
  OBVIOUS
<1>2. w \notin D
  BY DEF WaitersOK
<1>3. \A u, v \in A \cup {t} : m2[u] = m2[v] => u = v
  BY DEF WaitersOK
<1> QED
  BY <1>1, <1>2, <1>3 DEF WaitersOK

LEMMA ServeOK ==
    ASSUME NEW Q, NEW P, NEW D, NEW A, NEW m, NEW w \in Q, WaitersOK(Q, P, D, A, m)
    PROVE  WaitersOK(Q \ {w}, P, D \cup {w}, A, m)
  BY DEF WaitersOK

LEMMA LeaveOK ==
    ASSUME NEW Q, NEW P, NEW D, NEW A, NEW m, NEW t \in A, m[t] \in D, WaitersOK(Q, P, D, A, m)
    PROVE  WaitersOK(Q, P \cup {m[t]}, D \ {m[t]}, A \ {t}, m)
<1>1. {m[u] : u \in A \ {t}} = {m[u] : u \in A} \ {m[t]}
  BY DEF WaitersOK
<1> QED
  BY <1>1 DEF WaitersOK

LEMMA SameOK ==
    ASSUME NEW Q, NEW P, NEW D, NEW A, NEW m, NEW m2, WaitersOK(Q, P, D, A, m),
           \A t \in A : m2[t] = m[t]
    PROVE  WaitersOK(Q, P, D, A, m2)
<1>1. {m2[u] : u \in A} = {m[u] : u \in A}
  OBVIOUS
<1> QED
  BY <1>1 DEF WaitersOK

LEMMA SortedRemove ==
    ASSUME NEW q \in Seq(Waiters), NEW rq, NEW i \in 1..Len(q), SortedBy(q, rq)
    PROVE  SortedBy(RemoveAt(q, i), rq)
<1> DEFINE r == RemoveAt(q, i)
           n == Len(q)
           f(j) == IF j < i THEN j ELSE j + 1
<1>1. n \in Nat /\ Len(r) = n - 1 /\ \A j \in 1..(n - 1) : r[j] = q[f(j)]
  BY RemoveAtType, RemoveAtElements, LenProperties
<1>2. \A j \in 1..(n - 1) : f(j) \in 1..n
  BY <1>1
<1>3. \A j, k \in 1..(n - 1) : j < k => f(j) < f(k)
  BY <1>1
<1>4. \A j, k \in 1..n : j < k => rq[q[k]].priority <= rq[q[j]].priority
  BY DEF SortedBy
<1> HIDE DEF r, n, f
<1> QED
  BY <1>1, <1>2, <1>3, <1>4 DEF SortedBy, r

LEMMA SortedInsert ==
    ASSUME NEW q \in Seq(Waiters), NEW rq \in [Waiters -> Requests],
           NEW w \in Waiters, NEW r \in Requests, NEW i \in 1..(Len(q) + 1),
           w \notin Range(q), SortedBy(q, rq),
           i <= Len(q) => r.priority > rq[q[i]].priority,
           \A j \in 1..(i - 1) : r.priority <= rq[q[j]].priority
    PROVE  SortedBy(InsertAt(q, i, w), [rq EXCEPT ![w] = r])
<1> DEFINE new == InsertAt(q, i, w)
           n == Len(q)
           p(j) == rq[q[j]].priority
           rq2 == [rq EXCEPT ![w] = r]
           p2(j) == rq2[new[j]].priority
<1>1. n \in Nat /\ i \in 1..(n + 1) /\ \A j \in 1..n : q[j] \in Waiters /\ q[j] # w
  BY LenProperties, ElementOfSeq, RangeIsIndexed
<1>2. r.priority \in {0, 1} /\ \A j \in 1..n : p(j) \in {0, 1}
  BY <1>1, PoolAssumption
<1>3. /\ Len(new) = n + 1
      /\ \A j \in 1..(n + 1) :
            new[j] = IF j < i THEN q[j] ELSE IF j = i THEN w ELSE q[j - 1]
  BY InsertAtType, InsertAtElements
<1>4. \A j \in 1..(n + 1) : p2(j) = IF j < i THEN p(j) ELSE IF j = i THEN r.priority ELSE p(j - 1)
  <2> SUFFICES ASSUME NEW j \in 1..(n + 1)
               PROVE  p2(j) = IF j < i THEN p(j) ELSE IF j = i THEN r.priority ELSE p(j - 1)
    OBVIOUS
  <2>1. CASE j < i
    <3>1. j \in 1..n
      BY <1>1, <2>1
    <3> QED
      BY <1>1, <1>3, <2>1, <3>1
  <2>2. CASE j = i
    BY <1>1, <1>3, <2>2
  <2>3. CASE j > i
    <3>1. j - 1 \in 1..n /\ ~(j < i) /\ j # i
      BY <1>1, <2>3
    <3> QED
      BY <1>1, <1>3, <3>1
  <2>4. j < i \/ j = i \/ j > i
    BY <1>1
  <2> QED
    BY <2>1, <2>2, <2>3, <2>4, Zenon
<1>5. \A j, k \in 1..n : j < k => p(k) <= p(j)
  BY DEF SortedBy
<1>6. /\ i <= n => r.priority > p(i)
      /\ \A j \in 1..(i - 1) : r.priority <= p(j)
  OBVIOUS
<1> HIDE DEF new, n, p, rq2, p2
<1>7. ASSUME NEW j \in 1..(n + 1), NEW k \in 1..(n + 1), j < k PROVE p2(k) <= p2(j)
  <2>1. CASE k < i
    <3>1. j \in 1..n /\ k \in 1..n /\ j < i
      BY <1>1, <1>7, <2>1
    <3> QED
      BY <1>4, <1>5, <1>7, <2>1, <3>1
  <2>2. CASE k = i
    <3>1. j \in 1..(i - 1) /\ j < i /\ ~(k < i)
      BY <1>1, <1>7, <2>2
    <3> QED
      BY <1>4, <1>6, <2>2, <3>1
  <2>3. CASE k > i /\ j < i
    <3>1. j \in 1..n /\ k - 1 \in 1..n /\ j < k - 1 /\ ~(k < i) /\ k # i
      BY <1>1, <1>7, <2>3
    <3> QED
      BY <1>4, <1>5, <2>3, <3>1
  <2>4. CASE k > i /\ j = i
    <3>1. i \in 1..n /\ k - 1 \in 1..n /\ i <= k - 1 /\ ~(k < i) /\ k # i /\ i <= n
      BY <1>1, <1>7, <2>4
    <3>2. p(k - 1) <= p(i)
      <4>1. CASE k - 1 = i
        BY <1>2, <3>1, <4>1
      <4>2. CASE i < k - 1
        BY <1>5, <3>1, <4>2
      <4> QED
        BY <1>1, <3>1, <4>1, <4>2
    <3>3. p2(k) = p(k - 1) /\ p2(j) = r.priority
      BY <1>4, <2>4, <3>1
    <3> QED
      BY <1>2, <1>6, <3>1, <3>2, <3>3
  <2>5. CASE k > i /\ j > i
    <3>1. j - 1 \in 1..n /\ k - 1 \in 1..n /\ j - 1 < k - 1 /\ ~(k < i) /\ k # i /\ ~(j < i) /\ j # i
      BY <1>1, <1>7, <2>5
    <3> QED
      BY <1>4, <1>5, <3>1
  <2> QED
    BY <1>1, <1>7, <2>1, <2>2, <2>3, <2>4, <2>5
<1>8. \A j, k \in 1..(n + 1) : j < k => rq2[new[k]].priority <= rq2[new[j]].priority
  BY <1>7 DEF p2
<1> QED
  BY <1>3, <1>8 DEF SortedBy, new, rq2

LEMMA ActiveMove ==
    ASSUME ThreadTypeOK, NEW t \in Threads, NEW x, pc' = [pc EXCEPT ![t] = x]
    PROVE  ActiveThreads' = IF x \in Active THEN ActiveThreads \cup {t} ELSE ActiveThreads \ {t}
  BY DEF ThreadTypeOK, ActiveThreads

(* A step that leaves alone the queue, the waiters and who has which.      *)
LEMMA WaiterFrame ==
    ASSUME WInv, isOpen' => isOpen /\ NonceInv',
           UNCHANGED <<queue, waiterPool, request, assigned, exception>>,
           ActiveThreads' = ActiveThreads,
           \A u \in ActiveThreads : myWaiter'[u] = myWaiter[u]
    PROVE  WaiterInv'
<1> SUFFICES ASSUME isOpen' PROVE WaiterInv'
  BY DEF WaiterInv
<1>1. WaitersOK(Range(queue), Range(waiterPool), DoneWaiters, ActiveThreads, myWaiter)
  BY DEF WInv, Waits, WaiterInv
<1>2. DoneWaiters' = DoneWaiters
  BY DEF DoneWaiters, WaiterIsDone
<1>3. WaitersOK(Range(queue), Range(waiterPool), DoneWaiters, ActiveThreads, myWaiter')
  BY <1>1, SameOK
<1>4. Distinct(queue) /\ Distinct(waiterPool) /\ SortedBy(queue, request)
  BY DEF WInv, Waits, WaiterInv
<1> QED
  BY <1>2, <1>3, <1>4 DEF WaiterInv

LEMMA ClosedFrame ==
    ASSUME WInv, UNCHANGED <<isOpen, queue>>, LockFree, StartScan(queue) \/ UNCHANGED scan
    PROVE  ClosedInv'
  BY DEF WInv, Waits, ClosedInv, LockFree, StartScan, NoScan

LEMMA AcquireNowWaits == ASSUME WInv, NEW t \in Threads, AcquireNow(t) PROVE Waits'
<1> USE DEF WInv, Waits, IInv
<1>1. /\ LockFree /\ isOpen /\ pc[t] = "idle"
      /\ pc' = [pc EXCEPT ![t] = "holding"]
      /\ holds' = [holds EXCEPT ![t] = holds'[t]]
      /\ UNCHANGED <<isOpen, scan, queue, waiterPool, fieldVars, assigned, exception,
                     myWaiter, myNonce, signal>>
  <2>1. holds' = [holds EXCEPT ![t] = holds'[t]]
    BY DEF AcquireNow, ThreadTypeOK
  <2> QED
    BY <2>1 DEF AcquireNow
<1>2. ActiveThreads' = ActiveThreads
  BY <1>1, ActiveMove DEF ActiveThreads, Active
<1>3. FrameInv'
  BY <1>1 DEF FrameInv, ThreadTypeOK, Waiting, Active
<1>4. ClosedInv'
  BY <1>1, ClosedFrame
<1>5. NonceInv'
  BY <1>1 DEF NonceInv, WaiterInv, ThreadTypeOK, Active, fieldVars
<1> QED
  BY <1>1, <1>2, <1>3, <1>4, <1>5, WaiterFrame DEF fieldVars

LEMMA RegisterListenerWaits == ASSUME WInv, NEW t \in Threads, RegisterListener(t) PROVE Waits'
<1> USE DEF WInv, Waits, IInv
<1>1. /\ pc[t] = "enqueued" /\ pc' = [pc EXCEPT ![t] = "parked"]
      /\ signal' = [signal EXCEPT ![t] = IF @ = "cancelled" THEN "cancelling" ELSE @]
      /\ UNCHANGED <<isOpen, scan, queue, waiterPool, fieldVars, assigned, exception,
                     holds, myWaiter, myNonce>>
  BY DEF RegisterListener, poolVars
<1>2. ActiveThreads' = ActiveThreads
  BY <1>1, ActiveMove DEF ActiveThreads, Active
<1>3. FrameInv'
  BY <1>1 DEF FrameInv, ThreadTypeOK, Waiting, Active
<1>4. ClosedInv'
  BY <1>1 DEF ClosedInv, LockFree
<1>5. isOpen => NonceInv'
  BY <1>1 DEF NonceInv, WaiterInv, ThreadTypeOK, Active, fieldVars
<1> QED
  BY <1>1, <1>2, <1>3, <1>4, <1>5, WaiterFrame DEF fieldVars

LEMMA DetectLeakWaits == ASSUME WInv, NEW t \in Threads, DetectLeak(t) PROVE Waits'
<1> USE DEF WInv, Waits, IInv
<1>1. /\ pc[t] = "parked" /\ pc' = [pc EXCEPT ![t] = "recovering"]
      /\ UNCHANGED <<isOpen, scan, queue, waiterPool, fieldVars, assigned, exception,
                     holds, myWaiter, myNonce, signal>>
  BY DEF DetectLeak, poolVars
<1>2. ActiveThreads' = ActiveThreads
  BY <1>1, ActiveMove DEF ActiveThreads, Active
<1>3. FrameInv'
  BY <1>1 DEF FrameInv, ThreadTypeOK, Waiting, Active
<1>4. ClosedInv'
  BY <1>1 DEF ClosedInv, LockFree
<1>5. isOpen => NonceInv'
  BY <1>1 DEF NonceInv, WaiterInv, ThreadTypeOK, Active, fieldVars
<1> QED
  BY <1>1, <1>2, <1>3, <1>4, <1>5, WaiterFrame DEF fieldVars

LEMMA RecoverLeakWaits == ASSUME WInv, NEW t \in Threads, RecoverLeak(t) PROVE Waits'
<1> USE DEF WInv, Waits, IInv
<1>1. /\ LockFree /\ pc[t] = "recovering" /\ pc' = [pc EXCEPT ![t] = "parked"]
      /\ StartScan(queue)
      /\ UNCHANGED <<isOpen, queue, waiterPool, fieldVars, assigned, exception,
                     holds, myWaiter, myNonce, signal>>
  BY DEF RecoverLeak, poolVars
<1>2. ActiveThreads' = ActiveThreads
  BY <1>1, ActiveMove DEF ActiveThreads, Active
<1>3. FrameInv'
  BY <1>1 DEF FrameInv, ThreadTypeOK, Waiting, Active
<1>4. ClosedInv'
  BY <1>1, ClosedFrame
<1>5. isOpen => NonceInv'
  BY <1>1 DEF NonceInv, WaiterInv, ThreadTypeOK, Active, fieldVars
<1> QED
  BY <1>1, <1>2, <1>3, <1>4, <1>5, WaiterFrame DEF fieldVars

LEMMA RemoveListenerWaits == ASSUME WInv, NEW t \in Threads, RemoveListener(t) PROVE Waits'
<1> USE DEF WInv, Waits, IInv
<1>1. /\ pc[t] = "returning" /\ signal[t] # "cancelling"
      /\ pc' = [pc EXCEPT ![t] = IF holds[t] # None THEN "holding" ELSE "idle"]
      /\ myWaiter' = [myWaiter EXCEPT ![t] = None] /\ myNonce' = [myNonce EXCEPT ![t] = 0]
      /\ signal' = [signal EXCEPT ![t] = "none"]
      /\ UNCHANGED <<isOpen, scan, queue, waiterPool, fieldVars, assigned, exception, holds>>
  BY DEF RemoveListener, poolVars
<1>2. ActiveThreads' = ActiveThreads /\ t \notin ActiveThreads
  BY <1>1, ActiveMove DEF ActiveThreads, Active
<1>3. FrameInv'
  BY <1>1 DEF FrameInv, ThreadTypeOK, Waiting, Active
<1>4. ClosedInv'
  BY <1>1 DEF ClosedInv, LockFree
<1>5. isOpen => NonceInv'
  BY <1>1 DEF NonceInv, WaiterInv, ThreadTypeOK, Active, fieldVars
<1>6. \A u \in ActiveThreads : myWaiter'[u] = myWaiter[u]
  BY <1>1, <1>2 DEF ThreadTypeOK, ActiveThreads
<1> QED
  BY <1>1, <1>2, <1>3, <1>4, <1>5, <1>6, WaiterFrame DEF fieldVars

LEMMA CancelWaits == ASSUME WInv, NEW t \in Threads, Cancel(t) PROVE Waits'
<1> USE DEF WInv, Waits, IInv
<1>1. /\ signal[t] = "armed"
      /\ signal' = [signal EXCEPT ![t] = IF pc[t] = "enqueued" THEN "cancelled" ELSE "cancelling"]
      /\ UNCHANGED <<isOpen, scan, queue, waiterPool, fieldVars, assigned, exception, pc,
                     holds, myWaiter, myNonce>>
  BY DEF Cancel, poolVars
<1>2. ActiveThreads' = ActiveThreads
  BY <1>1 DEF ActiveThreads
<1>3. FrameInv'
  BY <1>1 DEF FrameInv, ThreadTypeOK, Waiting, Active
<1>4. ClosedInv'
  BY <1>1 DEF ClosedInv, LockFree
<1>5. isOpen => NonceInv'
  BY <1>1 DEF NonceInv, WaiterInv, fieldVars
<1> QED
  BY <1>1, <1>2, <1>3, <1>4, <1>5, WaiterFrame DEF fieldVars

LEMMA ReleaseWaits == ASSUME WInv, NEW t \in Threads, Release(t) \/ Abandon(t) PROVE Waits'
<1> USE DEF WInv, Waits, IInv
<1>1. PICK x \in {"idle", "ended"} :
      /\ pc[t] = "holding" /\ pc' = [pc EXCEPT ![t] = x]
      /\ holds' = [holds EXCEPT ![t] = None]
      /\ UNCHANGED <<isOpen, queue, waiterPool, fieldVars, assigned, exception,
                     myWaiter, myNonce, signal>>
  BY DEF Release, Abandon, poolVars
<1>2. ActiveThreads' = ActiveThreads
  BY <1>1, ActiveMove DEF ActiveThreads, Active
<1>3. FrameInv'
  BY <1>1 DEF FrameInv, ThreadTypeOK, Waiting, Active
<1>4. ClosedInv'
  <2>1. CASE Release(t)
    <3>1. LockFree /\ (StartScan(queue) \/ UNCHANGED scan)
      BY <2>1 DEF Release
    <3> QED
      BY <1>1, <3>1, ClosedFrame
  <2>2. CASE Abandon(t)
    BY <1>1, <2>2 DEF Abandon, ClosedInv, LockFree
  <2> QED
    BY <2>1, <2>2
<1>5. isOpen => NonceInv'
  BY <1>1 DEF NonceInv, WaiterInv, ThreadTypeOK, Active, fieldVars
<1> QED
  BY <1>1, <1>2, <1>3, <1>4, <1>5, WaiterFrame DEF fieldVars

LEMMA EnqueueWaits == ASSUME WInv, NEW t \in Threads, Enqueue(t) PROVE Waits'
<1> USE DEF WInv, Waits, IInv
<1>1. PICK r \in Requests, w \in Waiters :
          /\ ObtainWaiter(w)
          /\ request' = [request EXCEPT ![w] = r]
          /\ \E i \in 1..(Len(queue) + 1) : BehindAt(i, r.priority) /\ queue' = InsertAt(queue, i, w)
          /\ myWaiter' = [myWaiter EXCEPT ![t] = w]
          /\ myNonce' = [myNonce EXCEPT ![t] = nonce[w]]
  BY DEF Enqueue
<1>2. /\ LockFree /\ isOpen /\ pc[t] = "idle" /\ pc' = [pc EXCEPT ![t] = "enqueued"]
      /\ UNCHANGED <<isOpen, scan, nonce, assigned, exception, holds>>
  BY DEF Enqueue, poolVars
<1>3. PICK i \in 1..(Len(queue) + 1) : BehindAt(i, r.priority) /\ queue' = InsertAt(queue, i, w)
  BY <1>1
<1>4. /\ queue \in Seq(Waiters) /\ waiterPool \in Seq(Waiters) /\ Distinct(queue) /\ Distinct(waiterPool)
      /\ NonceInv /\ SortedBy(queue, request)
      /\ WaitersOK(Range(queue), Range(waiterPool), DoneWaiters, ActiveThreads, myWaiter)
  BY <1>2 DEF WaiterInv, WaiterTypeOK
<1>5. /\ Distinct(waiterPool') /\ Range(waiterPool') \subseteq Range(waiterPool)
      /\ w \notin Range(waiterPool') /\ w \notin {myWaiter[u] : u \in ActiveThreads}
  <2>1. CASE waiterPool # <<>>
    <3>1. w = Head(waiterPool) /\ waiterPool' = Tail(waiterPool)
      BY <1>1, <2>1, Zenon DEF ObtainWaiter
    <3>2. /\ Distinct(Tail(waiterPool)) /\ Range(Tail(waiterPool)) = Range(waiterPool) \ {Head(waiterPool)}
          /\ Head(waiterPool) \in Range(waiterPool)
      BY <1>4, <2>1, TailRange, Zenon
    <3> QED
      BY <1>4, <3>1, <3>2 DEF WaitersOK
  <2>2. CASE waiterPool = <<>>
    <3>1. /\ FreshWaiters # {} /\ w = CHOOSE v \in FreshWaiters : TRUE
          /\ waiterPool' = waiterPool
      BY <1>1, <2>2, Zenon DEF ObtainWaiter
    <3>2. w \in FreshWaiters
      BY <3>1
    <3>3. \A u \in Threads : myWaiter[u] \in Range(myWaiter)
      BY DEF Range, ThreadTypeOK
    <3>4. w \notin Range(waiterPool) /\ w \notin Range(myWaiter)
      BY <3>2 DEF FreshWaiters
    <3> QED
      BY <1>4, <3>1, <3>3, <3>4 DEF ActiveThreads
  <2> QED
    BY <2>1, <2>2
<1>6. w \notin Range(queue)
  BY <1>4, <1>5 DEF WaitersOK
<1>7. Distinct(queue') /\ Range(queue') = Range(queue) \cup {w}
  BY <1>3, <1>4, <1>6, InsertAtRange
<1>8. SortedBy(queue', request')
  <2>1. /\ i <= Len(queue) => r.priority > request[queue[i]].priority
        /\ \A j \in 1..(i - 1) : r.priority <= request[queue[j]].priority
    BY <1>3 DEF BehindAt
  <2>2. request \in [Waiters -> Requests]
    BY DEF WaiterTypeOK
  <2> QED
    BY <1>1, <1>3, <1>4, <1>6, <2>1, <2>2, SortedInsert
<1>9. ActiveThreads' = ActiveThreads \cup {t} /\ t \notin ActiveThreads
  BY <1>2, ActiveMove DEF ActiveThreads, Active
<1>10. myWaiter'[t] = w /\ \A u \in ActiveThreads : myWaiter'[u] = myWaiter[u]
  BY <1>1, <1>9 DEF ActiveThreads, ThreadTypeOK
<1>11. DoneWaiters' = DoneWaiters
  BY <1>2 DEF DoneWaiters, WaiterIsDone
<1>12. WaitersOK(Range(queue'), Range(waiterPool'), DoneWaiters', ActiveThreads', myWaiter')
  BY <1>4, <1>5, <1>7, <1>9, <1>10, <1>11, JoinOK
<1>13. NonceInv'
  BY <1>1, <1>2, <1>4 DEF NonceInv, ThreadTypeOK, Active
<1>14. FrameInv'
  <2>1. PICK x \in {"none", "armed"} : signal' = [signal EXCEPT ![t] = x] /\ (x = "armed" => t \in Cancellable)
    BY DEF Enqueue
  <2> QED
    BY <1>1, <1>2, <2>1 DEF FrameInv, ThreadTypeOK, Waiting, Active
<1>15. ClosedInv'
  BY <1>2 DEF ClosedInv
<1> QED
  BY <1>5, <1>7, <1>8, <1>12, <1>13, <1>14, <1>15 DEF WaiterInv

LEMMA RecheckWaits == ASSUME WInv, NEW t \in Threads, Recheck(t) PROVE Waits'
<1> USE DEF WInv, Waits, IInv
<1> DEFINE w == myWaiter[t]
<1>1. /\ LockFree /\ pc[t] = "parked" /\ pc' = [pc EXCEPT ![t] = "returning"]
      /\ UNCHANGED <<isOpen, scan, queue, myWaiter, myNonce, signal>>
  BY DEF Recheck, poolVars
<1>2. ActiveThreads' = ActiveThreads \ {t} /\ t \in ActiveThreads
  BY <1>1, ActiveMove DEF ActiveThreads, Active
<1>3. ClosedInv'
  BY <1>1, ClosedFrame
<1>4. FrameInv'
  <2>1. holds' = [holds EXCEPT ![t] = holds'[t]]
    BY DEF Recheck, ThreadTypeOK
  <2> QED
    BY <1>1, <2>1 DEF FrameInv, ThreadTypeOK, Waiting, Active
<1>5. CASE ~isOpen
  BY <1>1, <1>3, <1>4, <1>5 DEF WaiterInv
<1>6. CASE isOpen
  <2>1. /\ WaiterIsDone(w)
        /\ waiterPool' = <<w>> \o waiterPool
        /\ assigned' = [assigned EXCEPT ![w] = None] /\ exception' = [exception EXCEPT ![w] = "none"]
        /\ request' = [request EXCEPT ![w] = NoRequest]
        /\ nonce' = [nonce EXCEPT ![w] = IF Cancellable = {} THEN @ ELSE @ + 1]
    BY <1>6 DEF Recheck, WaiterIsDone
  <2>2. w \in Waiters /\ w \in DoneWaiters
    BY <1>1, <2>1 DEF ThreadTypeOK, Waiting, DoneWaiters
  <2>3. /\ queue \in Seq(Waiters) /\ waiterPool \in Seq(Waiters) /\ Distinct(queue) /\ Distinct(waiterPool)
        /\ NonceInv /\ SortedBy(queue, request)
        /\ WaitersOK(Range(queue), Range(waiterPool), DoneWaiters, ActiveThreads, myWaiter)
    BY <1>6 DEF WaiterInv, WaiterTypeOK
  <2>4. DoneWaiters' = DoneWaiters \ {w}
    BY <2>1, <2>2 DEF DoneWaiters, WaiterIsDone, WaiterTypeOK
  <2>5. w \notin Range(waiterPool) /\ w \notin Range(queue)
    BY <1>2, <2>2, <2>3 DEF WaitersOK
  <2>6. Distinct(waiterPool') /\ Range(waiterPool') = Range(waiterPool) \cup {w}
    BY <2>1, <2>2, <2>3, <2>5, ConsRange
  <2>7. WaitersOK(Range(queue'), Range(waiterPool'), DoneWaiters', ActiveThreads', myWaiter')
    BY <1>1, <1>2, <2>2, <2>3, <2>4, <2>6, LeaveOK
  <2>8. SortedBy(queue', request')
    <3>1. \A j \in 1..Len(queue) : queue[j] \in Waiters /\ queue[j] # w
      BY <2>3, <2>5, ElementOfSeq, RangeIsIndexed
    <3>2. \A j \in 1..Len(queue) : request'[queue[j]] = request[queue[j]]
      BY <2>1, <3>1 DEF WaiterTypeOK
    <3> QED
      BY <1>1, <2>3, <3>2 DEF SortedBy
  <2>9. NonceInv'
    <3> SUFFICES ASSUME NEW u \in Threads
                 PROVE  /\ pc'[u] \in Active => nonce'[myWaiter[u]] = myNonce[u]
                        /\ pc'[u] = "returning" /\ Cancellable # {} => myNonce[u] < nonce'[myWaiter[u]]
      BY <1>1 DEF NonceInv
    <3>1. nonce \in [Waiters -> Nat] /\ myNonce[u] \in Nat /\ pc' = [pc EXCEPT ![t] = "returning"]
      BY <1>1 DEF WaiterTypeOK, ThreadTypeOK
    <3>2. CASE u = t
      <4>1. pc'[u] = "returning" /\ nonce[w] = myNonce[u]
        BY <1>1, <2>3, <3>1, <3>2 DEF NonceInv, ThreadTypeOK, Active
      <4> QED
        BY <2>1, <2>2, <3>1, <3>2, <4>1 DEF Active
    <3>3. CASE u # t /\ pc[u] \in Active
      <4>1. myWaiter[u] # w
        BY <1>2, <2>3, <3>3 DEF WaitersOK, ActiveThreads
      <4>2. pc'[u] = pc[u] /\ nonce'[myWaiter[u]] = nonce[myWaiter[u]]
        BY <2>1, <3>1, <3>3, <4>1 DEF ThreadTypeOK, Waiting, Active
      <4> QED
        BY <2>3, <3>3, <4>2 DEF NonceInv, Active
    <3>4. CASE u # t /\ pc[u] \notin Active
      <4>1. pc'[u] = pc[u]
        BY <3>1, <3>4 DEF ThreadTypeOK
      <4>2. CASE pc[u] = "returning" /\ Cancellable # {}
        <5>1. myWaiter[u] \in Waiters /\ myNonce[u] < nonce[myWaiter[u]]
          BY <2>3, <4>2 DEF NonceInv, ThreadTypeOK, Waiting
        <5>2. nonce[myWaiter[u]] <= nonce'[myWaiter[u]]
          BY <2>1, <3>1, <4>2, <5>1
        <5>3. nonce[myWaiter[u]] \in Nat /\ nonce'[myWaiter[u]] \in Nat
          BY <2>1, <3>1, <5>1
        <5> QED
          BY <3>1, <3>4, <4>1, <5>1, <5>2, <5>3
      <4> QED
        BY <3>4, <4>1, <4>2
    <3> QED
      BY <3>2, <3>3, <3>4
  <2> QED
    BY <1>1, <1>3, <1>4, <2>3, <2>6, <2>7, <2>8, <2>9 DEF WaiterInv
<1> QED
  BY <1>5, <1>6

(* A waiter of the queue is done, with a connection or an exception.       *)
LEMMA ServeWaits ==
    ASSUME WInv, isOpen, isOpen' = isOpen, NEW i \in 1..Len(queue), queue' = RemoveAt(queue, i),
           DoneWaiters' = DoneWaiters \cup {queue[i]},
           UNCHANGED <<waiterPool, fieldVars, pc, myWaiter, myNonce>>
    PROVE  WaiterInv'
<1> USE DEF WInv, Waits, IInv
<1>1. /\ queue \in Seq(Waiters) /\ Distinct(queue) /\ Distinct(waiterPool)
      /\ NonceInv /\ SortedBy(queue, request)
      /\ WaitersOK(Range(queue), Range(waiterPool), DoneWaiters, ActiveThreads, myWaiter)
  BY DEF WaiterInv, WaiterTypeOK
<1>2. Distinct(queue') /\ Range(queue') = Range(queue) \ {queue[i]} /\ queue[i] \in Range(queue)
  BY <1>1, RemoveAtRange, RangeIsIndexed
<1>3. ActiveThreads' = ActiveThreads
  BY DEF ActiveThreads
<1>4. WaitersOK(Range(queue'), Range(waiterPool'), DoneWaiters', ActiveThreads', myWaiter')
  BY <1>1, <1>2, <1>3, ServeOK
<1>5. SortedBy(queue', request')
  BY <1>1, SortedRemove DEF fieldVars
<1>6. NonceInv'
  BY <1>1 DEF NonceInv, fieldVars
<1> QED
  BY <1>1, <1>2, <1>4, <1>5, <1>6 DEF WaiterInv

LEMMA OnCancelWaits == ASSUME WInv, NEW t \in Threads, OnCancel(t) PROVE Waits'
<1> USE DEF WInv, Waits, IInv
<1> DEFINE w == myWaiter[t]
<1>1. /\ LockFree /\ signal[t] = "cancelling" /\ signal' = [signal EXCEPT ![t] = "done"]
      /\ UNCHANGED <<isOpen, waiterPool, fieldVars, assigned, pc, holds, myWaiter, myNonce>>
  BY DEF OnCancel, poolVars
<1>2. FrameInv'
  BY <1>1 DEF FrameInv, ThreadTypeOK, Waiting, Active
<1>3. ActiveThreads' = ActiveThreads
  BY <1>1 DEF ActiveThreads
<1>4. isOpen => UNCHANGED <<nonce, pc, myWaiter, myNonce>> /\ NonceInv
  BY <1>1 DEF fieldVars, WaiterInv
<1>5. CASE UNCHANGED <<queue, scan, exception>>
  <2>1. ClosedInv'
    BY <1>1, <1>5, ClosedFrame
  <2>2. isOpen => NonceInv'
    BY <1>4 DEF NonceInv
  <2> QED
    BY <1>1, <1>2, <1>3, <1>5, <2>1, <2>2, WaiterFrame DEF fieldVars
<1>6. ASSUME NEW i \in DOMAIN queue, queue[i] = w, queue' = RemoveAt(queue, i),
             StartScan(RemoveAt(queue, i)), exception' = [exception EXCEPT ![w] = "canceled"]
      PROVE  Waits'
  <2>1. i \in 1..Len(queue) /\ queue \in Seq(Waiters) /\ w \in Waiters
    BY <1>6, LenProperties, ElementOfSeq DEF WaiterTypeOK
  <2>2. isOpen
    <3>1. CASE ~isOpen
      <4>1. queue = <<>> /\ Len(queue) = 0
        BY <1>1, <3>1 DEF ClosedInv
      <4> QED
        BY <2>1, <4>1
    <3> QED
      BY <3>1
  <2>3. DoneWaiters' = DoneWaiters \cup {w}
    BY <1>1, <1>6, <2>1 DEF DoneWaiters, WaiterIsDone, WaiterTypeOK
  <2>4. WaiterInv'
    BY <1>1, <1>6, <2>1, <2>2, <2>3, ServeWaits
  <2>5. ClosedInv'
    BY <1>1, <2>2 DEF ClosedInv
  <2> QED
    BY <1>2, <2>4, <2>5
<1> QED
  BY <1>5, <1>6 DEF OnCancel

LEMMA WakeStepWaits == ASSUME WInv, WakeStep PROVE Waits'
<1> USE DEF WInv, Waits, IInv
<1> DEFINE w == queue[scan.at]
           rest == RemoveAt(queue, scan.at)
<1>1. /\ scan.at \in 1..Len(queue) /\ ~LockFree
      /\ queue \in Seq(Waiters) /\ Len(queue) \in Nat /\ w \in Waiters
  BY LenProperties, ElementOfSeq DEF WakeStep, LockFree, WaiterTypeOK
<1>2. UNCHANGED <<isOpen, waiterPool, fieldVars, pc, holds, myWaiter, myNonce, signal>>
  BY DEF WakeStep, threadVars, poolVars
<1>3. FrameInv'
  BY <1>2 DEF FrameInv
<1>4. CASE ~isOpen
  <2>1. queue' = rest /\ ContinueScan(rest, scan) /\ scan.at = 1
    BY <1>1, <1>4 DEF WakeStep, ClosedInv
  <2>2. rest \in Seq(Waiters)
    BY <1>1, RemoveAtType
  <2>3. CASE 1 > Len(rest)
    <3>1. scan' = NoScan /\ Len(rest) = 0
      BY <2>1, <2>2, <2>3, LenProperties DEF ContinueScan
    <3>2. rest = <<>>
      BY <2>2, <3>1, EmptySeq
    <3> QED
      BY <1>2, <1>3, <1>4, <2>1, <3>1, <3>2 DEF ClosedInv, LockFree, WaiterInv
  <2>4. CASE ~(1 > Len(rest))
    <3>1. scan' = scan
      BY <2>1, <2>4 DEF ContinueScan
    <3> QED
      BY <1>1, <1>2, <1>3, <1>4, <2>1, <3>1 DEF ClosedInv, LockFree, WaiterInv
  <2> QED
    BY <2>3, <2>4
<1>5. CASE isOpen
  <2>1. ClosedInv'
    BY <1>2, <1>5 DEF ClosedInv
  <2>2. CASE queue' = rest /\ UNCHANGED exception /\ \E c \in Connections : assigned' = [assigned EXCEPT ![w] = c]
    <3>1. DoneWaiters' = DoneWaiters \cup {w}
      BY <1>1, <2>2, PoolAssumption DEF DoneWaiters, WaiterIsDone, WaiterTypeOK
    <3> QED
      BY <1>1, <1>2, <1>3, <1>5, <2>1, <2>2, <3>1, ServeWaits
  <2>3. CASE queue' = rest /\ UNCHANGED assigned /\ exception' = [exception EXCEPT ![w] = "failed"]
    <3>1. DoneWaiters' = DoneWaiters \cup {w}
      BY <1>1, <2>3, PoolAssumption DEF DoneWaiters, WaiterIsDone, WaiterTypeOK
    <3> QED
      BY <1>1, <1>2, <1>3, <1>5, <2>1, <2>3, <3>1, ServeWaits
  <2>4. CASE UNCHANGED <<queue, assigned, exception>>
    <3>1. ActiveThreads' = ActiveThreads
      BY <1>2 DEF ActiveThreads
    <3>2. NonceInv'
      BY <1>2, <1>5 DEF NonceInv, WaiterInv, fieldVars
    <3> QED
      BY <1>2, <1>3, <1>5, <2>1, <2>4, <3>1, <3>2, WaiterFrame DEF fieldVars
  <2> QED
    BY <1>5, <2>2, <2>3, <2>4 DEF WakeStep
<1> QED
  BY <1>4, <1>5

LEMMA PoolStepWaits ==
    ASSUME WInv,
           \/ Close \/ ReconfigureInPlace \/ ReconfigureOpenFlags \/ ReconfigureWAL
           \/ \E c \in Connections : ClearWeakReference(c) \/ FinalizeConnection(c)
    PROVE  Waits'
<1> USE DEF WInv, Waits, IInv
<1>1. /\ isOpen' => isOpen
      /\ UNCHANGED <<queue, waiterPool, fieldVars, assigned, exception, pc, holds, myWaiter, myNonce, signal>>
  <2>1. CASE Close
    BY <2>1 DEF Close, threadVars
  <2>2. CASE ReconfigureInPlace \/ ReconfigureOpenFlags \/ ReconfigureWAL
    BY <2>2 DEF ReconfigureInPlace, ReconfigureOpenFlags, ReconfigureWAL, threadVars
  <2>3. ASSUME NEW c \in Connections, ClearWeakReference(c) \/ FinalizeConnection(c)
        PROVE  /\ isOpen' => isOpen
               /\ UNCHANGED <<queue, waiterPool, fieldVars, assigned, exception, pc, holds,
                              myWaiter, myNonce, signal>>
    BY <2>3 DEF ClearWeakReference, FinalizeConnection, threadVars
  <2> QED
    BY <2>1, <2>2, <2>3
<1>2. FrameInv'
  BY <1>1 DEF FrameInv
<1>3. ActiveThreads' = ActiveThreads /\ (isOpen => NonceInv')
  BY <1>1 DEF ActiveThreads, NonceInv, WaiterInv, fieldVars
<1>4. ClosedInv'
  <2>1. CASE Close
    <3>1. StartScan(queue) /\ queue' = queue
      BY <2>1 DEF Close
    <3> QED
      BY <3>1 DEF StartScan, ClosedInv, LockFree, NoScan
  <2>2. CASE isOpen'
    BY <2>2 DEF ClosedInv
  <2>3. CASE \E c \in Connections : ClearWeakReference(c) \/ FinalizeConnection(c)
    <3>1. UNCHANGED <<isOpen, scan>>
      BY <2>3 DEF ClearWeakReference, FinalizeConnection
    <3> QED
      BY <1>1, <3>1 DEF ClosedInv, LockFree
  <2> QED
    BY <2>1, <2>2, <2>3 DEF ReconfigureInPlace, ReconfigureOpenFlags, ReconfigureWAL
<1> QED
  BY <1>1, <1>2, <1>3, <1>4, WaiterFrame DEF fieldVars

LEMMA InitWInv == Init => WInv
<1> SUFFICES ASSUME Init PROVE WInv
  OBVIOUS
<1>1. IInv
  BY InitIInv
<1>2. Range(queue) = {} /\ Range(waiterPool) = {} /\ Len(queue) = 0 /\ Len(waiterPool) = 0
  BY DEF Init, Range
<1>3. DoneWaiters = {} /\ ActiveThreads = {}
  BY DEF Init, DoneWaiters, WaiterIsDone, ActiveThreads, Active
<1>4. FrameInv /\ ClosedInv /\ NonceInv
  BY DEF Init, FrameInv, ClosedInv, NonceInv, Active
<1> QED
  BY <1>1, <1>2, <1>3, <1>4 DEF WInv, Waits, WaiterInv, WaitersOK, Distinct, SortedBy

LEMMA NextWInv == WInv /\ [Next]_vars => WInv'
<1> SUFFICES ASSUME WInv, [Next]_vars PROVE WInv'
  OBVIOUS
<1>1. IInv'
  BY NextIInv DEF WInv
<1>2. ASSUME NEW t \in Threads, ThreadStep(t) PROVE Waits'
  BY <1>2, AcquireNowWaits, EnqueueWaits, RegisterListenerWaits, DetectLeakWaits, RecoverLeakWaits,
     RecheckWaits, RemoveListenerWaits, CancelWaits, OnCancelWaits, ReleaseWaits DEF ThreadStep
<1>3. CASE UNCHANGED vars
  <2>1. ActiveThreads' = ActiveThreads /\ (isOpen => NonceInv') /\ ClosedInv' /\ FrameInv'
    BY <1>3 DEF WInv, Waits, ActiveThreads, NonceInv, WaiterInv, ClosedInv, LockFree, FrameInv,
       vars, fieldVars, threadVars, poolVars
  <2> QED
    BY <1>1, <1>3, <2>1, WaiterFrame DEF WInv, Waits, vars, fieldVars, threadVars, poolVars
<1> QED
  BY <1>1, <1>2, <1>3, WakeStepWaits, PoolStepWaits DEF WInv, Next

(* A listener that finds the nonce it was set with belongs to a thread     *)
(* that still waits, as long as the pool is open.                          *)
LEMMA ListenerIsCurrent ==
    ASSUME WInv, NEW t \in Threads, isOpen, signal[t] = "cancelling", NotRecycled(t)
    PROVE  pc[t] \in {"parked", "recovering"} /\ t \in ActiveThreads
<1> USE DEF WInv, Waits, IInv
<1>1. pc[t] \in {"parked", "recovering", "returning"} /\ Cancellable # {}
  BY DEF FrameInv, ThreadTypeOK, Waiting
<1>2. pc[t] # "returning"
  <2> SUFFICES ASSUME pc[t] = "returning" PROVE FALSE
    OBVIOUS
  <2>1. myNonce[t] < nonce[myWaiter[t]]
    BY <1>1 DEF WaiterInv, NonceInv
  <2>2. myNonce[t] \in Nat /\ myNonce[t] = nonce[myWaiter[t]]
    BY DEF ThreadTypeOK, NotRecycled
  <2> QED
    BY <2>1, <2>2
<1> QED
  BY <1>1, <1>2 DEF ActiveThreads, Active

LEMMA CancelFinds == WInv /\ CancelFindsWaiter /\ [Next]_vars => CancelFindsWaiter'
<1> SUFFICES ASSUME WInv, CancelFindsWaiter, [Next]_vars PROVE CancelFindsWaiter'
  OBVIOUS
<1> USE DEF WInv, Waits, IInv
<1>1. ASSUME NEW t \in Threads, OnCancel(t) PROVE CancelFindsWaiter'
  <2> DEFINE w == myWaiter[t]
  <2>1. isOpen' = isOpen /\ signal[t] = "cancelling"
    BY <1>1 DEF OnCancel, poolVars
  <2>2. CASE isOpen /\ NotRecycled(t) /\ ~WaiterIsDone(w)
    <3>1. t \in ActiveThreads
      BY <2>1, <2>2, ListenerIsCurrent
    <3>2. w \in Waiters /\ w \notin DoneWaiters
      BY <2>2, <3>1 DEF ActiveThreads, Active, ThreadTypeOK, Waiting, DoneWaiters
    <3>3. w \in Range(queue)
      BY <2>2, <3>1, <3>2 DEF WaiterInv, WaitersOK
    <3>4. Contains(queue, w)
      <4>1. queue \in Seq(Waiters)
        BY DEF WaiterTypeOK
      <4> QED
        BY <3>3, <4>1, RangeIsIndexed DEF Contains
    <3>5. npe' = npe
      BY <1>1, <2>2, <3>4 DEF OnCancel
    <3> QED
      BY <2>1, <3>5 DEF CancelFindsWaiter
  <2>3. CASE ~isOpen
    BY <2>1, <2>3 DEF CancelFindsWaiter
  <2>4. CASE ~(NotRecycled(t) /\ ~WaiterIsDone(w))
    <3>1. npe' = npe
      BY <1>1, <2>4 DEF OnCancel
    <3> QED
      BY <2>1, <3>1 DEF CancelFindsWaiter
  <2> QED
    BY <2>2, <2>3, <2>4
<1>2. ASSUME UNCHANGED npe, isOpen' => isOpen PROVE CancelFindsWaiter'
  BY <1>2 DEF CancelFindsWaiter
<1>3. ASSUME NEW t \in Threads,
             \/ AcquireNow(t) \/ Enqueue(t) \/ RegisterListener(t) \/ DetectLeak(t) \/ RecoverLeak(t)
             \/ Recheck(t) \/ RemoveListener(t) \/ Cancel(t) \/ Release(t) \/ Abandon(t)
      PROVE  UNCHANGED <<npe, isOpen>>
  BY <1>3 DEF AcquireNow, Enqueue, RegisterListener, DetectLeak, RecoverLeak, Recheck, RemoveListener,
     Cancel, Release, Abandon, poolVars
<1>4. CASE WakeStep
  BY <1>2, <1>4 DEF WakeStep, poolVars
<1>5. CASE Close \/ ReconfigureInPlace \/ ReconfigureOpenFlags \/ ReconfigureWAL
  BY <1>2, <1>5 DEF Close, ReconfigureInPlace, ReconfigureOpenFlags, ReconfigureWAL
<1>6. ASSUME NEW c \in Connections, ClearWeakReference(c) \/ FinalizeConnection(c)
      PROVE  CancelFindsWaiter'
  BY <1>2, <1>6 DEF ClearWeakReference, FinalizeConnection
<1>7. CASE UNCHANGED vars
  BY <1>2, <1>7 DEF vars, poolVars
<1> QED
  BY <1>1, <1>2, <1>3, <1>4, <1>5, <1>6, <1>7 DEF Next, ThreadStep

(* Who cancels a wait: the part of OnlyOwnSignalCancels for one step.      *)
LEMMA OwnSignal ==
    ASSUME WInv, [Next]_vars, NEW w \in Waiters, exception[w] # "canceled", exception'[w] = "canceled"
    PROVE  \E t \in Threads : /\ myWaiter[t] = w /\ signal[t] = "cancelling"
                              /\ pc[t] \in {"parked", "recovering"}
<1> USE DEF WInv, Waits, IInv
<1>1. ASSUME NEW t \in Threads, OnCancel(t)
      PROVE  /\ myWaiter[t] = w /\ signal[t] = "cancelling"
             /\ pc[t] \in {"parked", "recovering"}
  <2>1. LockFree /\ signal[t] = "cancelling"
    BY <1>1 DEF OnCancel
  <2>2. /\ NotRecycled(t) /\ DOMAIN queue # {}
        /\ exception' = [exception EXCEPT ![myWaiter[t]] = "canceled"]
    BY <1>1 DEF OnCancel
  <2>3. myWaiter[t] = w
    BY <2>2 DEF WaiterTypeOK
  <2>4. isOpen
    BY <2>1, <2>2 DEF ClosedInv
  <2> QED
    BY <2>1, <2>2, <2>3, <2>4, ListenerIsCurrent
<1>2. ASSUME NEW t \in Threads,
             \/ AcquireNow(t) \/ Enqueue(t) \/ RegisterListener(t) \/ DetectLeak(t) \/ RecoverLeak(t)
             \/ RemoveListener(t) \/ Cancel(t) \/ Release(t) \/ Abandon(t)
      PROVE  FALSE
  BY <1>2 DEF AcquireNow, Enqueue, RegisterListener, DetectLeak, RecoverLeak, RemoveListener,
     Cancel, Release, Abandon
<1>3. ASSUME NEW t \in Threads, Recheck(t) PROVE FALSE
  <2>1. exception' = exception \/ exception' = [exception EXCEPT ![myWaiter[t]] = "none"]
    BY <1>3 DEF Recheck
  <2> QED
    BY <2>1 DEF WaiterTypeOK
<1>4. CASE WakeStep
  <2>1. exception' = exception \/ exception' = [exception EXCEPT ![queue[scan.at]] = "failed"]
    BY <1>4 DEF WakeStep
  <2> QED
    BY <2>1 DEF WaiterTypeOK
<1>5. CASE Close \/ ReconfigureInPlace \/ ReconfigureOpenFlags \/ ReconfigureWAL
  BY <1>5 DEF Close, ReconfigureInPlace, ReconfigureOpenFlags, ReconfigureWAL
<1>6. ASSUME NEW c \in Connections, ClearWeakReference(c) \/ FinalizeConnection(c) PROVE FALSE
  BY <1>6 DEF ClearWeakReference, FinalizeConnection
<1>7. CASE UNCHANGED vars
  BY <1>7 DEF vars
<1> QED
  BY <1>1, <1>2, <1>3, <1>4, <1>5, <1>6, <1>7 DEF Next, ThreadStep

THEOREM WaitersInvariant == Spec => []WInv
  BY InitWInv, NextWInv, PTL DEF Spec

-----------------------------------------------------------------------------
(* Who uses which connection.                                              *)

Exclusive ==
    /\ \A t, u \in Threads : holds[t] = holds[u] /\ holds[t] # None => t = u
    /\ \A v, w \in Waiters : assigned[v] = assigned[w] /\ assigned[v] # None => v = w
    /\ \A t \in Threads, w \in Waiters : holds[t] # None => holds[t] # assigned[w]

Recorded ==
    /\ \A t \in Threads : holds[t] \in Acquired \cup {None}
    /\ \A w \in Waiters : assigned[w] \in Acquired \cup {None}

Used(c) == (\E t \in Threads : holds[t] = c) \/ \E w \in Waiters : assigned[w] = c

(* Nothing is lost if no thread ends with a connection.                    *)
Kept ==
    /\ \A c \in Connections : kind[c] = "closed" \/ c \in Available \/ Used(c)
    /\ ~leaked /\ \A t \in Threads : pc[t] # "recovering"

Owners == Exclusive /\ (isOpen => Recorded) /\ (isOpen /\ Leaky = {} => Kept)

OInv == WInv /\ Owners

(* What is taken was nobody's, and nothing else changes.                   *)
LEMMA TakenWasFree ==
    ASSUME PoolInv, NEW c \in Connections, NEW np, NEW p, TryTake(c, np, p)
    PROVE  /\ c # None /\ c \notin Acquired /\ Acquired' = Acquired \cup {c} /\ kind'[c] # "closed"
           /\ \A d \in Connections : d # c => kind'[d] = kind[d] /\ (d \in Available => d \in Available')
<1> USE DEF PoolInv, PoolTypeOK, Kinds, Statuses
<1>1. c # None
  BY PoolAssumption
<1>2. CASE TakeNonPrimary(c)
  <2>1. status[c] = "none" /\ kind'[c] # "closed" /\ \A d \in Connections : d # c => kind'[d] = kind[d]
    BY <1>1, <1>2, FreshIsClosed DEF TakeNonPrimary, Bookkeeping, Open
  <2>2. /\ status' = [status EXCEPT ![c] = "NORMAL"] /\ availablePrimary' = availablePrimary
        /\ availableNonPrimary' = availableNonPrimary \ {c}
    BY <1>2 DEF TakeNonPrimary
  <2> QED
    BY <1>1, <2>1, <2>2 DEF Acquired, Available
<1>3. CASE TakePrimary(c)
  <2>1. status[c] = "none" /\ kind'[c] # "closed" /\ \A d \in Connections : d # c => kind'[d] = kind[d]
    BY <1>1, <1>3, FreshIsClosed DEF TakePrimary, Bookkeeping, Open
  <2>2. /\ status' = [status EXCEPT ![c] = "NORMAL"] /\ availableNonPrimary' = availableNonPrimary
        /\ availablePrimary \in {None, c}
    BY <1>3 DEF TakePrimary
  <2> QED
    BY <1>1, <2>1, <2>2 DEF Acquired, Available
<1> QED
  BY <1>2, <1>3 DEF TryTake

(* A connection that was promised is reachable: the thread waits for it.   *)
LEMMA PromisedIsReachable ==
    ASSUME WInv, isOpen, NEW w \in Waiters, assigned[w] # None
    PROVE  Reachable(assigned[w])
<1> USE DEF WInv, Waits, IInv
<1>1. w \in DoneWaiters
  BY DEF DoneWaiters, WaiterIsDone
<1>2. PICK t \in ActiveThreads : myWaiter[t] = w
  BY <1>1 DEF WaiterInv, WaitersOK
<1> QED
  BY <1>2, PoolAssumption DEF ActiveThreads, Reachable

LEMMA UsedIsReachable ==
    ASSUME WInv, isOpen, NEW c \in Connections, Used(c)
    PROVE  Reachable(c)
<1>1. c # None
  BY PoolAssumption
<1> QED
  BY <1>1, PromisedIsReachable DEF Used, Reachable

LEMMA OwnersFrame ==
    ASSUME Owners, UNCHANGED <<poolVars, holds, assigned>>,
           \A t \in Threads : pc'[t] = "recovering" => pc[t] = "recovering" \/ leaked,
           leaked' => leaked
    PROVE  Owners'
<1>1. Exclusive' /\ (isOpen => Recorded')
  BY DEF Owners, Exclusive, Recorded, Acquired, poolVars
<1>2. isOpen /\ Leaky = {} => Kept'
  BY DEF Owners, Kept, Used, Available, poolVars
<1> QED
  BY <1>1, <1>2 DEF Owners, poolVars

LEMMA AcquireNowOwners == ASSUME OInv, NEW t \in Threads, AcquireNow(t) PROVE Owners'
<1> USE DEF OInv, WInv, Waits, IInv
<1>1. PICK c \in Connections, np \in BOOLEAN :
          TryTake(c, np, TRUE) /\ holds' = [holds EXCEPT ![t] = c]
  BY PoolAssumption DEF AcquireNow
<1>2. /\ isOpen /\ isOpen' = isOpen /\ pc[t] = "idle" /\ pc' = [pc EXCEPT ![t] = "holding"]
      /\ UNCHANGED <<leaked, assigned>>
  BY DEF AcquireNow
<1>3. /\ c # None /\ c \notin Acquired /\ Acquired' = Acquired \cup {c} /\ kind'[c] # "closed"
      /\ \A d \in Connections : d # c => kind'[d] = kind[d] /\ (d \in Available => d \in Available')
  BY <1>1, TakenWasFree
<1>4. holds[t] = None /\ holds \in [Threads -> Connections \cup {None}]
  BY <1>2 DEF FrameInv, Active, ThreadTypeOK
<1>5. Recorded /\ Exclusive
  BY <1>2 DEF Owners
<1>6. Exclusive'
  BY <1>1, <1>2, <1>3, <1>4, <1>5 DEF Exclusive, Recorded
<1>7. Recorded'
  BY <1>1, <1>2, <1>3, <1>4, <1>5 DEF Recorded
<1>8. Leaky = {} => Kept'
  <2> SUFFICES ASSUME Leaky = {} PROVE Kept'
    OBVIOUS
  <2>1. Kept
    BY <1>2 DEF Owners
  <2>2. ASSUME NEW d \in Connections PROVE kind'[d] = "closed" \/ d \in Available' \/ Used(d)'
    <3>1. CASE d = c
      BY <1>1, <1>4, <3>1 DEF Used
    <3>2. CASE d # c
      <4>1. Used(d) => Used(d)'
        BY <1>1, <1>2, <1>4, PoolAssumption DEF Used
      <4> QED
        BY <1>3, <2>1, <3>2, <4>1 DEF Kept
    <3> QED
      BY <3>1, <3>2
  <2>3. ~leaked' /\ \A u \in Threads : pc'[u] # "recovering"
    BY <1>2, <2>1 DEF Kept, ThreadTypeOK
  <2> QED
    BY <2>2, <2>3 DEF Kept
<1> QED
  BY <1>2, <1>6, <1>7, <1>8 DEF Owners

LEMMA WakeStepOwners == ASSUME OInv, WakeStep PROVE Owners'
<1> USE DEF OInv, WInv, Waits, IInv
<1> DEFINE w == queue[scan.at]
<1>1. /\ scan.at \in 1..Len(queue) /\ queue \in Seq(Waiters) /\ w \in Waiters /\ w \in Range(queue)
  BY LenProperties, ElementOfSeq, RangeIsIndexed DEF WakeStep, LockFree, WaiterTypeOK
<1>2. UNCHANGED <<leaked, pc, holds, isOpen>>
  BY DEF WakeStep, threadVars, poolVars
<1>3. CASE UNCHANGED <<poolVars, assigned>>
  BY <1>2, <1>3, OwnersFrame
<1>4. ASSUME isOpen, NEW c \in Connections, NEW np, NEW p, TryTake(c, np, p),
             assigned' = [assigned EXCEPT ![w] = c]
      PROVE  Owners'
  <2>1. /\ c # None /\ c \notin Acquired /\ Acquired' = Acquired \cup {c} /\ kind'[c] # "closed"
        /\ \A d \in Connections : d # c => kind'[d] = kind[d] /\ (d \in Available => d \in Available')
    BY <1>4, TakenWasFree
  <2>2. assigned[w] = None /\ assigned \in [Waiters -> Connections \cup {None}]
    BY <1>1, <1>4 DEF WaiterInv, WaitersOK, DoneWaiters, WaiterIsDone, WaiterTypeOK
  <2>3. Recorded /\ Exclusive
    BY <1>4 DEF Owners
  <2>4. Exclusive'
    BY <1>2, <1>4, <2>1, <2>2, <2>3 DEF Exclusive, Recorded
  <2>5. Recorded'
    BY <1>2, <1>4, <2>1, <2>2, <2>3 DEF Recorded
  <2>6. Leaky = {} => Kept'
    <3> SUFFICES ASSUME Leaky = {} PROVE Kept'
      OBVIOUS
    <3>1. Kept
      BY <1>4 DEF Owners
    <3>2. ASSUME NEW d \in Connections PROVE kind'[d] = "closed" \/ d \in Available' \/ Used(d)'
      <4>1. CASE d = c
        BY <1>1, <1>4, <2>2, <4>1 DEF Used
      <4>2. CASE d # c
        <5>1. Used(d) => Used(d)'
          BY <1>2, <1>4, <2>2, PoolAssumption DEF Used
        <5> QED
          BY <2>1, <3>1, <4>2, <5>1 DEF Kept
      <4> QED
        BY <4>1, <4>2
    <3>3. ~leaked' /\ \A u \in Threads : pc'[u] # "recovering"
      BY <1>2, <3>1 DEF Kept
    <3> QED
      BY <3>2, <3>3 DEF Kept
  <2> QED
    BY <1>2, <2>4, <2>5, <2>6 DEF Owners
<1> QED
  BY <1>3, <1>4 DEF WakeStep

LEMMA RecheckOwners == ASSUME OInv, NEW t \in Threads, Recheck(t) PROVE Owners'
<1> USE DEF OInv, WInv, Waits, IInv
<1> DEFINE w == myWaiter[t]
<1>1. /\ pc[t] = "parked" /\ pc' = [pc EXCEPT ![t] = "returning"] /\ UNCHANGED <<poolVars, leaked>>
  BY DEF Recheck
<1>2. /\ w \in Waiters /\ holds[t] = None /\ holds \in [Threads -> Connections \cup {None}]
      /\ assigned \in [Waiters -> Connections \cup {None}]
      /\ \A u \in Threads : pc'[u] = "recovering" => pc[u] = "recovering"
  BY <1>1 DEF FrameInv, Active, ThreadTypeOK, Waiting, WaiterTypeOK
<1>3. CASE UNCHANGED <<assigned, holds>>
  BY <1>1, <1>2, <1>3, OwnersFrame
<1>4. CASE /\ holds' = [holds EXCEPT ![t] = assigned[w]] /\ assigned' = [assigned EXCEPT ![w] = None]
  <2>1. Exclusive'
    BY <1>2, <1>4 DEF Owners, Exclusive
  <2>2. Acquired' = Acquired /\ Available' = Available
    BY <1>1 DEF Acquired, Available, poolVars
  <2>3. isOpen => Recorded'
    BY <1>2, <1>4, <2>2 DEF Owners, Recorded
  <2>4. isOpen /\ Leaky = {} => Kept'
    <3>1. \A d \in Connections : Used(d) => Used(d)'
      BY <1>2, <1>4, PoolAssumption DEF Used
    <3> QED
      BY <1>1, <1>2, <2>2, <3>1 DEF Owners, Kept, poolVars
  <2> QED
    BY <1>1, <2>1, <2>3, <2>4 DEF Owners, poolVars
<1> QED
  BY <1>3, <1>4 DEF Recheck

LEMMA ReleaseOwners == ASSUME OInv, NEW t \in Threads, Release(t) PROVE Owners'
<1> USE DEF OInv, WInv, Waits, IInv
<1> DEFINE c == holds[t]
<1>1. /\ pc[t] = "holding" /\ pc' = [pc EXCEPT ![t] = "idle"] /\ holds' = [holds EXCEPT ![t] = None]
      /\ status' = [status EXCEPT ![c] = "none"]
      /\ UNCHANGED <<isOpen, leaked, assigned>>
  BY DEF Release
<1>2. /\ c \in Connections /\ c # None /\ holds \in [Threads -> Connections \cup {None}]
      /\ status \in [Connections -> Statuses] /\ kind \in [Connections -> Kinds]
      /\ \A u \in Threads : pc'[u] = "recovering" => pc[u] = "recovering"
  BY <1>1, PoolAssumption DEF ThreadTypeOK, PoolInv, PoolTypeOK
<1>3. Exclusive'
  BY <1>1, <1>2 DEF Owners, Exclusive
<1>4. Acquired' = Acquired \ {c}
  BY <1>1, <1>2 DEF Acquired, Statuses
<1>5. isOpen => Recorded'
  BY <1>1, <1>2, <1>4, PoolAssumption DEF Owners, Recorded, Exclusive
<1>6. isOpen /\ Leaky = {} => Kept'
  <2> SUFFICES ASSUME isOpen, Leaky = {} PROVE Kept'
    OBVIOUS
  <2>1. \A d \in Connections : Used(d) => d = c \/ Used(d)'
    BY <1>1, <1>2 DEF Used
  <2>2. kind'[c] = "closed" \/ c \in Available'
    BY <1>2 DEF Release, Discarded, ClosedAll, Available
  <2>3. ASSUME NEW d \in Connections, d # c
        PROVE  kind'[d] = kind[d] /\ (d \in Available => d \in Available')
    <3>1. CASE Discarded(c)
      BY <1>2, <2>3, <3>1 DEF Discarded, ClosedAll, Available
    <3>2. CASE kind[c] = "primary" /\ Recycled(c) /\ availablePrimary' = c /\ UNCHANGED <<kind, availableNonPrimary>>
      <4>1. availablePrimary = None
        <5> SUFFICES ASSUME availablePrimary # None PROVE FALSE
          OBVIOUS
        <5>1. availablePrimary \in LivePrimaries /\ status[availablePrimary] = "none"
          BY DEF PoolInv, PoolTypeOK, Bookkeeping, LivePrimaries
        <5>2. c \in LivePrimaries /\ status[c] # "none"
          BY <1>2, <3>2 DEF LivePrimaries, Recycled
        <5> QED
          BY <5>1, <5>2 DEF PoolInv, OnePrimary
      <4> QED
        BY <2>3, <3>2, <4>1 DEF Available
    <3>3. CASE availableNonPrimary' = availableNonPrimary \cup {c} /\ UNCHANGED <<kind, availablePrimary>>
      BY <3>3 DEF Available
    <3> QED
      BY <3>1, <3>2, <3>3 DEF Release
  <2> QED
    BY <1>1, <1>2, <2>1, <2>2, <2>3 DEF Owners, Kept
<1> QED
  BY <1>1, <1>3, <1>5, <1>6 DEF Owners

LEMMA OtherThreadStepOwners ==
    ASSUME OInv, NEW t \in Threads,
           \/ Enqueue(t) \/ RegisterListener(t) \/ DetectLeak(t) \/ RecoverLeak(t)
           \/ RemoveListener(t) \/ Cancel(t) \/ OnCancel(t) \/ Abandon(t)
    PROVE  Owners'
<1> USE DEF OInv, WInv, Waits, IInv
<1>1. ASSUME NEW x, x # "recovering" \/ leaked, pc' = [pc EXCEPT ![t] = x],
             UNCHANGED <<poolVars, holds, assigned>>, leaked' => leaked
      PROVE  Owners'
  BY <1>1, OwnersFrame DEF ThreadTypeOK
<1>2. CASE Enqueue(t)
  BY <1>1, <1>2 DEF Enqueue
<1>3. CASE RegisterListener(t)
  BY <1>1, <1>3 DEF RegisterListener
<1>4. CASE DetectLeak(t)
  BY <1>1, <1>4 DEF DetectLeak
<1>5. CASE RecoverLeak(t)
  BY <1>1, <1>5 DEF RecoverLeak
<1>6. CASE RemoveListener(t)
  <2>1. (IF holds[t] # None THEN "holding" ELSE "idle") # "recovering"
    OBVIOUS
  <2> QED
    BY <1>1, <1>6, <2>1 DEF RemoveListener
<1>7. CASE Cancel(t) \/ OnCancel(t)
  BY <1>7, OwnersFrame DEF Cancel, OnCancel
<1>8. CASE Abandon(t)
  <2>1. /\ Leaky # {} /\ holds' = [holds EXCEPT ![t] = None] /\ UNCHANGED <<poolVars, assigned>>
    BY <1>8 DEF Abandon
  <2>2. holds \in [Threads -> Connections \cup {None}]
    BY DEF ThreadTypeOK
  <2>3. Exclusive'
    BY <2>1, <2>2 DEF Owners, Exclusive
  <2>4. isOpen => Recorded'
    BY <2>1, <2>2 DEF Owners, Recorded, Acquired, poolVars
  <2> QED
    BY <2>1, <2>3, <2>4 DEF Owners, poolVars
<1> QED
  BY <1>2, <1>3, <1>4, <1>5, <1>6, <1>7, <1>8

LEMMA ReconfigureOwners ==
    ASSUME OInv, Close \/ ReconfigureInPlace \/ ReconfigureOpenFlags \/ ReconfigureWAL
    PROVE  Owners'
<1> USE DEF OInv, WInv, Waits, IInv
<1>1. UNCHANGED <<leaked, holds, assigned, pc>>
  BY DEF Close, ReconfigureInPlace, ReconfigureOpenFlags, ReconfigureWAL, threadVars
<1>2. Exclusive'
  BY <1>1 DEF Owners, Exclusive
<1>3. \A d : Used(d) <=> Used(d)'
  BY <1>1 DEF Used
<1>4. ASSUME isOpen' = isOpen, Acquired' = Acquired,
             \A d \in Connections : kind[d] = "closed" \/ d \in Available
                                      => kind'[d] = "closed" \/ d \in Available',
             \A d \in Connections : kind'[d] = kind[d] \/ kind'[d] = "closed" \/ d \in Available'
      PROVE  Owners'
  <2>1. isOpen => Recorded'
    BY <1>1, <1>4 DEF Owners, Recorded
  <2>2. isOpen /\ Leaky = {} => Kept'
    BY <1>1, <1>3, <1>4 DEF Owners, Kept
  <2> QED
    BY <1>2, <1>4, <2>1, <2>2 DEF Owners
<1>5. CASE Close
  BY <1>2, <1>5 DEF Close, Owners
<1>6. CASE ReconfigureInPlace
  <2>1. PICK closing \in SUBSET Available :
          /\ kind' = ClosedAll(closing)
          /\ availableNonPrimary' = availableNonPrimary \ closing
          /\ availablePrimary' = IF availablePrimary \in closing THEN None ELSE availablePrimary
          /\ status' = Marked("RECONFIGURE") /\ isOpen' = isOpen
    BY <1>6 DEF ReconfigureInPlace, Available
  <2>2. Acquired' = Acquired
    BY <2>1 DEF Acquired, Marked
  <2>3. \A d \in Connections : kind'[d] = IF d \in closing THEN "closed" ELSE kind[d]
    BY <2>1 DEF ClosedAll
  <2>4. \A d \in Available : d \in closing \/ d \in Available'
    BY <2>1 DEF Available
  <2> QED
    BY <1>4, <2>1, <2>2, <2>3, <2>4
<1>7. CASE ReconfigureOpenFlags
  <2>1. /\ kind' = [ClosedAll(Available) EXCEPT ![FreshConnection] = "primary"]
        /\ availablePrimary' = FreshConnection /\ FreshConnection # None
        /\ status' = Marked("DISCARD") /\ isOpen' = isOpen
    BY <1>7 DEF ReconfigureOpenFlags
  <2>2. Acquired' = Acquired
    BY <2>1 DEF Acquired, Marked
  <2>3. \A d \in Connections : kind'[d] = IF d = FreshConnection THEN "primary"
                                           ELSE IF d \in Available THEN "closed" ELSE kind[d]
    BY <2>1 DEF ClosedAll
  <2>4. FreshConnection \in Available'
    BY <2>1 DEF Available
  <2> QED
    BY <1>4, <2>1, <2>2, <2>3, <2>4
<1>8. CASE ReconfigureWAL
  <2>1. /\ status' = status /\ isOpen' = isOpen
        /\ \/ kind' = ClosedAll(Available)
           \/ \E c \in Connections :
                  kind' = [ClosedAll(Available) EXCEPT ![c] = "primary"] /\ availablePrimary' = c
    BY <1>8 DEF ReconfigureWAL
  <2>2. Acquired' = Acquired
    BY <2>1 DEF Acquired
  <2>3. CASE kind' = ClosedAll(Available)
    BY <1>4, <2>1, <2>2, <2>3 DEF ClosedAll
  <2>4. ASSUME NEW c \in Connections,
               kind' = [ClosedAll(Available) EXCEPT ![c] = "primary"], availablePrimary' = c
        PROVE  Owners'
    <3>1. \A d \in Connections : kind'[d] = IF d = c THEN "primary"
                                             ELSE IF d \in Available THEN "closed" ELSE kind[d]
      BY <2>4 DEF ClosedAll
    <3>2. c \in Available'
      BY <2>4, PoolAssumption DEF Available
    <3> QED
      BY <1>4, <2>1, <2>2, <3>1, <3>2
  <2> QED
    BY <2>1, <2>3, <2>4
<1> QED
  BY <1>5, <1>6, <1>7, <1>8

LEMMA CollectOwners ==
    ASSUME OInv, NEW c \in Connections, ClearWeakReference(c) \/ FinalizeConnection(c)
    PROVE  Owners'
<1> USE DEF OInv, WInv, Waits, IInv
<1>1. /\ ~Reachable(c) /\ UNCHANGED <<isOpen, availablePrimary, availableNonPrimary, holds, assigned, pc>>
  BY DEF ClearWeakReference, FinalizeConnection, threadVars
<1>2. isOpen => ~Used(c)
  BY <1>1, UsedIsReachable
<1>3. Exclusive'
  BY <1>1 DEF Owners, Exclusive
<1>4. CASE ClearWeakReference(c)
  <2>1. Acquired' = Acquired \ {c} /\ UNCHANGED <<kind, leaked>>
    BY <1>4 DEF ClearWeakReference, Acquired, PoolInv, PoolTypeOK
  <2>2. isOpen => Recorded'
    BY <1>1, <1>2, <2>1, PoolAssumption DEF Owners, Recorded, Used
  <2>3. isOpen /\ Leaky = {} => Kept'
    BY <1>1, <2>1 DEF Owners, Kept, Used, Available
  <2> QED
    BY <1>1, <1>3, <2>2, <2>3 DEF Owners
<1>5. CASE FinalizeConnection(c)
  <2>1. kind[c] # "closed" /\ c \notin Available /\ status' = status
    BY <1>1, <1>5 DEF FinalizeConnection, Reachable
  <2>2. isOpen => Recorded'
    BY <1>1, <2>1 DEF Owners, Recorded, Acquired
  <2>3. ~(isOpen /\ Leaky = {})
    BY <1>2, <2>1 DEF Owners, Kept
  <2> QED
    BY <1>1, <1>3, <2>2, <2>3 DEF Owners
<1> QED
  BY <1>4, <1>5

LEMMA InitOInv == Init => OInv
<1> SUFFICES ASSUME Init PROVE OInv
  OBVIOUS
<1>1. WInv
  BY InitWInv
<1>2. Exclusive /\ Recorded
  BY DEF Init, Exclusive, Recorded
<1>3. Kept
  <2>1. availablePrimary \in Connections /\ availablePrimary # None
    BY PoolAssumption DEF Init
  <2>2. \A c \in Connections : c = availablePrimary \/ kind[c] = "closed"
    BY DEF Init
  <2>3. ~leaked /\ \A t \in Threads : pc[t] # "recovering"
    BY DEF Init
  <2> QED
    BY <2>1, <2>2, <2>3 DEF Kept, Available
<1> QED
  BY <1>1, <1>2, <1>3 DEF OInv, Owners

LEMMA NextOInv == OInv /\ [Next]_vars => OInv'
<1> SUFFICES ASSUME OInv, [Next]_vars PROVE OInv'
  OBVIOUS
<1>1. WInv'
  BY NextWInv DEF OInv
<1>2. ASSUME NEW t \in Threads, ThreadStep(t) PROVE Owners'
  BY <1>2, AcquireNowOwners, RecheckOwners, ReleaseOwners, OtherThreadStepOwners DEF ThreadStep
<1>3. CASE UNCHANGED vars
  <2>1. Owners'
    BY <1>3, OwnersFrame DEF OInv, vars, threadVars, poolVars
  <2> QED
    BY <1>1, <2>1 DEF OInv
<1> QED
  BY <1>1, <1>2, <1>3, WakeStepOwners, ReconfigureOwners, CollectOwners DEF OInv, Next

THEOREM OwnersInvariant == Spec => []OInv
  BY InitOInv, NextOInv, PTL DEF Spec

-----------------------------------------------------------------------------
(* Wake-ups.                                                               *)

Loose == \E c \in Connections : kind[c] # "closed" /\ c \notin Acquired \cup Available

Refused(w) == ~CanTakePrimary /\ (request[w].wantPrimary \/ ~CanTakeNonPrimary)

(* While no leak is pending, the waiters that a scan has passed, or all of *)
(* them when there is no scan, cannot be granted what they want, and what  *)
(* the scan has found unavailable still is.                                *)
ScanInv ==
    isOpen /\ ~LeakPending =>
        /\ \A i \in 1..Len(queue) : LockFree \/ i < scan.at => Refused(queue[i])
        /\ scan.noPrimary => ~CanTakePrimary
        /\ scan.noNonPrimary => ~CanTakeNonPrimary

SInv == OInv /\ ScanInv

LEMMA RefusedIsNotGrantable ==
    ASSUME NEW w \in Waiters, request[w].wantPrimary \in BOOLEAN
    PROVE  Refused(w) <=> ~Grantable(~request[w].wantPrimary, TRUE)
  BY DEF Refused, Grantable

LEMMA AcquiredIsFinite ==
    ASSUME NEW S \in SUBSET Connections
    PROVE  IsFiniteSet(S) /\ Cardinality(S) \in Nat /\ (Cardinality(S) = 0 <=> S = {})
<1>1. IsFiniteSet(Connections)
  BY PoolAssumption
<1>2. IsFiniteSet(S)
  BY <1>1, FS_Subset
<1> QED
  BY <1>2, FS_CardinalityType, FS_EmptySet

LEMMA OneMore ==
    ASSUME NEW S \in SUBSET Connections, NEW c, c \notin S
    PROVE  Cardinality(S \cup {c}) = Cardinality(S) + 1
<1>1. IsFiniteSet(S)
  BY AcquiredIsFinite
<1> QED
  BY <1>1, FS_AddElement

(* Taking a connection makes no other one available.                       *)
LEMMA TakingAddsNothing ==
    ASSUME PoolInv, NEW c \in Connections, NEW np, NEW p, TryTake(c, np, p), wal' = wal
    PROVE  /\ CanTakePrimary' => CanTakePrimary
           /\ CanTakeNonPrimary' => CanTakeNonPrimary
           /\ Loose => Loose'
<1> USE DEF PoolInv, PoolTypeOK, Kinds, Statuses
<1>1. /\ c # None /\ c \notin Acquired /\ Acquired' = Acquired \cup {c} /\ kind'[c] # "closed"
      /\ \A d \in Connections : d # c => kind'[d] = kind[d] /\ (d \in Available => d \in Available')
  BY TakenWasFree
<1>2. Acquired \in SUBSET Connections /\ MaxConnectionPoolSize' = MaxConnectionPoolSize
      /\ MaxConnectionPoolSize \in Nat
  BY PoolAssumption DEF Acquired, MaxConnectionPoolSize
<1>3. Cardinality(Acquired') = Cardinality(Acquired) + 1 /\ Cardinality(Acquired) \in Nat
  BY <1>1, <1>2, OneMore, AcquiredIsFinite
<1>4. Loose => Loose'
  <2> SUFFICES ASSUME NEW d \in Connections, kind[d] # "closed", d \notin Acquired \cup Available
               PROVE  Loose'
    BY DEF Loose
  <2>1. d # c
    BY FreshIsClosed DEF TryTake, TakeNonPrimary, TakePrimary, Available
  <2>2. Available' \subseteq Available
    BY DEF TryTake, TakeNonPrimary, TakePrimary, Available
  <2> QED
    BY <1>1, <2>1, <2>2 DEF Loose
<1>5. CASE TakeNonPrimary(c)
  <2>1. CanTakeNonPrimary /\ availablePrimary' = availablePrimary
    BY <1>5 DEF TakeNonPrimary
  <2>2. \A d \in Acquired : d # c /\ d \in Connections /\ d \in Acquired'
    BY <1>1 DEF Acquired
  <2>3. CanTakePrimary' => CanTakePrimary
    BY <1>1, <2>1, <2>2 DEF CanTakePrimary
  <2> QED
    BY <1>4, <2>1, <2>3
<1>6. CASE TakePrimary(c)
  <2>1. CanTakePrimary /\ availablePrimary' = None /\ availableNonPrimary' = availableNonPrimary
    BY <1>6 DEF TakePrimary
  <2>2. CanTakeNonPrimary' => CanTakeNonPrimary
    BY <1>2, <1>3, <2>1 DEF CanTakeNonPrimary
  <2> QED
    BY <1>4, <2>1, <2>2
<1> QED
  BY <1>5, <1>6 DEF TryTake

(* A scan that starts has passed nobody and found nothing.                 *)
LEMMA ScanStarts == ASSUME StartScan(queue') PROVE ScanInv'
<1>1. CASE queue' = <<>>
  <2>1. scan' = NoScan /\ Len(queue') = 0
    BY <1>1 DEF StartScan
  <2> QED
    BY <2>1 DEF ScanInv, NoScan
<1>2. CASE queue' # <<>>
  <2>1. scan' = [at |-> 1, noPrimary |-> FALSE, noNonPrimary |-> FALSE]
    BY <1>2 DEF StartScan, NoScan
  <2>2. ~LockFree' /\ ~scan'.noPrimary /\ ~scan'.noNonPrimary /\ \A i \in 1..Len(queue') : ~(i < scan'.at)
    BY <2>1 DEF LockFree, NoScan
  <2> QED
    BY <2>2 DEF ScanInv
<1> QED
  BY <1>1, <1>2

(* Nothing becomes available and no waiter changes its mind.               *)
LEMMA ScanStays ==
    ASSUME ScanInv, isOpen' => isOpen, LeakPending => LeakPending', UNCHANGED <<queue, scan>>,
           isOpen' /\ ~LeakPending => /\ CanTakePrimary' => CanTakePrimary
                                      /\ CanTakeNonPrimary' => CanTakeNonPrimary,
           \A i \in 1..Len(queue) : request'[queue[i]] = request[queue[i]]
    PROVE  ScanInv'
<1> SUFFICES ASSUME isOpen', ~LeakPending'
             PROVE  /\ \A i \in 1..Len(queue') : LockFree' \/ i < scan'.at => Refused(queue[i])'
                    /\ scan'.noPrimary => ~CanTakePrimary'
                    /\ scan'.noNonPrimary => ~CanTakeNonPrimary'
  BY DEF ScanInv
<1>1. /\ \A i \in 1..Len(queue) : LockFree \/ i < scan.at => Refused(queue[i])
      /\ scan.noPrimary => ~CanTakePrimary
      /\ scan.noNonPrimary => ~CanTakeNonPrimary
  BY DEF ScanInv
<1>2. (CanTakePrimary' => CanTakePrimary) /\ (CanTakeNonPrimary' => CanTakeNonPrimary)
  OBVIOUS
<1> QED
  BY <1>1, <1>2 DEF LockFree, Refused

Unnoticed == leaked \/ \E t \in Threads : pc[t] = "recovering"

LEMMA PoolAvailability ==
    ASSUME UNCHANGED poolVars
    PROVE  /\ CanTakePrimary' <=> CanTakePrimary
           /\ CanTakeNonPrimary' <=> CanTakeNonPrimary
           /\ Loose' <=> Loose
           /\ \A d \in Connections : status'[d] = status[d] /\ kind'[d] = kind[d]
  BY DEF poolVars, CanTakePrimary, CanTakeNonPrimary, Acquired, MaxConnectionPoolSize, Loose, Available

LEMMA ScanFrame ==
    ASSUME ScanInv, UNCHANGED <<poolVars, queue, scan>>, Unnoticed => Unnoticed',
           \A i \in 1..Len(queue) : request'[queue[i]] = request[queue[i]]
    PROVE  ScanInv'
<1>1. /\ CanTakePrimary' => CanTakePrimary
      /\ CanTakeNonPrimary' => CanTakeNonPrimary
      /\ Loose => Loose'
  BY PoolAvailability
<1>2. LeakPending => LeakPending'
  BY <1>1 DEF LeakPending, Loose, Unnoticed
<1>3. UNCHANGED <<queue, scan>> /\ (isOpen' => isOpen)
  BY DEF poolVars
<1> QED
  BY <1>1, <1>2, <1>3, ScanStays

LEMMA AcquireNowScan == ASSUME SInv, NEW t \in Threads, AcquireNow(t) PROVE ScanInv'
<1> USE DEF SInv, OInv, WInv, IInv
<1>1. PICK c \in Connections, np \in BOOLEAN : TryTake(c, np, TRUE)
  BY PoolAssumption DEF AcquireNow
<1>2. /\ UNCHANGED <<isOpen, wal, leaked, scan, queue, request>>
      /\ pc[t] = "idle" /\ pc' = [pc EXCEPT ![t] = "holding"]
  BY DEF AcquireNow, fieldVars
<1>3. /\ CanTakePrimary' => CanTakePrimary
      /\ CanTakeNonPrimary' => CanTakeNonPrimary
      /\ Loose => Loose'
  BY <1>1, <1>2, TakingAddsNothing
<1>4. Unnoticed => Unnoticed'
  BY <1>2 DEF Unnoticed, ThreadTypeOK
<1>5. LeakPending => LeakPending'
  BY <1>3, <1>4 DEF LeakPending, Loose, Unnoticed
<1> QED
  BY <1>2, <1>3, <1>5, ScanStays

LEMMA EnqueueScan == ASSUME SInv, NEW t \in Threads, Enqueue(t) PROVE ScanInv'
<1> USE DEF SInv, OInv, WInv, IInv, Waits
<1>1. PICK r \in Requests, w \in Waiters, i \in 1..(Len(queue) + 1) :
          /\ ~Grantable(~r.wantPrimary, TRUE)
          /\ ObtainWaiter(w)
          /\ request' = [request EXCEPT ![w] = r]
          /\ queue' = InsertAt(queue, i, w)
          /\ myWaiter' = [myWaiter EXCEPT ![t] = w]
  BY DEF Enqueue
<1>2. /\ UNCHANGED <<poolVars, leaked, scan>> /\ LockFree /\ isOpen
      /\ pc[t] = "idle" /\ pc' = [pc EXCEPT ![t] = "enqueued"]
  BY DEF Enqueue
<1>3. /\ CanTakePrimary' <=> CanTakePrimary
      /\ CanTakeNonPrimary' <=> CanTakeNonPrimary
      /\ Loose' <=> Loose
  BY <1>2, PoolAvailability
<1>4. LeakPending => LeakPending'
  <2>1. Unnoticed => Unnoticed'
    BY <1>2 DEF Unnoticed, ThreadTypeOK
  <2> QED
    BY <1>3, <2>1 DEF LeakPending, Loose, Unnoticed
<1>5. queue \in Seq(Waiters) /\ Len(queue) \in Nat /\ request \in [Waiters -> Requests]
  BY LenProperties DEF WaiterTypeOK
<1>6. Len(queue') = Len(queue) + 1
  BY <1>1, <1>5, InsertAtType
<1>7. \A j \in 1..(Len(queue) + 1) :
          queue'[j] = IF j < i THEN queue[j] ELSE IF j = i THEN w ELSE queue[j - 1]
  BY <1>1, <1>5, InsertAtElements
<1>8. ~CanTakePrimary /\ (r.wantPrimary \/ ~CanTakeNonPrimary)
  BY <1>1 DEF Grantable
<1>9. LockFree' /\ scan' = NoScan
  BY <1>2 DEF LockFree
<1>10. \A v \in Waiters : Refused(v) \/ v = w => Refused(v)'
  BY <1>1, <1>3, <1>5, <1>8 DEF Refused
<1>11. ~LeakPending => \A j \in 1..Len(queue) : queue[j] \in Waiters /\ Refused(queue[j])
  BY <1>2, <1>5, ElementOfSeq DEF ScanInv
<1>12. ~LeakPending => \A j \in 1..(Len(queue) + 1) : Refused(queue[j])'
  <2> SUFFICES ASSUME ~LeakPending, NEW j \in 1..(Len(queue) + 1) PROVE Refused(queue[j])'
    OBVIOUS
  <2>1. queue'[j] \in Waiters /\ (Refused(queue'[j]) \/ queue'[j] = w)
    <3>1. CASE j < i
      BY <1>5, <1>7, <1>11, <3>1
    <3>2. CASE j = i
      BY <1>7, <3>2
    <3>3. CASE j > i
      BY <1>5, <1>7, <1>11, <3>3
    <3> QED
      BY <1>5, <3>1, <3>2, <3>3
  <2> QED
    BY <1>10, <2>1 DEF Refused
<1> QED
  BY <1>4, <1>6, <1>9, <1>12 DEF ScanInv, NoScan

LEMMA RecheckScan == ASSUME SInv, NEW t \in Threads, Recheck(t) PROVE ScanInv'
<1> USE DEF SInv, OInv, WInv, IInv, Waits
<1>1. /\ UNCHANGED <<poolVars, leaked, scan, queue>>
      /\ pc[t] = "parked" /\ pc' = [pc EXCEPT ![t] = "returning"]
  BY DEF Recheck
<1>2. Unnoticed => Unnoticed'
  BY <1>1 DEF Unnoticed, ThreadTypeOK
<1>3. CASE ~isOpen
  BY <1>1, <1>2, <1>3, ScanFrame DEF Recheck, fieldVars
<1>4. CASE isOpen
  <2> DEFINE w == myWaiter[t]
  <2>1. request' = [request EXCEPT ![w] = NoRequest] /\ WaiterIsDone(w)
    BY <1>4 DEF Recheck, WaiterIsDone
  <2>2. w \in DoneWaiters
    BY <1>1, <2>1 DEF ThreadTypeOK, Waiting, DoneWaiters
  <2>3. w \notin Range(queue)
    BY <1>4, <2>2 DEF WaiterInv, WaitersOK
  <2>4. queue \in Seq(Waiters) /\ request \in [Waiters -> Requests]
    BY DEF WaiterTypeOK
  <2>5. \A j \in 1..Len(queue) : queue[j] \in Waiters /\ queue[j] # w
    BY <2>3, <2>4, ElementOfSeq, RangeIsIndexed
  <2>6. \A j \in 1..Len(queue) : request'[queue[j]] = request[queue[j]]
    BY <2>1, <2>4, <2>5
  <2> QED
    BY <1>1, <1>2, <2>6, ScanFrame
<1> QED
  BY <1>3, <1>4

LEMMA OtherThreadStepScan ==
    ASSUME SInv, NEW t \in Threads,
           \/ RegisterListener(t) \/ DetectLeak(t) \/ RecoverLeak(t)
           \/ RemoveListener(t) \/ Cancel(t) \/ OnCancel(t) \/ Abandon(t)
    PROVE  ScanInv'
<1> USE DEF SInv, OInv, WInv, IInv, ThreadTypeOK, Waiting
<1>1. CASE RegisterListener(t) \/ RemoveListener(t) \/ Cancel(t) \/ Abandon(t)
  <2>1. UNCHANGED <<poolVars, leaked, scan, queue, request>>
    BY <1>1 DEF RegisterListener, RemoveListener, Cancel, Abandon, fieldVars
  <2>2. \A u \in Threads : pc[u] = "recovering" => pc'[u] = "recovering"
    BY <1>1 DEF RegisterListener, RemoveListener, Cancel, Abandon
  <2>3. Unnoticed => Unnoticed'
    BY <2>1, <2>2 DEF Unnoticed
  <2> QED
    BY <2>1, <2>3, ScanFrame
<1>2. CASE DetectLeak(t)
  <2>1. UNCHANGED <<poolVars, scan, queue, request>> /\ pc'[t] = "recovering"
    BY <1>2 DEF DetectLeak, fieldVars
  <2>2. Unnoticed'
    BY <2>1 DEF Unnoticed
  <2> QED
    BY <2>1, <2>2, ScanFrame
<1>3. CASE RecoverLeak(t)
  <2>1. StartScan(queue) /\ queue' = queue
    BY <1>3 DEF RecoverLeak
  <2>2. StartScan(queue')
    BY <2>1 DEF StartScan
  <2> QED
    BY <2>2, ScanStarts
<1>4. CASE OnCancel(t)
  <2>1. UNCHANGED <<poolVars, leaked, pc, request>>
    BY <1>4 DEF OnCancel, fieldVars
  <2>2. CASE UNCHANGED <<queue, scan>>
    <3>1. Unnoticed => Unnoticed'
      BY <2>1 DEF Unnoticed
    <3> QED
      BY <2>1, <2>2, <3>1, ScanFrame
  <2>3. ASSUME NEW i \in DOMAIN queue, queue' = RemoveAt(queue, i), StartScan(RemoveAt(queue, i))
        PROVE  ScanInv'
    <3>1. StartScan(queue')
      BY <2>3 DEF StartScan
    <3> QED
      BY <3>1, ScanStarts
  <2> QED
    BY <1>4, <2>2, <2>3 DEF OnCancel
<1> QED
  BY <1>1, <1>2, <1>3, <1>4

(* Nobody waits while the primary connection can be taken.                 *)
LEMMA NobodyWaits ==
    ASSUME SInv, isOpen, LockFree, CanTakePrimary, LeakPending => LeakPending', UNCHANGED <<queue, scan>>
    PROVE  ScanInv'
<1>1. Len(queue) \in Nat
  BY LenProperties DEF SInv, OInv, WInv, IInv, WaiterTypeOK
<1>2. ~LeakPending => Len(queue) = 0
  BY <1>1 DEF SInv, ScanInv, Refused
<1>3. ~scan'.noPrimary /\ ~scan'.noNonPrimary
  BY DEF LockFree, NoScan
<1>4. ~LeakPending => Len(queue') = 0
  BY <1>2
<1>5. ~LeakPending' => 1..Len(queue') = {}
  BY <1>4
<1> QED
  BY <1>3, <1>5 DEF ScanInv

LEMMA ReleaseScan == ASSUME SInv, NEW t \in Threads, Release(t) PROVE ScanInv'
<1> USE DEF SInv, OInv, WInv, IInv, PoolInv, PoolTypeOK, Kinds, Statuses
<1> DEFINE c == holds[t]
<1>1. /\ LockFree /\ pc[t] = "holding" /\ pc' = [pc EXCEPT ![t] = "idle"] /\ status[c] # "none"
      /\ status' = [status EXCEPT ![c] = "none"]
      /\ UNCHANGED <<isOpen, wal, leaked, queue, request>>
  BY DEF Release, fieldVars
<1>2. c \in Connections /\ c \in Acquired
  BY <1>1 DEF ThreadTypeOK, Acquired
<1>3. CASE StartScan(queue)
  <2>1. StartScan(queue')
    BY <1>1, <1>3 DEF StartScan
  <2> QED
    BY <2>1, ScanStarts
<1>4. CASE ~isOpen
  BY <1>1, <1>4 DEF ScanInv
<1>5. CASE /\ isOpen /\ kind[c] # "primary" /\ Discarded(c) /\ UNCHANGED scan
           /\ Cardinality(availableNonPrimary) + 1 >= MaxConnectionPoolSize
  <2>1. /\ kind' = ClosedAll({c})
        /\ UNCHANGED <<availablePrimary, availableNonPrimary>>
    BY <1>5 DEF Discarded
  <2>2. Acquired' = Acquired \ {c} /\ \A d \in Connections : d # c => kind'[d] = kind[d]
    BY <1>1, <1>2, <2>1 DEF Acquired, ClosedAll
  <2>3. CanTakePrimary' => CanTakePrimary
    BY <1>5, <2>1, <2>2 DEF CanTakePrimary, Acquired
  <2>4. LeakPending => LeakPending'
    <3>1. Loose => Loose'
      <4> SUFFICES ASSUME NEW d \in Connections, kind[d] # "closed", d \notin Acquired \cup Available
                   PROVE  Loose'
        BY DEF Loose
      <4>1. d # c /\ Available' = Available
        BY <1>2, <2>1 DEF Available
      <4> QED
        BY <2>2, <4>1 DEF Loose
    <3>2. Unnoticed => Unnoticed'
      BY <1>1 DEF Unnoticed, ThreadTypeOK
    <3> QED
      BY <3>1, <3>2 DEF LeakPending, Loose, Unnoticed
  <2>5. CASE CanTakePrimary
    BY <1>1, <1>5, <2>4, <2>5, NobodyWaits
  <2>6. CASE ~CanTakePrimary
    <3>1. CanTakeNonPrimary' => CanTakeNonPrimary
      <4> SUFFICES ASSUME CanTakeNonPrimary', availableNonPrimary = {} PROVE FALSE
        BY DEF CanTakeNonPrimary
      <4>1. MaxConnectionPoolSize' = MaxConnectionPoolSize /\ MaxConnectionPoolSize \in Nat \ {0}
        BY <1>1, PoolAssumption DEF MaxConnectionPoolSize
      <4>2. Cardinality(availableNonPrimary) = 0
        BY AcquiredIsFinite
      <4>3. MaxConnectionPoolSize = 1
        BY <1>5, <4>1, <4>2
      <4>4. Acquired' \in SUBSET Connections
        BY <2>2 DEF Acquired
      <4>5. Cardinality(Acquired') \in Nat /\ (Cardinality(Acquired') = 0 <=> Acquired' = {})
        BY <4>4, AcquiredIsFinite
      <4>6. Cardinality(Acquired') + (IF availablePrimary # None THEN 1 ELSE 0) < 1
        BY <2>1, <4>1, <4>3 DEF CanTakeNonPrimary
      <4>7. Acquired' = {} /\ availablePrimary = None
        BY <4>5, <4>6
      <4> QED
        BY <1>5, <2>2, <2>6, <4>7 DEF CanTakePrimary
    <3> QED
      BY <1>1, <1>5, <2>3, <2>4, <3>1, ScanStays
  <2> QED
    BY <2>5, <2>6
<1> QED
  BY <1>3, <1>4, <1>5 DEF Release

LEMMA PoolStepScan ==
    ASSUME SInv,
           \/ Close \/ ReconfigureInPlace \/ ReconfigureOpenFlags \/ ReconfigureWAL
           \/ \E c \in Connections : ClearWeakReference(c) \/ FinalizeConnection(c)
    PROVE  ScanInv'
<1> USE DEF SInv, OInv, WInv, IInv, PoolInv, PoolTypeOK, Kinds, Statuses
<1>1. CASE StartScan(queue) /\ queue' = queue
  <2>1. StartScan(queue')
    BY <1>1 DEF StartScan
  <2> QED
    BY <2>1, ScanStarts
<1>2. CASE ReconfigureWAL /\ ~StartScan(queue)
  <2>1. /\ LockFree /\ isOpen /\ Acquired = {} /\ kind' = ClosedAll(Available)
        /\ availablePrimary' = None /\ availableNonPrimary' = {}
        /\ UNCHANGED <<scan, status, leaked, queue, pc>>
    BY <1>2 DEF ReconfigureWAL, threadVars
  <2>2. CanTakePrimary
    BY <2>1 DEF CanTakePrimary
  <2>3. Loose => Loose'
    <3> SUFFICES ASSUME NEW d \in Connections, kind[d] # "closed", d \notin Acquired \cup Available
                 PROVE  Loose'
      BY DEF Loose
    <3>1. kind'[d] # "closed" /\ Acquired' = {} /\ Available' = {}
      BY <2>1 DEF ClosedAll, Acquired, Available
    <3> QED
      BY <3>1 DEF Loose
  <2>4. LeakPending => LeakPending'
    BY <2>1, <2>3 DEF LeakPending, Loose
  <2> QED
    BY <2>1, <2>2, <2>4, NobodyWaits
<1>3. ASSUME NEW c \in Connections, ClearWeakReference(c) PROVE ScanInv'
  <2>1. /\ c \in Acquired /\ c \notin Available /\ status' = [status EXCEPT ![c] = "none"]
        /\ UNCHANGED <<kind, availablePrimary, availableNonPrimary>>
    BY <1>3 DEF ClearWeakReference, Reachable
  <2>2. kind'[c] # "closed" /\ c \notin Acquired' /\ c \notin Available'
    BY <2>1 DEF Bookkeeping, Acquired, Available
  <2>3. LeakPending'
    BY <2>2 DEF LeakPending
  <2> QED
    BY <2>3 DEF ScanInv
<1>4. ASSUME NEW c \in Connections, FinalizeConnection(c) PROVE ScanInv'
  BY <1>4 DEF FinalizeConnection, ScanInv, LeakPending
<1>5. CASE Close \/ ReconfigureInPlace \/ ReconfigureOpenFlags
  BY <1>1, <1>5 DEF Close, ReconfigureInPlace, ReconfigureOpenFlags
<1>6. CASE ReconfigureWAL
  BY <1>1, <1>2, <1>6 DEF ReconfigureWAL
<1> QED
  BY <1>3, <1>4, <1>5, <1>6

(* The scan goes on behind a waiter that leaves the queue.                 *)
LEMMA ScanServes ==
    ASSUME SInv, isOpen, ~LockFree, LeakPending => LeakPending',
           CanTakePrimary' => CanTakePrimary, CanTakeNonPrimary' => CanTakeNonPrimary,
           request' = request, NEW np \in BOOLEAN, np => ~CanTakeNonPrimary,
           queue' = RemoveAt(queue, scan.at),
           ContinueScan(RemoveAt(queue, scan.at), [scan EXCEPT !.noNonPrimary = @ \/ np])
    PROVE  ScanInv'
<1> USE DEF SInv, OInv, WInv, IInv
<1> DEFINE i == scan.at
           next == [scan EXCEPT !.noNonPrimary = @ \/ np]
<1>1. /\ i \in 1..Len(queue) /\ queue \in Seq(Waiters) /\ Len(queue) \in Nat
      /\ scan \in [at : 1..Len(queue), noPrimary : BOOLEAN, noNonPrimary : BOOLEAN]
  BY LenProperties DEF LockFree, WaiterTypeOK
<1>2. Len(queue') = Len(queue) - 1
  BY <1>1, RemoveAtType
<1>3. \A j \in 1..(Len(queue) - 1) : j < i => queue'[j] = queue[j]
  BY <1>1, RemoveAtElements
<1> SUFFICES ASSUME ~LeakPending'
             PROVE  /\ \A j \in 1..Len(queue') : LockFree' \/ j < scan'.at => Refused(queue[j])'
                    /\ scan'.noPrimary => ~CanTakePrimary'
                    /\ scan'.noNonPrimary => ~CanTakeNonPrimary'
  BY DEF ScanInv
<1>4. /\ \A j \in 1..Len(queue) : j < i => Refused(queue[j])
      /\ scan.noPrimary => ~CanTakePrimary
      /\ scan.noNonPrimary => ~CanTakeNonPrimary
  BY <1>1 DEF ScanInv
<1>5. \A j \in 1..Len(queue') : j < i => Refused(queue[j])'
  <2> SUFFICES ASSUME NEW j \in 1..Len(queue'), j < i PROVE Refused(queue[j])'
    OBVIOUS
  <2>1. queue'[j] = queue[j] /\ Refused(queue[j])
    BY <1>1, <1>2, <1>3, <1>4
  <2> QED
    BY <2>1 DEF Refused
<1>6. next.at = i /\ next.noPrimary = scan.noPrimary /\ next.noNonPrimary = (scan.noNonPrimary \/ np)
  BY <1>1
<1>7. ContinueScan(queue', next)
  BY DEF ContinueScan
<1>8. CASE i > Len(queue')
  <2>1. scan' = NoScan
    BY <1>6, <1>7, <1>8 DEF ContinueScan
  <2>2. \A j \in 1..Len(queue') : j < i
    BY <1>1, <1>2, <1>8
  <2> QED
    BY <1>5, <2>1, <2>2 DEF NoScan
<1>9. CASE ~(i > Len(queue'))
  <2>1. scan' = next
    BY <1>6, <1>7, <1>9 DEF ContinueScan
  <2>2. scan'.at = i /\ ~LockFree'
    BY <1>1, <1>6, <2>1 DEF LockFree, NoScan
  <2> QED
    BY <1>4, <1>5, <1>6, <2>1, <2>2
<1> QED
  BY <1>8, <1>9

(* The scan passes a waiter, or gives up: nothing is left for anybody.     *)
LEMMA ScanPasses ==
    ASSUME SInv, isOpen, ~LockFree, LeakPending => LeakPending',
           UNCHANGED <<poolVars, queue, request>>, NEW np \in BOOLEAN,
           np <=> ~request[queue[scan.at]].wantPrimary /\ ~scan.noNonPrimary,
           ~Grantable(np, ~scan.noPrimary),
           NEW next, next = [at |-> scan.at + 1, noNonPrimary |-> scan.noNonPrimary \/ np, noPrimary |-> TRUE],
           IF next.noNonPrimary THEN scan' = NoScan ELSE ContinueScan(queue, next)
    PROVE  ScanInv'
<1> USE DEF SInv, OInv, WInv, IInv
<1> DEFINE i == scan.at
<1>1. /\ i \in 1..Len(queue) /\ queue \in Seq(Waiters) /\ Len(queue) \in Nat
      /\ scan \in [at : 1..Len(queue), noPrimary : BOOLEAN, noNonPrimary : BOOLEAN]
  BY LenProperties DEF LockFree, WaiterTypeOK
<1>2. next.at = i + 1 /\ next.noPrimary /\ (next.noNonPrimary <=> scan.noNonPrimary \/ np)
  BY <1>1
<1> SUFFICES ASSUME ~LeakPending'
             PROVE  /\ \A j \in 1..Len(queue') : LockFree' \/ j < scan'.at => Refused(queue[j])'
                    /\ scan'.noPrimary => ~CanTakePrimary'
                    /\ scan'.noNonPrimary => ~CanTakeNonPrimary'
  BY DEF ScanInv
<1>3. /\ \A j \in 1..Len(queue) : j < i => Refused(queue[j])
      /\ scan.noPrimary => ~CanTakePrimary
      /\ scan.noNonPrimary => ~CanTakeNonPrimary
  BY <1>1 DEF ScanInv
<1>4. ~CanTakePrimary /\ (next.noNonPrimary => ~CanTakeNonPrimary)
  BY <1>2, <1>3 DEF Grantable
<1>5. Refused(queue[i])
  BY <1>2, <1>4 DEF Refused
<1>6. \A j \in 1..Len(queue) : j <= i => Refused(queue[j])
  BY <1>1, <1>3, <1>5
<1>7. (CanTakePrimary' <=> CanTakePrimary) /\ (CanTakeNonPrimary' <=> CanTakeNonPrimary)
  BY PoolAvailability
<1>8. \A j \in 1..Len(queue) : Refused(queue[j]) => Refused(queue[j])'
  BY <1>7 DEF Refused
<1>9. CASE next.noNonPrimary
  <2>1. \A j \in 1..Len(queue) : Refused(queue[j])
    BY <1>4, <1>9 DEF Refused
  <2> QED
    BY <1>8, <1>9, <2>1 DEF NoScan
<1>10. CASE ~next.noNonPrimary
  <2>1. ContinueScan(queue, next)
    BY <1>10
  <2>2. CASE next.at > Len(queue)
    <3>1. scan' = NoScan
      BY <2>1, <2>2 DEF ContinueScan
    <3>2. \A j \in 1..Len(queue) : j <= i
      BY <1>1, <1>2, <2>2
    <3> QED
      BY <1>6, <1>8, <3>1, <3>2 DEF NoScan
  <2>3. CASE ~(next.at > Len(queue))
    <3>1. scan' = next
      BY <2>1, <2>3 DEF ContinueScan
    <3>2. scan'.at = i + 1 /\ ~LockFree'
      BY <1>1, <1>2, <3>1 DEF LockFree, NoScan
    <3>3. \A j \in 1..Len(queue) : j < i + 1 => Refused(queue[j])
      BY <1>1, <1>6
    <3> QED
      BY <1>2, <1>4, <1>7, <1>8, <1>10, <3>1, <3>2, <3>3
  <2> QED
    BY <2>2, <2>3
<1> QED
  BY <1>9, <1>10

LEMMA WakeStepScan == ASSUME SInv, WakeStep PROVE ScanInv'
<1> USE DEF SInv, OInv, WInv, IInv
<1> DEFINE w == queue[scan.at]
           tryNonPrimary == ~request[w].wantPrimary /\ ~scan.noNonPrimary
           tryPrimary == ~scan.noPrimary
           np == tryNonPrimary /\ ~CanTakeNonPrimary
           rest == RemoveAt(queue, scan.at)
           missed == [at |-> scan.at + 1,
                      noNonPrimary |-> scan.noNonPrimary \/ tryNonPrimary,
                      noPrimary |-> TRUE]
<1>1. /\ ~LockFree /\ UNCHANGED <<isOpen, wal, leaked, request, pc>>
  BY DEF WakeStep, fieldVars, threadVars, poolVars
<1>2. Unnoticed => Unnoticed'
  BY <1>1 DEF Unnoticed
<1>3. CASE ~isOpen
  BY <1>1, <1>3 DEF ScanInv
<1>4. ASSUME isOpen, NEW c \in Connections, TryTake(c, tryNonPrimary, tryPrimary), queue' = rest,
             ContinueScan(rest, [scan EXCEPT !.noNonPrimary = @ \/ np])
      PROVE  ScanInv'
  <2>1. /\ CanTakePrimary' => CanTakePrimary
        /\ CanTakeNonPrimary' => CanTakeNonPrimary
        /\ Loose => Loose'
    BY <1>1, <1>4, TakingAddsNothing
  <2>2. LeakPending => LeakPending'
    BY <1>2, <2>1 DEF LeakPending, Loose, Unnoticed
  <2>3. np \in BOOLEAN /\ (np => ~CanTakeNonPrimary)
    OBVIOUS
  <2> QED
    BY <1>1, <1>4, <2>1, <2>2, <2>3, ScanServes
<1>5. ASSUME isOpen, UNCHANGED poolVars, queue' = rest,
             ContinueScan(rest, [scan EXCEPT !.noNonPrimary = @ \/ np])
      PROVE  ScanInv'
  <2>1. /\ CanTakePrimary' => CanTakePrimary
        /\ CanTakeNonPrimary' => CanTakeNonPrimary
        /\ Loose => Loose'
    BY <1>5, PoolAvailability
  <2>2. LeakPending => LeakPending'
    BY <1>2, <2>1 DEF LeakPending, Loose, Unnoticed
  <2>3. np \in BOOLEAN /\ (np => ~CanTakeNonPrimary)
    OBVIOUS
  <2> QED
    BY <1>1, <1>5, <2>1, <2>2, <2>3, ScanServes
<1>6. ASSUME isOpen, ~Grantable(tryNonPrimary, tryPrimary), UNCHANGED <<poolVars, queue>>,
             IF missed.noNonPrimary THEN scan' = NoScan ELSE ContinueScan(queue, missed)
      PROVE  ScanInv'
  <2>1. LeakPending => LeakPending'
    BY <1>2, <1>6, PoolAvailability DEF LeakPending, Loose, Unnoticed
  <2>2. tryNonPrimary \in BOOLEAN
    OBVIOUS
  <2> QED
    BY <1>1, <1>6, <2>1, <2>2, ScanPasses
<1> QED
  BY <1>3, <1>4, <1>5, <1>6 DEF WakeStep

LEMMA InitSInv == Init => SInv
<1> SUFFICES ASSUME Init PROVE SInv
  OBVIOUS
<1>1. Len(queue) = 0 /\ ~scan.noPrimary /\ ~scan.noNonPrimary
  BY DEF Init, NoScan
<1>2. ScanInv
  BY <1>1 DEF ScanInv
<1> QED
  BY <1>2, InitOInv DEF SInv

LEMMA NextSInv == SInv /\ [Next]_vars => SInv'
<1> SUFFICES ASSUME SInv, [Next]_vars PROVE SInv'
  OBVIOUS
<1>1. OInv'
  BY NextOInv DEF SInv
<1>2. ASSUME NEW t \in Threads, ThreadStep(t) PROVE ScanInv'
  BY <1>2, AcquireNowScan, EnqueueScan, RecheckScan, ReleaseScan, OtherThreadStepScan DEF ThreadStep
<1>3. CASE UNCHANGED vars
  <2>1. Unnoticed => Unnoticed'
    BY <1>3 DEF vars, threadVars, Unnoticed
  <2>2. ScanInv'
    BY <1>3, <2>1, ScanFrame DEF SInv, vars, fieldVars
  <2> QED
    BY <1>1, <2>2 DEF SInv
<1> QED
  BY <1>1, <1>2, <1>3, WakeStepScan, PoolStepScan DEF SInv, Next

THEOREM ScansInvariant == Spec => []SInv
  BY InitSInv, NextSInv, PTL DEF Spec

-----------------------------------------------------------------------------
(* The properties.                                                         *)

(* Type correctness.                                                       *)
THEOREM TypeCorrect == Spec => []TypeOK
<1>1. IInv => TypeOK
  BY DEF IInv, PoolInv, TypeOK
<1> QED
  BY <1>1, InvariantHolds, PTL

(* No two primary connections: the assertion in releaseConnection never    *)
(* fails, for any number of threads and any sequence of reconfigurations.  *)
THEOREM PrimaryIsUnique == Spec => []OnePrimary
<1>1. IInv => OnePrimary
  BY DEF IInv, PoolInv
<1> QED
  BY <1>1, InvariantHolds, PTL

(* No connection is available, or lent unmarked, with an old configuration.*)
THEOREM ConfigurationReachesAll == Spec => []ConfigurationPropagated
<1>1. IInv => ConfigurationPropagated
  BY DEF IInv, PoolInv
<1> QED
  BY <1>1, InvariantHolds, PTL

(* While the pool is open, the waiter that a cancellation looks for is in  *)
(* the queue: cancelConnectionWaiterLocked does not walk off its end.      *)
THEOREM CancellationFindsWaiter == Spec => []CancelFindsWaiter
<1>1. Init => CancelFindsWaiter
  BY DEF Init, CancelFindsWaiter
<1> QED
  BY <1>1, WaitersInvariant, CancelFinds, PTL DEF Spec

(* A wait is cancelled by the signal of the thread that waits and of no    *)
(* other, whatever listeners are left of earlier uses of its waiter.       *)
THEOREM CancelledBySelf == Spec => OnlyOwnSignalCancels
<1>1. WInv /\ [Next]_vars =>
          [\A w \in Waiters :
              exception[w] # "canceled" /\ exception'[w] = "canceled" =>
                  \E t \in Threads : /\ myWaiter[t] = w /\ signal[t] = "cancelling"
                                     /\ pc[t] \in {"parked", "recovering"}]_vars
  BY OwnSignal
<1> QED
  BY <1>1, WaitersInvariant, PTL DEF Spec, OnlyOwnSignalCancels

(* A connection is lent or promised to one only, and is then open and on   *)
(* record as acquired, whatever is closed, fails, is reconfigured or is    *)
(* abandoned: the half of ExclusiveOwnership that needs no assumption.     *)
THEOREM LentToOne ==
    Spec => [](\A c \in Connections :
                   /\ \A u, v \in Users(c) : u = v
                   /\ isOpen /\ Users(c) # {} => c \in Acquired /\ c \notin Available /\ kind[c] # "closed")
<1>1. ASSUME OInv, NEW c \in Connections
      PROVE  /\ \A u, v \in Users(c) : u = v
             /\ isOpen /\ Users(c) # {} => c \in Acquired /\ c \notin Available /\ kind[c] # "closed"
  <2>1. c # None
    BY PoolAssumption
  <2>2. ASSUME NEW u \in Users(c)
        PROVE  \/ \E t \in Threads : holds[t] = c /\ u = <<t>>
               \/ \E w \in Waiters : assigned[w] = c /\ u = <<"promised", w>>
    BY DEF Users
  <2>3. \A u, v \in Users(c) : u = v
    BY <1>1, <2>1, <2>2 DEF OInv, Owners, Exclusive
  <2>4. isOpen /\ Users(c) # {} => c \in Acquired
    BY <1>1, <2>1, <2>2 DEF OInv, Owners, Recorded
  <2>5. c \in Acquired => c \notin Available /\ kind[c] # "closed"
    BY <1>1, <2>1 DEF OInv, WInv, IInv, PoolInv, Bookkeeping, Acquired, Available
  <2> QED
    BY <2>3, <2>4, <2>5
<1>2. OInv => \A c \in Connections :
                   /\ \A u, v \in Users(c) : u = v
                   /\ isOpen /\ Users(c) # {} => c \in Acquired /\ c \notin Available /\ kind[c] # "closed"
  BY <1>1
<1> QED
  BY <1>2, OwnersInvariant, PTL

(* If moreover no thread ends with what it holds, an open pool never loses *)
(* a connection.  (An abandoned connection is lost by definition, until    *)
(* the garbage collector reports it.)                                      *)
THEOREM OneOwner == ASSUME Leaky = {} PROVE Spec => []ExclusiveOwnership
<1>1. OInv => (isOpen => NoConnectionLost)
  <2> SUFFICES ASSUME OInv, isOpen, NEW c \in Connections, kind[c] # "closed" PROVE Reachable(c)
    BY DEF NoConnectionLost
  <2>1. c \in Available \/ Used(c)
    BY DEF OInv, Owners, Kept
  <2> QED
    BY <2>1, UsedIsReachable DEF Reachable, OInv
<1> QED
  BY <1>1, OwnersInvariant, LentToOne, PTL DEF ExclusiveOwnership

(* No wake-up is lost: in an open pool a waiter is queued only while its   *)
(* request cannot be granted, or while a leak is still to be noticed,      *)
(* whatever closed, failed, was cancelled or reconfigured.                 *)
THEOREM NoLostWakeUp == Spec => []NoStrandedWaiter
<1>1. SInv => NoStrandedWaiter
  <2> SUFFICES ASSUME SInv, isOpen, LockFree, ~LeakPending, NEW w \in Range(queue)
               PROVE  ~Grantable(~request[w].wantPrimary, TRUE)
    BY DEF NoStrandedWaiter
  <2>1. queue \in Seq(Waiters) /\ request \in [Waiters -> Requests]
    BY DEF SInv, OInv, WInv, IInv, WaiterTypeOK
  <2>2. PICK i \in 1..Len(queue) : queue[i] = w
    BY <2>1, RangeIsIndexed
  <2>3. w \in Waiters /\ request[w].wantPrimary \in BOOLEAN
    BY <2>1, <2>2, ElementOfSeq, PoolAssumption
  <2>4. Refused(w)
    BY <2>2 DEF SInv, ScanInv
  <2> QED
    BY <2>3, <2>4, RefusedIsNotGrantable
<1> QED
  BY <1>1, ScansInvariant, PTL

(* u is ahead of w in the queue q. *)
Ahead(u, w, q) == \E j, k \in 1..Len(q) : j < k /\ q[j] = u /\ q[k] = w

(* Only a step of a scan gives a waiter a connection, and takes it out of   *)
(* the queue.                                                               *)
LEMMA Granting ==
    ASSUME WInv, [Next]_vars, NEW w \in Waiters, assigned[w] = None, assigned'[w] # None
    PROVE  /\ ~LockFree /\ isOpen /\ scan.at \in 1..Len(queue) /\ queue[scan.at] = w
           /\ queue' = RemoveAt(queue, scan.at)
           /\ \E c \in Connections :
                  /\ assigned'[w] = c
                  /\ TryTake(c, ~request[w].wantPrimary /\ ~scan.noNonPrimary, ~scan.noPrimary)
<1> USE DEF WInv, IInv
<1> DEFINE i == scan.at
           tryNonPrimary == ~request[queue[i]].wantPrimary /\ ~scan.noNonPrimary
<1>1. assigned \in [Waiters -> Connections \cup {None}] /\ queue \in Seq(Waiters)
      /\ request \in [Waiters -> Requests] /\ Len(queue) \in Nat
  BY LenProperties DEF WaiterTypeOK
<1>2. WakeStep /\ isOpen /\ queue' = RemoveAt(queue, i)
      /\ \E c \in Connections : /\ TryTake(c, tryNonPrimary, ~scan.noPrimary)
                                /\ assigned' = [assigned EXCEPT ![queue[i]] = c]
  <2>1. CASE WakeStep
    BY <2>1 DEF WakeStep
  <2>2. CASE \E t \in Threads : Recheck(t)
    BY <1>1, <2>2 DEF Recheck
  <2>3. CASE UNCHANGED assigned
    BY <2>3
  <2>4. ASSUME NEW t \in Threads, ThreadStep(t) PROVE Recheck(t) \/ UNCHANGED assigned
    BY <2>4 DEF ThreadStep, AcquireNow, Enqueue, RegisterListener, DetectLeak, RecoverLeak,
       RemoveListener, Cancel, OnCancel, Release, Abandon
  <2>5. CASE \E t \in Threads : ThreadStep(t)
    BY <2>2, <2>3, <2>4, <2>5
  <2>6. CASE Close \/ ReconfigureInPlace \/ ReconfigureOpenFlags \/ ReconfigureWAL
    BY <2>3, <2>6 DEF Close, ReconfigureInPlace, ReconfigureOpenFlags, ReconfigureWAL
  <2>7. CASE \E c \in Connections : ClearWeakReference(c) \/ FinalizeConnection(c)
    BY <2>3, <2>7 DEF ClearWeakReference, FinalizeConnection
  <2>8. CASE UNCHANGED vars
    BY <2>3, <2>8 DEF vars
  <2> QED
    BY <2>1, <2>5, <2>6, <2>7, <2>8 DEF Next
<1>3. PICK c \in Connections : /\ TryTake(c, tryNonPrimary, ~scan.noPrimary)
                               /\ assigned' = [assigned EXCEPT ![queue[i]] = c]
  BY <1>2
<1>4. i \in 1..Len(queue) /\ ~LockFree
  BY <1>2 DEF WakeStep, LockFree, WaiterTypeOK
<1>5. queue[i] \in Waiters /\ w = queue[i] /\ assigned'[w] = c
  BY <1>1, <1>3, <1>4, ElementOfSeq
<1> QED
  BY <1>2, <1>3, <1>4, <1>5

(* Those whom a scan has passed would not take what it gives to a later one.*)
LEMMA ServedAfterOthers ==
    ASSUME Leaky = {}, SInv, [Next]_vars, NEW w \in Waiters, NEW u \in Waiters,
           assigned[w] = None, assigned'[w] # None, Ahead(u, w, queue)
    PROVE  request[u].wantPrimary /\ kind'[assigned'[w]] # "primary"
<1> USE DEF SInv, OInv
<1> DEFINE i == scan.at
           tryNonPrimary == ~request[w].wantPrimary /\ ~scan.noNonPrimary
<1>1. queue \in Seq(Waiters) /\ Len(queue) \in Nat /\ request \in [Waiters -> Requests]
      /\ (isOpen => Distinct(queue))
  BY LenProperties DEF WInv, IInv, Waits, WaiterTypeOK, WaiterInv
<1>2. PICK c \in Connections : assigned'[w] = c /\ TryTake(c, tryNonPrimary, ~scan.noPrimary)
  BY Granting
<1>3. ~LockFree /\ isOpen /\ i \in 1..Len(queue) /\ queue[i] = w
  BY Granting
<1>4. PICK j, k \in 1..Len(queue) : j < k /\ queue[j] = u /\ queue[k] = w
  BY DEF Ahead
<1>5. j < i
  <2>1. DOMAIN queue = 1..Len(queue)
    BY <1>1, LenProperties
  <2> QED
    BY <1>1, <1>3, <1>4, <2>1 DEF Distinct
<1>6. ~LeakPending
  <2>1. Kept /\ Recorded
    BY <1>3 DEF Owners
  <2>2. \A d \in Connections : Used(d) => d \in Acquired
    BY <2>1, PoolAssumption DEF Used, Recorded
  <2> QED
    BY <2>1, <2>2 DEF Kept, LeakPending
<1>7. ~CanTakePrimary /\ (request[u].wantPrimary \/ ~CanTakeNonPrimary)
  BY <1>3, <1>4, <1>5, <1>6 DEF ScanInv, Refused
<1>8. TakeNonPrimary(c) /\ CanTakeNonPrimary
  BY <1>2, <1>7 DEF TryTake, TakeNonPrimary, TakePrimary
<1>9. kind'[c] # "primary"
  BY <1>8, FreshIsClosed DEF WInv, IInv, TakeNonPrimary, Open, PoolInv, PoolTypeOK, Bookkeeping
<1>10. request[u].wantPrimary \in BOOLEAN
  BY <1>1, PoolAssumption
<1> QED
  BY <1>2, <1>7, <1>8, <1>9, <1>10

(* A waiter is served only if nobody of a higher priority is left waiting  *)
(* who would have taken the connection, in one pass of a scan that never   *)
(* goes back.  (A leak that is not yet noticed can leave a waiter of a     *)
(* higher priority in the queue, hence the assumption.)                    *)
THEOREM PriorityRespected == ASSUME Leaky = {} PROVE Spec => GrantsByPriority
<1>1. SInv /\ [Next]_vars =>
          [\A w \in Waiters :
              assigned[w] = None /\ assigned'[w] # None =>
                  \A u \in Range(queue') :
                      request[u].priority > request[w].priority =>
                          request[u].wantPrimary /\ kind'[assigned'[w]] # "primary"]_vars
  <2> SUFFICES ASSUME SInv, [Next]_vars, NEW w \in Waiters,
                      assigned[w] = None, assigned'[w] # None, NEW u \in Range(queue'),
                      request[u].priority > request[w].priority
               PROVE  request[u].wantPrimary /\ kind'[assigned'[w]] # "primary"
    OBVIOUS
  <2> USE DEF SInv, OInv, WInv, IInv, Waits
  <2> DEFINE i == scan.at
  <2>1. queue \in Seq(Waiters) /\ request \in [Waiters -> Requests] /\ Len(queue) \in Nat
    BY LenProperties DEF WaiterTypeOK
  <2>2. isOpen /\ i \in 1..Len(queue) /\ queue[i] = w /\ queue' = RemoveAt(queue, i)
    BY Granting
  <2>3. PICK j \in 1..Len(queue) : queue[j] = u /\ u # w
    <3>1. Distinct(queue) /\ Range(queue') = Range(queue) \ {queue[i]}
      BY <2>1, <2>2, RemoveAtRange DEF WaiterInv
    <3>2. u \in Range(queue) /\ u # w
      BY <2>2, <3>1
    <3> QED
      BY <2>1, <3>2, RangeIsIndexed
  <2>4. /\ u \in Waiters /\ request[u] \in [wantPrimary : BOOLEAN, priority : {0, 1}]
        /\ request[w] \in [wantPrimary : BOOLEAN, priority : {0, 1}]
    BY <2>1, <2>3, ElementOfSeq, PoolAssumption
  <2>5. ~(i < j)
    BY <2>2, <2>3, <2>4 DEF WaiterInv, SortedBy
  <2>6. Ahead(u, w, queue)
    BY <2>1, <2>2, <2>3, <2>5 DEF Ahead
  <2> QED
    BY <2>4, <2>6, ServedAfterOthers
<1> QED
  BY <1>1, ScansInvariant, PTL DEF Spec, GrantsByPriority

-----------------------------------------------------------------------------
(* The order of the waiters.                                               *)

(* Nobody comes to be ahead of a waiter in the queue but who joins with a   *)
(* higher priority, and nobody is out of the queue without a connection, an *)
(* exception, or the pool being closed.                                     *)
NobodyPushesIn ==
    [][\A w \in Range(queue) :
          /\ w \in Range(queue') =>
                /\ request'[w] = request[w]
                /\ \A u \in Waiters : Ahead(u, w, queue') =>
                      \/ Ahead(u, w, queue)
                      \/ u \notin Range(queue) /\ request'[u].priority > request[w].priority
          /\ w \notin Range(queue') => ~isOpen' \/ WaiterIsDone(w)']_vars

(* A waiter is granted a connection only if nobody ahead of it would have   *)
(* taken it.                                                                *)
FirstComeFirstServed ==
    [][\A u, w \in Waiters :
          assigned[w] = None /\ assigned'[w] # None /\ Ahead(u, w, queue) =>
              request[u].wantPrimary /\ kind'[assigned'[w]] # "primary"]_vars

LEMMA AheadRemove ==
    ASSUME NEW q \in Seq(Waiters), NEW i \in 1..Len(q), NEW u, NEW w, Ahead(u, w, RemoveAt(q, i))
    PROVE  Ahead(u, w, q)
<1> DEFINE r == RemoveAt(q, i)
           n == Len(q)
           f(j) == IF j < i THEN j ELSE j + 1
<1>1. n \in Nat /\ Len(r) = n - 1 /\ \A j \in 1..(n - 1) : r[j] = q[f(j)]
  BY RemoveAtType, RemoveAtElements, LenProperties
<1>2. PICK j, k \in 1..(n - 1) : j < k /\ r[j] = u /\ r[k] = w
  BY <1>1 DEF Ahead
<1>3. f(j) \in 1..n /\ f(k) \in 1..n /\ f(j) < f(k)
  BY <1>1, <1>2
<1>4. q[f(j)] = u /\ q[f(k)] = w
  BY <1>1, <1>2
<1> HIDE DEF f, r
<1> QED
  BY <1>3, <1>4 DEF Ahead

LEMMA AheadInsert ==
    ASSUME NEW q \in Seq(Waiters), NEW i \in 1..(Len(q) + 1), NEW e \in Waiters,
           NEW u, NEW w, Ahead(u, w, InsertAt(q, i, e)), w # e
    PROVE  Ahead(u, w, q) \/ (u = e /\ \E k \in i..Len(q) : q[k] = w)
<1> DEFINE r == InsertAt(q, i, e)
           n == Len(q)
           f(j) == IF j < i THEN j ELSE j - 1
<1>1. n \in Nat /\ i \in 1..(n + 1) /\ Len(r) = n + 1
      /\ \A j \in 1..(n + 1) : r[j] = IF j < i THEN q[j] ELSE IF j = i THEN e ELSE q[j - 1]
  BY InsertAtType, InsertAtElements, LenProperties
<1>2. PICK j, k \in 1..(n + 1) : j < k /\ r[j] = u /\ r[k] = w
  BY <1>1 DEF Ahead
<1>3. k # i /\ f(k) \in 1..n /\ q[f(k)] = w
  BY <1>1, <1>2
<1>4. CASE j = i
  <2>1. f(k) \in i..n /\ u = e
    BY <1>1, <1>2, <1>4
  <2> QED
    BY <1>3, <2>1
<1>5. CASE j # i
  <2>1. f(j) \in 1..n /\ q[f(j)] = u /\ f(j) < f(k)
    BY <1>1, <1>2, <1>3, <1>5
  <2> HIDE DEF f, r
  <2> QED
    BY <1>3, <2>1 DEF Ahead
<1> QED
  BY <1>4, <1>5

(* Whoever is not removed stays.                                            *)
LEMMA RemoveAtKeeps ==
    ASSUME NEW q \in Seq(Waiters), NEW i \in 1..Len(q), NEW w \in Range(q), w \notin Range(RemoveAt(q, i))
    PROVE  w = q[i]
<1> DEFINE r == RemoveAt(q, i)
           n == Len(q)
           g(j) == IF j < i THEN j ELSE j - 1
<1>1. n \in Nat /\ r \in Seq(Waiters) /\ Len(r) = n - 1
      /\ \A j \in 1..(n - 1) : r[j] = IF j < i THEN q[j] ELSE q[j + 1]
  BY RemoveAtType, RemoveAtElements, LenProperties
<1>2. PICK k \in 1..n : q[k] = w
  <2>1. Range(q) = {q[j] : j \in 1..n}
    BY <1>1, RangeIsIndexed
  <2> QED
    BY <2>1
<1>3. ASSUME k # i PROVE FALSE
  <2>1. g(k) \in 1..(n - 1) /\ r[g(k)] = w
    BY <1>1, <1>2, <1>3
  <2> HIDE DEF g
  <2>2. Range(r) = {r[j] : j \in 1..(n - 1)}
    <3> HIDE DEF r
    <3> QED
      BY <1>1, RangeIsIndexed
  <2> QED
    BY <2>1, <2>2
<1> QED
  BY <1>2, <1>3

(* What a step may do to the queue: one waiter joins it, one leaves it, or  *)
(* it stays as it is.                                                       *)
QueueStep ==
    \/ \E t \in Threads : Enqueue(t)
    \/ /\ UNCHANGED request
       /\ \E i \in 1..Len(queue), w \in Waiters :
             queue[i] = w /\ queue' = RemoveAt(queue, i) /\ (~isOpen' \/ WaiterIsDone(w)')
    \/ UNCHANGED queue /\ \A w \in Range(queue) : request'[w] = request[w]

(* What a step may do to the queue: one waiter joins it, one leaves it, or  *)
(* it stays as it is.                                                       *)
LEMMA QueueSteps ==
    ASSUME WInv, [Next]_vars
    PROVE  QueueStep
<1> USE DEF WInv, Waits, IInv
<1>0. /\ queue \in Seq(Waiters) /\ DOMAIN queue = 1..Len(queue)
      /\ assigned \in [Waiters -> Connections \cup {None}]
      /\ exception \in [Waiters -> {"none", "failed", "canceled"}]
      /\ \A i \in 1..Len(queue) : queue[i] \in Waiters
  BY LenProperties, ElementOfSeq DEF WaiterTypeOK
<1>1. CASE WakeStep
  <2> DEFINE i == scan.at
  <2>1. i \in 1..Len(queue) /\ UNCHANGED request /\ isOpen' = isOpen
    BY <1>1 DEF WakeStep, LockFree, WaiterTypeOK, fieldVars, poolVars
  <2>2. \/ queue' = RemoveAt(queue, i) /\ ~isOpen
        \/ /\ queue' = RemoveAt(queue, i)
           /\ \E c \in Connections : assigned' = [assigned EXCEPT ![queue[i]] = c]
        \/ queue' = RemoveAt(queue, i) /\ exception' = [exception EXCEPT ![queue[i]] = "failed"]
        \/ queue' = queue
    BY <1>1 DEF WakeStep
  <2>3. PICK w \in Waiters : queue[i] = w
    BY <1>0, <2>1
  <2> HIDE DEF i
  <2>4. CASE queue' = RemoveAt(queue, i) /\ ~isOpen
    BY <2>1, <2>3, <2>4 DEF QueueStep
  <2>5. ASSUME NEW c \in Connections, assigned' = [assigned EXCEPT ![w] = c] PROVE WaiterIsDone(w)'
    BY <1>0, <2>3, <2>5, PoolAssumption DEF WaiterIsDone
  <2>6. ASSUME exception' = [exception EXCEPT ![w] = "failed"] PROVE WaiterIsDone(w)'
    BY <1>0, <2>3, <2>6 DEF WaiterIsDone
  <2>7. CASE queue' = RemoveAt(queue, i) /\ WaiterIsDone(w)'
    BY <2>1, <2>3, <2>7 DEF QueueStep
  <2>8. \/ queue' = RemoveAt(queue, i) /\ (~isOpen \/ WaiterIsDone(w)')
        \/ queue' = queue
    BY <2>2, <2>3, <2>5, <2>6, Zenon
  <2> QED
    BY <2>1, <2>4, <2>7, <2>8 DEF QueueStep
<1>2. ASSUME NEW t \in Threads, OnCancel(t) PROVE QueueStep
  <2>0. PICK w : w = myWaiter[t]
    OBVIOUS
  <2>1. UNCHANGED <<request, isOpen>>
    BY <1>2 DEF OnCancel, fieldVars, poolVars
  <2>2. \/ queue' = queue
        \/ /\ \E i \in DOMAIN queue : queue[i] = w /\ queue' = RemoveAt(queue, i)
           /\ exception' = [exception EXCEPT ![w] = "canceled"]
    BY <1>2, <2>0 DEF OnCancel
  <2>3. ASSUME NEW i \in DOMAIN queue, queue[i] = w, queue' = RemoveAt(queue, i),
               exception' = [exception EXCEPT ![w] = "canceled"]
        PROVE  QueueStep
    <3>1. i \in 1..Len(queue) /\ queue[i] \in Waiters
      BY <1>0, <2>3
    <3>2. w \in Waiters /\ exception'[w] = "canceled"
      BY <1>0, <2>3, <3>1
    <3>3. WaiterIsDone(w)'
      BY <3>2 DEF WaiterIsDone
    <3> QED
      BY <2>1, <2>3, <3>1, <3>2, <3>3 DEF QueueStep
  <2> QED
    BY <2>1, <2>2, <2>3 DEF QueueStep
<1>3. ASSUME NEW t \in Threads, Recheck(t) PROVE QueueStep
  <2>1. UNCHANGED queue /\ pc[t] = "parked"
    BY <1>3 DEF Recheck
  <2>2. \/ request' = request
        \/ /\ isOpen /\ WaiterIsDone(myWaiter[t])
           /\ request' = [request EXCEPT ![myWaiter[t]] = NoRequest]
    BY <1>3 DEF Recheck, fieldVars, WaiterIsDone
  <2>3. isOpen /\ WaiterIsDone(myWaiter[t]) => myWaiter[t] \notin Range(queue)
    <3>1. myWaiter[t] # None /\ myWaiter[t] \in Waiters
      BY <2>1 DEF ThreadTypeOK, Waiting
    <3> QED
      BY <3>1 DEF WaiterInv, WaitersOK, DoneWaiters
  <2>4. Range(queue) \subseteq Waiters /\ DOMAIN request = Waiters
    BY <1>0, RangeIn DEF WaiterTypeOK
  <2> QED
    BY <2>1, <2>2, <2>3, <2>4 DEF QueueStep
<1>4. ASSUME NEW t \in Threads, ThreadStep(t)
      PROVE  Enqueue(t) \/ OnCancel(t) \/ Recheck(t) \/ UNCHANGED <<queue, request>>
  BY <1>4 DEF ThreadStep, AcquireNow, RegisterListener, DetectLeak, RecoverLeak, RemoveListener,
     Cancel, Release, Abandon, fieldVars
<1>5. CASE UNCHANGED <<queue, request>>
  BY <1>5 DEF QueueStep
<1>6. CASE Close \/ ReconfigureInPlace \/ ReconfigureOpenFlags \/ ReconfigureWAL
  BY <1>5, <1>6 DEF Close, ReconfigureInPlace, ReconfigureOpenFlags, ReconfigureWAL, fieldVars
<1>7. CASE \E c \in Connections : ClearWeakReference(c) \/ FinalizeConnection(c)
  BY <1>5, <1>7 DEF ClearWeakReference, FinalizeConnection, fieldVars
<1>8. CASE UNCHANGED vars
  BY <1>5, <1>8 DEF vars, fieldVars
<1>9. CASE \E t \in Threads : ThreadStep(t)
  <2>1. PICK t \in Threads : ThreadStep(t)
    BY <1>9
  <2>2. CASE Enqueue(t)
    BY <2>2 DEF QueueStep
  <2> QED
    BY <1>2, <1>3, <1>4, <1>5, <2>1, <2>2
<1> QED
  BY <1>1, <1>6, <1>7, <1>8, <1>9 DEF Next

(* Who is behind a waiter that joins asked for less.                        *)
LEMMA JoiningStep ==
    ASSUME WInv, [Next]_vars, NEW t \in Threads, Enqueue(t), NEW w \in Range(queue)
    PROVE  /\ w \in Range(queue') /\ request'[w] = request[w]
           /\ \A u \in Waiters : Ahead(u, w, queue') =>
                  \/ Ahead(u, w, queue)
                  \/ u \notin Range(queue) /\ request'[u].priority > request[w].priority
<1> USE DEF WInv, Waits, IInv
<1>1. PICK r \in Requests, e \in Waiters :
          /\ request' = [request EXCEPT ![e] = r]
          /\ \E i \in 1..(Len(queue) + 1) : BehindAt(i, r.priority) /\ queue' = InsertAt(queue, i, e)
  BY DEF Enqueue
<1>2. PICK i \in 1..(Len(queue) + 1) : BehindAt(i, r.priority) /\ queue' = InsertAt(queue, i, e)
  BY <1>1
<1>3. /\ queue \in Seq(Waiters) /\ Len(queue) \in Nat /\ request \in [Waiters -> Requests]
      /\ isOpen /\ isOpen' /\ SortedBy(queue, request)
      /\ \A j \in 1..Len(queue) : queue[j] \in Waiters
  BY LenProperties, ElementOfSeq DEF Enqueue, poolVars, WaiterInv, WaiterTypeOK
<1>4. Distinct(queue') /\ queue' \in Seq(Waiters)
  <2>1. WInv'
    BY NextWInv
  <2> QED
    BY <1>3, <2>1 DEF WaiterInv, WaiterTypeOK
<1>5. /\ Len(queue') = Len(queue) + 1
      /\ \A j \in 1..(Len(queue) + 1) :
             queue'[j] = IF j < i THEN queue[j] ELSE IF j = i THEN e ELSE queue[j - 1]
  <2>2. Len(InsertAt(queue, i, e)) = Len(queue) + 1
    BY <1>3, InsertAtType
  <2>3. \A j \in 1..(Len(queue) + 1) :
            InsertAt(queue, i, e)[j] = IF j < i THEN queue[j] ELSE IF j = i THEN e ELSE queue[j - 1]
    BY <1>3, InsertAtElements
  <2> QED
    BY <1>2, <2>2, <2>3, Zenon
<1>6. /\ Range(queue) = {queue[j] : j \in 1..Len(queue)}
      /\ Range(queue') = {queue'[j] : j \in 1..(Len(queue) + 1)}
      /\ DOMAIN queue' = 1..(Len(queue) + 1)
  BY <1>3, <1>4, <1>5, RangeIsIndexed, LenProperties
<1>7. \A j \in 1..Len(queue) : queue[j] # e /\ queue[j] \in Range(queue')
  <2> TAKE j \in 1..Len(queue)
  <2> DEFINE k == IF j < i THEN j ELSE j + 1
  <2>1. k \in 1..(Len(queue) + 1) /\ k # i /\ i \in 1..(Len(queue) + 1) /\ queue'[k] = queue[j] /\ queue'[i] = e
    BY <1>3, <1>5
  <2> HIDE DEF k
  <2>2. queue'[k] # queue'[i]
    BY <1>4, <1>6, <2>1 DEF Distinct
  <2> QED
    BY <1>6, <2>1, <2>2
<1>8. w \in Range(queue') /\ w # e /\ w \in Waiters /\ request'[w] = request[w] /\ e \notin Range(queue)
      /\ request'[e] = r
  BY <1>1, <1>3, <1>6, <1>7
<1>9. ASSUME NEW u \in Waiters, Ahead(u, w, queue'), ~Ahead(u, w, queue)
      PROVE  u \notin Range(queue) /\ request'[u].priority > request[w].priority
  <2>1. u = e /\ \E k \in i..Len(queue) : queue[k] = w
    BY <1>2, <1>3, <1>8, <1>9, AheadInsert
  <2>2. PICK k \in i..Len(queue) : queue[k] = w
    BY <2>1
  <2>3. i \in 1..Len(queue) /\ k \in 1..Len(queue) /\ i <= k
    BY <1>3, <2>2
  <2>6. r.priority \in {0, 1} /\ request[queue[k]].priority \in {0, 1} /\ request[queue[i]].priority \in {0, 1}
    BY <1>3, <2>3, PoolAssumption
  <2>4. request[queue[k]].priority <= request[queue[i]].priority
    BY <1>3, <2>3, <2>6 DEF SortedBy
  <2>5. r.priority > request[queue[i]].priority
    BY <1>2, <1>3, <2>3 DEF BehindAt
  <2> QED
    BY <1>8, <2>1, <2>2, <2>4, <2>5, <2>6
<1> QED
  BY <1>8, <1>9

LEMMA KeepsOrder ==
    ASSUME WInv, [Next]_vars, NEW w \in Range(queue)
    PROVE  /\ w \in Range(queue') =>
                 /\ request'[w] = request[w]
                 /\ \A u \in Waiters : Ahead(u, w, queue') =>
                       \/ Ahead(u, w, queue)
                       \/ u \notin Range(queue) /\ request'[u].priority > request[w].priority
           /\ w \notin Range(queue') => ~isOpen' \/ WaiterIsDone(w)'
<1>0. queue \in Seq(Waiters)
  BY DEF WInv, IInv, WaiterTypeOK
<1>1. CASE \E t \in Threads : Enqueue(t)
  BY <1>1, JoiningStep
<1>2. CASE UNCHANGED queue /\ \A v \in Range(queue) : request'[v] = request[v]
  BY <1>2
<1>3. ASSUME NEW i \in 1..Len(queue), NEW v \in Waiters, UNCHANGED request, queue[i] = v,
             queue' = RemoveAt(queue, i), ~isOpen' \/ WaiterIsDone(v)'
      PROVE  /\ \A u \in Waiters : Ahead(u, w, queue') => Ahead(u, w, queue)
             /\ w \notin Range(queue') => ~isOpen' \/ WaiterIsDone(w)'
  <2>1. \A u \in Waiters : Ahead(u, w, queue') => Ahead(u, w, queue)
    BY <1>0, <1>3, AheadRemove
  <2>2. w \notin Range(queue') => w = v
    BY <1>0, <1>3, RemoveAtKeeps
  <2>3. CASE w = v
    BY <1>3, <2>1, <2>3
  <2> QED
    BY <2>1, <2>2, <2>3
<1> QED
  BY <1>1, <1>2, <1>3, QueueSteps DEF QueueStep

(* Nobody comes to be ahead of a waiter but who joins the queue with a      *)
(* higher priority, so that a waiter of a higher priority is overtaken by   *)
(* nobody; and nobody drops out of the queue of an open pool, which each    *)
(* waiter leaves with a connection or an exception, for any requests,       *)
(* cancellations, leaks and reconfigurations (waitForConnection,            *)
(* wakeConnectionWaitersLocked and cancelConnectionWaiterLocked).           *)
THEOREM WaitersKeepTheirPlace == Spec => NobodyPushesIn
<1>1. WInv /\ [Next]_vars =>
          [\A w \in Range(queue) :
              /\ w \in Range(queue') =>
                    /\ request'[w] = request[w]
                    /\ \A u \in Waiters : Ahead(u, w, queue') =>
                          \/ Ahead(u, w, queue)
                          \/ u \notin Range(queue) /\ request'[u].priority > request[w].priority
              /\ w \notin Range(queue') => ~isOpen' \/ WaiterIsDone(w)']_vars
  BY KeepsOrder
<1> QED
  BY <1>1, WaitersInvariant, PTL DEF Spec, NobodyPushesIn

(* A waiter is served only when nobody ahead of it would have taken the     *)
(* connection: one scan serves the queue from its head, and never a waiter  *)
(* that it has passed (wakeConnectionWaitersLocked).  A leak that is not    *)
(* yet noticed makes an exception, hence the assumption.                    *)
THEOREM ServedInOrder == ASSUME Leaky = {} PROVE Spec => FirstComeFirstServed
<1>1. SInv /\ [Next]_vars =>
          [\A u, w \in Waiters :
              assigned[w] = None /\ assigned'[w] # None /\ Ahead(u, w, queue) =>
                  request[u].wantPrimary /\ kind'[assigned'[w]] # "primary"]_vars
  BY ServedAfterOthers
<1> QED
  BY <1>1, ScansInvariant, PTL DEF Spec, FirstComeFirstServed

-----------------------------------------------------------------------------
(* A pool with one connection, as a database without write-ahead logging    *)
(* has it, behaves as Lending promises: configured once, and given back by  *)
(* everybody who was lent it.                                               *)
Alone == JournalModes = {FALSE} /\ Reconfigurations = {} /\ Leaky = {}

(* The one connection is a primary, it exists while the pool is open, and  *)
(* it is never to be reconfigured or discarded.                            *)
SingleInv ==
    /\ wal = FALSE /\ availableNonPrimary = {}
    /\ \A c \in Connections : status[c] \in {"none", "NORMAL"} /\ kind[c] \in {"closed", "primary"}
    /\ isOpen => \E c \in Connections : kind[c] = "primary"

(* It is lent to one thread at most, and who waits in the queue is known.  *)
Seat ==
    /\ \A t, u \in Served : t = u
    /\ \A t, u \in InQueue : myWaiter[t] = myWaiter[u] => t = u
    /\ \A i \in 1..Len(queue) : \E t \in InQueue : myWaiter[t] = queue[i]

SingleSafe == SInv /\ SingleInv /\ Seat

LEMMA InQueueIsActive == InQueue = ActiveThreads
  BY DEF InQueue, ActiveThreads, Active

(* While the pool is open.                                                 *)
LEMMA OnlyConnection ==
    ASSUME SInv, SingleInv, isOpen, Leaky = {},
           NEW c \in Connections, NEW d \in Connections, kind[c] # "closed", kind[d] # "closed"
    PROVE  c = d
<1> USE DEF SInv, OInv, WInv, IInv, PoolInv
<1>1. Recorded /\ Kept
  BY DEF Owners
<1>2. ASSUME NEW e \in Connections, kind[e] # "closed"
      PROVE  e \in LivePrimaries
  <2>1. e = availablePrimary \/ Used(e)
    BY <1>1, <1>2 DEF Kept, Available, SingleInv
  <2>2. Used(e) => status[e] # "none"
    BY <1>1, PoolAssumption DEF Recorded, Used, Acquired
  <2>3. kind[e] = "primary" /\ status[e] \in {"none", "NORMAL"}
    BY <1>2 DEF SingleInv
  <2> QED
    BY <2>1, <2>2, <2>3 DEF LivePrimaries
<1> QED
  BY <1>2 DEF OnePrimary

LEMMA ServedUses ==
    ASSUME SInv, isOpen, NEW t \in Served
    PROVE  \E c \in Acquired : /\ c \in Connections /\ kind[c] # "closed" /\ c # availablePrimary
                               /\ holds[t] = c \/ (t \in InQueue /\ assigned[myWaiter[t]] = c)
<1> USE DEF SInv, OInv, WInv, IInv, PoolInv
<1>1. Recorded
  BY DEF Owners
<1>2. \A c \in Acquired : c \in Connections /\ kind[c] # "closed" /\ c # availablePrimary
  BY PoolAssumption DEF Acquired, Bookkeeping
<1>3. CASE holds[t] # None
  BY <1>1, <1>2, <1>3 DEF Recorded, Served
<1>4. CASE t \in InQueue /\ assigned[myWaiter[t]] # None
  <2>1. myWaiter[t] \in Waiters
    BY <1>4 DEF InQueue, ThreadTypeOK, Waiting
  <2> QED
    BY <1>1, <1>2, <1>4, <2>1 DEF Recorded
<1> QED
  BY <1>3, <1>4 DEF Served

LEMMA SeatWhenOpen ==
    ASSUME SInv, SingleInv, isOpen, Leaky = {}
    PROVE  Seat
<1> USE DEF SInv, OInv, WInv, IInv, PoolInv
<1>1. WaitersOK(Range(queue), Range(waiterPool), DoneWaiters, ActiveThreads, myWaiter) /\ Exclusive
  BY DEF Waits, WaiterInv, Owners
<1>2. \A t, u \in InQueue : myWaiter[t] = myWaiter[u] => t = u
  BY <1>1, InQueueIsActive DEF WaitersOK
<1>3. ASSUME NEW i \in 1..Len(queue) PROVE \E t \in InQueue : myWaiter[t] = queue[i]
  <2>1. queue[i] \in Range(queue)
    <3>1. queue \in Seq(Waiters)
      BY DEF WaiterTypeOK
    <3>2. Range(queue) = {queue[j] : j \in 1..Len(queue)}
      BY <3>1, RangeIsIndexed
    <3> QED
      BY <3>2
  <2> QED
    BY <1>1, <2>1, InQueueIsActive DEF WaitersOK
<1>4. ASSUME NEW t \in Served, NEW u \in Served PROVE t = u
  <2>1. PICK c \in Acquired : /\ c \in Connections /\ kind[c] # "closed" /\ c # None
                              /\ holds[t] = c \/ (t \in InQueue /\ assigned[myWaiter[t]] = c)
    BY ServedUses, PoolAssumption
  <2>2. PICK d \in Acquired : /\ d \in Connections /\ kind[d] # "closed" /\ d # None
                              /\ holds[u] = d \/ (u \in InQueue /\ assigned[myWaiter[u]] = d)
    BY ServedUses, PoolAssumption
  <2>3. c = d
    BY <2>1, <2>2, OnlyConnection
  <2>4. \A v \in InQueue : myWaiter[v] \in Waiters
    BY DEF InQueue, ThreadTypeOK, Waiting
  <2>5. t \in Threads /\ u \in Threads
    BY DEF Served
  <2> QED
    BY <1>1, <1>2, <2>1, <2>2, <2>3, <2>4, <2>5 DEF Exclusive
<1> QED
  BY <1>2, <1>3, <1>4 DEF Seat

LEMMA WhenOpen ==
    ASSUME SInv, SingleInv, isOpen, Leaky = {}
    PROVE  /\ ~CanTakeNonPrimary
           /\ CanTakePrimary <=> availablePrimary # None
           /\ availablePrimary # None => Served = {}
           /\ availablePrimary = None => Served # {}
           /\ ~LeakPending
<1> USE DEF SInv, OInv, WInv, IInv, PoolInv
<1>1. Recorded /\ Kept
  BY DEF Owners
<1>2. PICK c \in Connections : kind[c] = "primary" /\ c # None
  BY PoolAssumption DEF SingleInv
<1>3. Used(c) => c \in Acquired
  BY <1>1, <1>2 DEF Recorded, Used
<1>4. c = availablePrimary \/ Used(c)
  BY <1>1, <1>2 DEF Kept, Available, SingleInv
<1>5. Acquired \in SUBSET Connections /\ Cardinality(Acquired) \in Nat
      /\ (Cardinality(Acquired) = 0 <=> Acquired = {})
  BY AcquiredIsFinite DEF Acquired
<1>6. ~CanTakeNonPrimary
  BY <1>2, <1>3, <1>4, <1>5 DEF CanTakeNonPrimary, MaxConnectionPoolSize, SingleInv
<1>7. CanTakePrimary <=> availablePrimary # None
  BY <1>2, <1>3, <1>4 DEF CanTakePrimary
<1>8. ASSUME availablePrimary # None, NEW t \in Served PROVE FALSE
  <2>1. PICK d \in Connections : kind[d] # "closed" /\ d # availablePrimary
    BY ServedUses
  <2>2. availablePrimary \in Connections /\ kind[availablePrimary] # "closed"
    BY <1>8 DEF PoolTypeOK, Bookkeeping
  <2> QED
    BY <2>1, <2>2, OnlyConnection
<1>9. ASSUME availablePrimary = None PROVE Served # {}
  <2>1. CASE \E t \in Threads : holds[t] = c
    BY <1>2, <2>1 DEF Served
  <2>2. CASE \E w \in Waiters : assigned[w] = c
    <3>1. PICK w \in Waiters : assigned[w] = c
      BY <2>2
    <3>2. w \in DoneWaiters
      BY <1>2, <3>1 DEF DoneWaiters, WaiterIsDone
    <3>3. PICK t \in ActiveThreads : myWaiter[t] = w
      BY <3>2 DEF Waits, WaiterInv, WaitersOK
    <3>4. t \in Served
      BY <1>2, <3>1, <3>3, InQueueIsActive DEF Served, ActiveThreads
    <3> QED
      BY <3>4
  <2> QED
    BY <1>2, <1>4, <1>9, <2>1, <2>2 DEF Used
<1>10. ~LeakPending
  <2>1. \A d \in Connections : Used(d) => d \in Acquired
    BY <1>1, PoolAssumption DEF Recorded, Used
  <2>2. ~leaked /\ ~(\E t \in Threads : pc[t] = "recovering")
    BY <1>1 DEF Kept
  <2>3. ~(\E d \in Connections : kind[d] # "closed" /\ d \notin Acquired \cup Available)
    BY <1>1, <2>1 DEF Kept
  <2> QED
    BY <2>2, <2>3 DEF LeakPending
<1> QED
  BY <1>6, <1>7, <1>8, <1>9, <1>10

(* The queue is empty while the connection is available, except to a scan  *)
(* that is about to give it to the head.                                   *)
LEMMA AvailableMeans ==
    ASSUME SInv, SingleInv, isOpen, Leaky = {}, availablePrimary # None
    PROVE  /\ LockFree => queue = <<>>
           /\ ~LockFree => scan.at = 1 /\ ~scan.noPrimary /\ queue # <<>> /\ 1 \in 1..Len(queue)
<1>1. CanTakePrimary /\ ~LeakPending
  BY WhenOpen
<1>2. queue \in Seq(Waiters) /\ Len(queue) \in Nat
  BY LenProperties DEF SInv, OInv, WInv, IInv, WaiterTypeOK
<1>3. /\ \A i \in 1..Len(queue) : ~(LockFree \/ i < scan.at)
      /\ ~scan.noPrimary
  BY <1>1 DEF SInv, ScanInv, Refused
<1>4. CASE LockFree
  <2>1. Len(queue) = 0
    BY <1>2, <1>3, <1>4
  <2> QED
    BY <1>2, <1>4, <2>1, EmptySeq
<1>5. CASE ~LockFree
  <2>1. scan.at \in 1..Len(queue)
    BY <1>5 DEF SInv, OInv, WInv, IInv, WaiterTypeOK, LockFree
  <2>2. 1 \in 1..Len(queue) /\ scan.at = 1
    BY <1>2, <1>3, <2>1
  <2>3. queue # <<>>
    BY <1>2, <2>2, EmptySeq
  <2> QED
    BY <1>3, <1>5, <2>2, <2>3
<1> QED
  BY <1>4, <1>5

(* What is taken is the one connection.                                    *)
LEMMA TakesTheOne ==
    ASSUME SInv, SingleInv, isOpen, Leaky = {}, NEW c \in Connections, NEW np, NEW p, TryTake(c, np, p)
    PROVE  /\ p /\ c = availablePrimary /\ c # None
           /\ availablePrimary' = None /\ UNCHANGED <<kind, availableNonPrimary>>
           /\ status' = [status EXCEPT ![c] = "NORMAL"]
<1>1. ~CanTakeNonPrimary /\ (CanTakePrimary <=> availablePrimary # None)
  BY WhenOpen
<1> QED
  BY <1>1 DEF TryTake, TakeNonPrimary, TakePrimary

LEMMA GrantsTheOne ==
    ASSUME SInv, SingleInv, isOpen, Leaky = {}, NEW np, NEW p \in BOOLEAN
    PROVE  Grantable(np, p) <=> p /\ availablePrimary # None
<1>1. ~CanTakeNonPrimary /\ (CanTakePrimary <=> availablePrimary # None)
  BY WhenOpen
<1> QED
  BY <1>1 DEF Grantable

LEMMA AloneKeeps ==
    ASSUME Alone, SInv, SingleInv, [Next]_vars
    PROVE  SingleInv'
<1> USE DEF SInv, OInv, WInv, IInv
<1>0. /\ Leaky = {} /\ None \notin Connections /\ PoolTypeOK /\ ThreadTypeOK
      /\ isOpen => Recorded /\ Kept
  BY PoolAssumption DEF Alone, Owners, PoolInv
<1>1. CASE UNCHANGED <<isOpen, wal, availableNonPrimary, status, kind>>
  BY <1>1 DEF SingleInv
<1>2. ASSUME isOpen, UNCHANGED <<isOpen, wal>>, NEW c \in Connections, NEW np, NEW p, TryTake(c, np, p)
      PROVE  SingleInv'
  <2>1. UNCHANGED <<kind, availableNonPrimary>> /\ status' = [status EXCEPT ![c] = "NORMAL"]
    BY <1>0, <1>2, TakesTheOne
  <2> QED
    BY <1>0, <1>2, <2>1 DEF SingleInv, PoolTypeOK
<1>3. ASSUME NEW t \in Threads, Release(t) PROVE SingleInv'
  <2> DEFINE c == holds[t]
  <2>1. /\ c \in Connections \cup {None} /\ c # None /\ status[c] # "none"
        /\ status' = [status EXCEPT ![c] = "none"] /\ UNCHANGED <<isOpen, wal>>
    BY <1>0, <1>3 DEF Release, ThreadTypeOK
  <2>2. CASE ~isOpen
    BY <1>0, <1>3, <2>1, <2>2 DEF Release, Discarded, ClosedAll, SingleInv, PoolTypeOK
  <2>3. CASE isOpen
    <3>1. c \in Acquired /\ kind[c] # "closed"
      BY <1>0, <2>1, <2>3 DEF Recorded, Acquired, PoolInv, Bookkeeping
    <3>2. kind[c] = "primary" /\ status[c] = "NORMAL"
      BY <2>1, <3>1 DEF SingleInv
    <3>3. UNCHANGED <<kind, availableNonPrimary>>
      BY <1>3, <2>3, <3>2 DEF Release, Recycled
    <3> QED
      BY <1>0, <2>1, <3>3 DEF SingleInv, PoolTypeOK
  <2> QED
    BY <2>2, <2>3
<1>4. CASE Close
  BY <1>0, <1>4 DEF Close, ClosedAll, SingleInv, PoolTypeOK
<1>5. ASSUME NEW c \in Connections, ClearWeakReference(c) PROVE SingleInv'
  BY <1>0, <1>5 DEF ClearWeakReference, SingleInv, PoolTypeOK
<1>6. ASSUME NEW c \in Connections, FinalizeConnection(c) PROVE SingleInv'
  <2>1. ~isOpen
    <3> SUFFICES ASSUME isOpen PROVE FALSE
      OBVIOUS
    <3>1. c \in Available \/ Used(c)
      BY <1>0, <1>6 DEF FinalizeConnection, Kept
    <3> QED
      BY <1>6, <3>1, UsedIsReachable DEF FinalizeConnection, Reachable
  <2> QED
    BY <1>0, <1>6, <2>1 DEF FinalizeConnection, ClosedAll, SingleInv, PoolTypeOK
<1>7. ASSUME NEW t \in Threads, ThreadStep(t) PROVE SingleInv'
  <2>1. CASE AcquireNow(t)
    BY <1>2, <2>1 DEF AcquireNow
  <2>2. CASE Release(t)
    BY <1>3, <2>2
  <2>3. CASE ~AcquireNow(t) /\ ~Release(t)
    <3>1. UNCHANGED poolVars
      BY <1>7, <2>3 DEF ThreadStep, Enqueue, RegisterListener, DetectLeak, RecoverLeak, Recheck,
         RemoveListener, Cancel, OnCancel, Abandon
    <3> QED
      BY <1>1, <3>1 DEF poolVars
  <2> QED
    BY <2>1, <2>2, <2>3
<1>8. CASE WakeStep
  <2>1. CASE UNCHANGED poolVars
    BY <1>1, <2>1 DEF poolVars
  <2>2. CASE /\ isOpen /\ UNCHANGED <<isOpen, wal>>
             /\ \E c \in Connections, np \in BOOLEAN, p \in BOOLEAN : TryTake(c, np, p)
    BY <1>2, <2>2
  <2>3. /\ request \in [Waiters -> Requests] /\ queue[scan.at] \in Waiters
        /\ (~request[queue[scan.at]].wantPrimary /\ ~scan.noNonPrimary) \in BOOLEAN
        /\ (~scan.noPrimary) \in BOOLEAN
    <3>1. scan.at \in 1..Len(queue)
      BY <1>8 DEF WakeStep, LockFree, WaiterTypeOK
    <3> QED
      BY <3>1, ElementOfSeq DEF WaiterTypeOK
  <2> QED
    BY <1>8, <2>1, <2>2, <2>3 DEF WakeStep
<1>9. CASE UNCHANGED vars
  BY <1>1, <1>9 DEF vars, poolVars
<1>10. ~ReconfigureInPlace /\ ~ReconfigureOpenFlags /\ ~ReconfigureWAL
  BY DEF Alone, ReconfigureInPlace, ReconfigureOpenFlags, ReconfigureWAL
<1> QED
  BY <1>4, <1>5, <1>6, <1>7, <1>8, <1>9, <1>10 DEF Next

(* Once the pool is closed nobody joins.                                   *)
Shrinks ==
    /\ ~isOpen' /\ InQueue' \subseteq InQueue /\ Served' \subseteq Served
    /\ \A t \in InQueue' : myWaiter'[t] = myWaiter[t]
    /\ \/ queue' = <<>>
       \/ UNCHANGED queue /\ InQueue' = InQueue
       \/ queue # <<>> /\ queue' = RemoveAt(queue, 1) /\ InQueue' = InQueue

LEMMA ClosedShrinks ==
    ASSUME SInv, ~isOpen, Leaky = {}, [Next]_vars
    PROVE  Shrinks
<1> USE DEF SInv, OInv, WInv, IInv
<1>0. /\ ThreadTypeOK /\ ClosedInv /\ FrameInv
      /\ \A t \in InQueue : myWaiter[t] \in Waiters
      /\ assigned \in [Waiters -> Connections \cup {None}] /\ None \notin Connections
  BY PoolAssumption DEF Waits, InQueue, ThreadTypeOK, Waiting, WaiterTypeOK
<1>1. ASSUME UNCHANGED <<isOpen, pc, holds, assigned, myWaiter, queue>> PROVE Shrinks
  BY <1>1 DEF InQueue, Served, Shrinks
<1>2. ASSUME NEW t \in Threads, ThreadStep(t) PROVE Shrinks
  <2>1. CASE RegisterListener(t)
    <3>1. InQueue' = InQueue
      BY <1>0, <2>1 DEF RegisterListener, InQueue, ThreadTypeOK
    <3> QED
      BY <2>1, <3>1 DEF RegisterListener, poolVars, Served, Shrinks
  <2>2. CASE DetectLeak(t)
    <3>1. InQueue' = InQueue
      BY <1>0, <2>2 DEF DetectLeak, InQueue, ThreadTypeOK
    <3> QED
      BY <2>2, <3>1 DEF DetectLeak, poolVars, Served, Shrinks
  <2>3. CASE RecoverLeak(t)
    <3>1. InQueue' = InQueue
      BY <1>0, <2>3 DEF RecoverLeak, InQueue, ThreadTypeOK
    <3> QED
      BY <2>3, <3>1 DEF RecoverLeak, poolVars, Served, Shrinks
  <2>4. CASE Recheck(t)
    <3>1. InQueue' = InQueue \ {t} /\ queue' = <<>> /\ UNCHANGED <<isOpen, holds, assigned, myWaiter>>
      BY <1>0, <2>4 DEF Recheck, InQueue, ThreadTypeOK, ClosedInv, poolVars
    <3> QED
      BY <3>1 DEF Served, Shrinks
  <2>5. CASE RemoveListener(t)
    <3>1. InQueue' = InQueue /\ t \notin InQueue
      BY <1>0, <2>5 DEF RemoveListener, InQueue, ThreadTypeOK
    <3>2. \A u \in InQueue : myWaiter'[u] = myWaiter[u]
      BY <1>0, <2>5, <3>1 DEF RemoveListener, ThreadTypeOK, InQueue
    <3> QED
      BY <2>5, <3>1, <3>2 DEF RemoveListener, poolVars, Served, Shrinks
  <2>6. CASE Cancel(t)
    BY <1>1, <2>6 DEF Cancel, poolVars
  <2>7. CASE OnCancel(t)
    <3>1. queue = <<>> /\ Len(queue) = 0 /\ LockFree
      BY <1>0, <2>7 DEF OnCancel, ClosedInv
    <3>2. DOMAIN queue = {}
      BY <3>1
    <3>3. UNCHANGED queue
      BY <2>7, <3>2 DEF OnCancel
    <3> QED
      BY <1>1, <2>7, <3>3 DEF OnCancel, poolVars
  <2>8. CASE Release(t)
    <3>1. InQueue' = InQueue /\ holds' = [holds EXCEPT ![t] = None]
      BY <1>0, <2>8 DEF Release, InQueue, ThreadTypeOK
    <3>2. \A u \in Threads : holds'[u] # None => holds[u] # None
      BY <1>0, <3>1 DEF ThreadTypeOK
    <3> QED
      BY <2>8, <3>1, <3>2 DEF Release, Served, Shrinks
  <2>9. ~AcquireNow(t) /\ ~Enqueue(t) /\ ~Abandon(t)
    BY DEF AcquireNow, Enqueue, Abandon
  <2> QED
    BY <1>2, <2>1, <2>2, <2>3, <2>4, <2>5, <2>6, <2>7, <2>8, <2>9 DEF ThreadStep
<1>3. CASE WakeStep
  <2>1. scan.at = 1 /\ scan.at \in 1..Len(queue)
    BY <1>0, <1>3 DEF WakeStep, ClosedInv, LockFree, WaiterTypeOK
  <2>2. queue # <<>> /\ queue' = RemoveAt(queue, 1) /\ UNCHANGED <<isOpen, pc, holds, assigned, myWaiter>>
    BY <1>3, <2>1, EmptySeq DEF WakeStep, poolVars, threadVars
  <2> QED
    BY <2>2 DEF InQueue, Served, Shrinks
<1>4. ASSUME NEW c \in Connections, ClearWeakReference(c) \/ FinalizeConnection(c) PROVE Shrinks
  BY <1>1, <1>4 DEF ClearWeakReference, FinalizeConnection, threadVars
<1>5. CASE UNCHANGED vars
  BY <1>1, <1>5 DEF vars, poolVars, threadVars
<1>6. ~Close /\ ~ReconfigureInPlace /\ ~ReconfigureOpenFlags /\ ~ReconfigureWAL
  BY DEF Close, ReconfigureInPlace, ReconfigureOpenFlags, ReconfigureWAL
<1>7. CASE UNCHANGED vars \/ WakeStep
  BY <1>1, <1>3, <1>5, <1>7
<1> QED
  BY <1>2, <1>4, <1>6, <1>7 DEF Next

LEMMA SeatKeeps ==
    ASSUME Alone, SingleSafe, [Next]_vars
    PROVE  isOpen' \/ Seat'
<1>0. Leaky = {}
  BY DEF Alone
<1>2. CASE ~isOpen' /\ isOpen
  <2>1. Close
    <3>1. isOpen' # isOpen
      BY <1>2
    <3> QED
      BY <3>1 DEF Next, ThreadStep, AcquireNow, Enqueue, RegisterListener, DetectLeak, RecoverLeak, Recheck,
         RemoveListener, Cancel, OnCancel, Release, Abandon, WakeStep, ReconfigureInPlace, ReconfigureOpenFlags,
         ReconfigureWAL, ClearWeakReference, FinalizeConnection, vars, poolVars
  <2> QED
    BY <2>1 DEF Close, threadVars, SingleSafe, Seat, InQueue, Served
<1>3. CASE ~isOpen' /\ ~isOpen
  <2>1. /\ InQueue' \subseteq InQueue /\ Served' \subseteq Served
        /\ \A t \in InQueue' : myWaiter'[t] = myWaiter[t]
        /\ \/ queue' = <<>>
           \/ UNCHANGED queue /\ InQueue' = InQueue
           \/ queue # <<>> /\ queue' = RemoveAt(queue, 1) /\ InQueue' = InQueue
    BY <1>0, <1>3, ClosedShrinks DEF SingleSafe, Shrinks
  <2>2. \A i \in 1..Len(queue') : \E t \in InQueue' : myWaiter'[t] = queue'[i]
    <3>0. queue \in Seq(Waiters) /\ Len(queue) \in Nat
      BY LenProperties DEF SingleSafe, SInv, OInv, WInv, IInv, WaiterTypeOK
    <3>1. CASE queue' = <<>>
      <4>1. Len(queue') = 0
        BY <3>1
      <4> QED
        BY <4>1
    <3>2. CASE UNCHANGED queue /\ InQueue' = InQueue
      BY <2>1, <3>2 DEF SingleSafe, Seat
    <3>3. CASE queue # <<>> /\ queue' = RemoveAt(queue, 1) /\ InQueue' = InQueue
      <4>1. 1 \in 1..Len(queue)
        BY <3>0, <3>3, EmptySeq
      <4>2. Len(queue') = Len(queue) - 1 /\ \A i \in 1..Len(queue) - 1 : queue'[i] = queue[i + 1]
        <5>1. \A i \in 1..Len(queue) - 1 : ~(i < 1)
          BY <3>0
        <5> QED
          BY <3>0, <3>3, <4>1, <5>1, RemoveAtType, RemoveAtElements
      <4>3. \A i \in 1..Len(queue) - 1 : i + 1 \in 1..Len(queue)
        BY <3>0
      <4> QED
        BY <2>1, <3>3, <4>2, <4>3 DEF SingleSafe, Seat
    <3> QED
      BY <2>1, <3>1, <3>2, <3>3
  <2> QED
    BY <2>1, <2>2 DEF SingleSafe, Seat
<1> QED
  BY <1>2, <1>3

LEMMA InitAlone == ASSUME Alone, Init PROVE SingleInv /\ Seat
<1>0. (CHOOSE c \in Connections : TRUE) \in Connections /\ None \notin Connections
  BY PoolAssumption
<1>1. SingleInv
  BY <1>0 DEF Init, Alone, SingleInv
<1>2. Served = {} /\ InQueue = {} /\ Len(queue) = 0
  BY DEF Init, Served, InQueue
<1> QED
  BY <1>1, <1>2 DEF Seat

(* A pool that is alone has one connection at most, and lends it to one     *)
(* thread at most, whoever waits, gives up or closes the pool               *)
(* (acquireConnection, releaseConnection and wakeConnectionWaitersLocked of *)
(* SQLiteConnectionPool.java).                                              *)
THEOREM AloneIsSafe == ASSUME Alone PROVE Spec => []SingleSafe
<1>1. Init => SingleInv /\ Seat
  BY InitAlone
<1>2. SingleSafe /\ [Next]_vars => SingleInv' /\ (isOpen' \/ Seat')
  BY AloneKeeps, SeatKeeps DEF SingleSafe
<1>4. SInv /\ SingleInv /\ isOpen => Seat
  BY SeatWhenOpen DEF Alone
<1>3. SInv /\ SingleInv /\ Seat <=> SingleSafe
  BY DEF SingleSafe
<1> QED
  BY <1>1, <1>2, <1>3, <1>4, ScansInvariant, PTL DEF Spec

-----------------------------------------------------------------------------
(* The line that a queue of waiters stands for.                            *)
OwnerIn(w, A, m) == CHOOSE t \in {u \in A : m[u] = w} : TRUE
EntryOf(w, A, m, rq) == [thread |-> OwnerIn(w, A, m), priority |-> rq[w].priority]
LineIn(q, A, m, rq) == [i \in DOMAIN q |-> EntryOf(q[i], A, m, rq)]
Entries == [thread : Threads, priority : {0, 1}]

(* Each waiter of the queue q is that of one of the threads A, and of no   *)
(* other.                                                                  *)
Owned(q, A, m) ==
    /\ \A t, u \in A : m[t] = m[u] => t = u
    /\ \A i \in 1..Len(q) : \E t \in A : m[t] = q[i]

LEMMA OwnerIs ==
    ASSUME NEW A, NEW m, \A t, u \in A : m[t] = m[u] => t = u, NEW t \in A
    PROVE  OwnerIn(m[t], A, m) = t
<1>1. t \in {u \in A : m[u] = m[t]}
  OBVIOUS
<1>2. OwnerIn(m[t], A, m) \in {u \in A : m[u] = m[t]}
  BY <1>1 DEF OwnerIn
<1> QED
  BY <1>2

LEMMA OwnerOf ==
    ASSUME NEW q, NEW A, NEW m, Owned(q, A, m), NEW i \in 1..Len(q)
    PROVE  OwnerIn(q[i], A, m) \in A /\ m[OwnerIn(q[i], A, m)] = q[i]
<1>1. PICK t \in A : m[t] = q[i]
  BY DEF Owned
<1>2. OwnerIn(m[t], A, m) = t
  BY OwnerIs DEF Owned
<1> QED
  BY <1>1, <1>2

LEMMA LineElements ==
    ASSUME NEW q \in Seq(Waiters), NEW A \in SUBSET Threads, NEW m,
           NEW rq \in [Waiters -> Requests], Owned(q, A, m)
    PROVE  /\ LineIn(q, A, m, rq) \in Seq(Entries)
           /\ Len(LineIn(q, A, m, rq)) = Len(q) /\ Len(q) \in Nat
           /\ DOMAIN LineIn(q, A, m, rq) = 1..Len(q)
           /\ \A i \in 1..Len(q) : /\ LineIn(q, A, m, rq)[i] = EntryOf(q[i], A, m, rq)
                                   /\ q[i] \in Waiters /\ OwnerIn(q[i], A, m) \in A
                                   /\ m[OwnerIn(q[i], A, m)] = q[i]
           /\ LineIn(q, A, m, rq) = <<>> <=> q = <<>>
<1>1. Len(q) \in Nat /\ DOMAIN q = 1..Len(q) /\ \A i \in 1..Len(q) : q[i] \in Waiters
  BY LenProperties, ElementOfSeq
<1>2. \A i \in 1..Len(q) : OwnerIn(q[i], A, m) \in A /\ m[OwnerIn(q[i], A, m)] = q[i]
  BY OwnerOf
<1>3. ASSUME NEW i \in 1..Len(q) PROVE EntryOf(q[i], A, m, rq) \in Entries
  <2>1. rq[q[i]].priority \in {0, 1}
    BY <1>1, PoolAssumption
  <2> QED
    BY <1>2, <2>1 DEF EntryOf, Entries
<1> DEFINE L == LineIn(q, A, m, rq)
<1>4. L \in [1..Len(q) -> Entries] /\ \A i \in 1..Len(q) : L[i] = EntryOf(q[i], A, m, rq)
  BY <1>1, <1>3 DEF LineIn
<1> HIDE DEF L
<1>5. L \in Seq(Entries) /\ Len(L) = Len(q) /\ DOMAIN L = 1..Len(q)
  BY <1>1, <1>4
<1>6. L = <<>> <=> q = <<>>
  BY <1>1, <1>5, EmptySeq
<1> QED
  BY <1>1, <1>2, <1>4, <1>5, <1>6 DEF L

(* The same waiters, with the same owners.                                 *)
LEMMA LineSame ==
    ASSUME NEW q \in Seq(Waiters), NEW A, NEW m, NEW rq, NEW B, NEW n, NEW rs,
           Owned(q, A, m), Owned(q, B, n),
           \A i \in 1..Len(q) : /\ \E t \in A \cap B : m[t] = q[i] /\ n[t] = q[i]
                                /\ rs[q[i]].priority = rq[q[i]].priority
    PROVE  LineIn(q, A, m, rq) = LineIn(q, B, n, rs)
<1>1. ASSUME NEW i \in DOMAIN q PROVE EntryOf(q[i], A, m, rq) = EntryOf(q[i], B, n, rs)
  <2>1. i \in 1..Len(q)
    BY LenProperties
  <2>2. PICK t \in A \cap B : m[t] = q[i] /\ n[t] = q[i]
    BY <2>1
  <2>3. OwnerIn(q[i], A, m) = t /\ OwnerIn(q[i], B, n) = t
    <3>1. OwnerIn(m[t], A, m) = t
      BY OwnerIs DEF Owned
    <3>2. OwnerIn(n[t], B, n) = t
      BY OwnerIs DEF Owned
    <3> QED
      BY <2>2, <3>1, <3>2
  <2> QED
    BY <2>1, <2>3 DEF EntryOf
<1> QED
  BY <1>1 DEF LineIn

LEMMA LineWithout ==
    ASSUME NEW q \in Seq(Waiters), NEW A \in SUBSET Threads, NEW m,
           NEW rq \in [Waiters -> Requests], Owned(q, A, m), NEW i \in 1..Len(q)
    PROVE  /\ Owned(RemoveAt(q, i), A, m)
           /\ LineIn(RemoveAt(q, i), A, m, rq) = OneConnection!RemoveAt(LineIn(q, A, m, rq), i)
<1> DEFINE L == LineIn(q, A, m, rq)
           r == RemoveAt(q, i)
<1>1. /\ L \in Seq(Entries) /\ Len(L) = Len(q) /\ Len(q) \in Nat
      /\ \A j \in 1..Len(q) : L[j] = EntryOf(q[j], A, m, rq)
  BY LineElements
<1>2. /\ r \in Seq(Waiters) /\ Len(r) = Len(q) - 1
      /\ \A j \in 1..(Len(q) - 1) : r[j] = IF j < i THEN q[j] ELSE q[j + 1]
  BY RemoveAtType, RemoveAtElements
<1>3. \A j \in 1..(Len(q) - 1) : j \in 1..Len(q) /\ j + 1 \in 1..Len(q)
  BY <1>1
<1>4. Owned(r, A, m)
  <2> SUFFICES ASSUME NEW j \in 1..(Len(q) - 1) PROVE \E t \in A : m[t] = r[j]
    BY <1>2 DEF Owned
  <2> QED
    BY <1>2, <1>3 DEF Owned
<1>5. OneConnection!RemoveAt(L, i) = RemoveAt(L, i)
  BY DEF OneConnection!RemoveAt, RemoveAt
<1> HIDE DEF L, r
<1>6. /\ RemoveAt(L, i) \in Seq(Entries) /\ Len(RemoveAt(L, i)) = Len(q) - 1
      /\ \A j \in 1..(Len(q) - 1) : RemoveAt(L, i)[j] = IF j < i THEN L[j] ELSE L[j + 1]
  BY <1>1, RemoveAtType, RemoveAtElements
<1>7. /\ LineIn(r, A, m, rq) \in Seq(Entries) /\ Len(LineIn(r, A, m, rq)) = Len(q) - 1
      /\ \A j \in 1..(Len(q) - 1) : LineIn(r, A, m, rq)[j] = EntryOf(r[j], A, m, rq)
  BY <1>2, <1>4, LineElements
<1>8. \A j \in 1..(Len(q) - 1) : LineIn(r, A, m, rq)[j] = RemoveAt(L, i)[j]
  <2> SUFFICES ASSUME NEW j \in 1..(Len(q) - 1) PROVE LineIn(r, A, m, rq)[j] = RemoveAt(L, i)[j]
    OBVIOUS
  <2>1. CASE j < i
    BY <1>1, <1>2, <1>3, <1>6, <1>7, <2>1
  <2>2. CASE ~(j < i)
    BY <1>1, <1>2, <1>3, <1>6, <1>7, <2>2
  <2> QED
    BY <2>1, <2>2
<1>9. LineIn(r, A, m, rq) = RemoveAt(L, i)
  BY <1>6, <1>7, <1>8, SeqEqual
<1> QED
  BY <1>4, <1>5, <1>9 DEF L, r

LEMMA RemoveAtHead ==
    ASSUME NEW S, NEW s \in Seq(S), s # <<>>
    PROVE  RemoveAt(s, 1) = Tail(s) /\ 1 \in 1..Len(s)
<1> SUFFICES ASSUME NEW i \in Nat, i = 1
             PROVE  RemoveAt(s, i) = Tail(s) /\ i \in 1..Len(s)
  OBVIOUS
<1>1. Len(s) \in Nat /\ i \in 1..Len(s) /\ \A j \in 1..(Len(s) - 1) : ~(j < i)
  BY EmptySeq, LenProperties
<1>2. /\ RemoveAt(s, i) \in Seq(S) /\ Len(RemoveAt(s, i)) = Len(s) - 1
      /\ \A j \in 1..(Len(s) - 1) : RemoveAt(s, i)[j] = s[j + 1]
  BY <1>1, RemoveAtType, RemoveAtElements
<1>3. /\ Tail(s) \in Seq(S) /\ Len(Tail(s)) = Len(s) - 1
      /\ \A j \in 1..(Len(s) - 1) : Tail(s)[j] = s[j + 1]
  BY HeadTailProperties
<1>4. \A j \in 1..(Len(s) - 1) : RemoveAt(s, i)[j] = Tail(s)[j]
  BY <1>2, <1>3
<1>5. RemoveAt(s, i) = Tail(s)
  BY <1>2, <1>3, <1>4, SeqEqual
<1> QED
  BY <1>1, <1>5

LEMMA LineAfterHead ==
    ASSUME NEW q \in Seq(Waiters), NEW A \in SUBSET Threads, NEW m,
           NEW rq \in [Waiters -> Requests], Owned(q, A, m), q # <<>>
    PROVE  LineIn(Tail(q), A, m, rq) = Tail(LineIn(q, A, m, rq))
<1> DEFINE L == LineIn(q, A, m, rq)
<1>2. RemoveAt(q, 1) = Tail(q) /\ 1 \in 1..Len(q)
  BY RemoveAtHead
<1>3. L \in Seq(Entries) /\ L # <<>>
  BY LineElements
<1>4. LineIn(RemoveAt(q, 1), A, m, rq) = OneConnection!RemoveAt(L, 1)
  BY <1>2, LineWithout
<1>5. OneConnection!RemoveAt(L, 1) = RemoveAt(L, 1)
  BY DEF OneConnection!RemoveAt, RemoveAt
<1> HIDE DEF L
<1>6. RemoveAt(L, 1) = Tail(L)
  BY <1>3, RemoveAtHead
<1>7. LineIn(Tail(q), A, m, rq) = Tail(L)
  BY <1>2, <1>4, <1>5, <1>6
<1> QED
  BY <1>7 DEF L

LEMMA SeqIsInsert ==
    ASSUME NEW L \in Seq(Entries), NEW i \in 1..(Len(L) + 1), NEW e \in Entries,
           NEW M \in Seq(Entries), Len(M) = Len(L) + 1,
           \A j \in 1..(Len(L) + 1) : M[j] = IF j < i THEN L[j] ELSE IF j = i THEN e ELSE L[j - 1]
    PROVE  M = OneConnection!InsertAt(L, i, e)
<1>1. /\ InsertAt(L, i, e) \in Seq(Entries) /\ Len(InsertAt(L, i, e)) = Len(L) + 1
      /\ \A j \in 1..(Len(L) + 1) :
             InsertAt(L, i, e)[j] = IF j < i THEN L[j] ELSE IF j = i THEN e ELSE L[j - 1]
  BY InsertAtType, InsertAtElements
<1>2. OneConnection!InsertAt(L, i, e) = InsertAt(L, i, e)
  BY DEF OneConnection!InsertAt, InsertAt
<1>3. M = InsertAt(L, i, e)
  BY <1>1, SeqEqual
<1> QED
  BY <1>2, <1>3

IsInsert(r, q, i, w) ==
    /\ Len(r) = Len(q) + 1
    /\ \A j \in 1..(Len(q) + 1) : r[j] = IF j < i THEN q[j] ELSE IF j = i THEN w ELSE q[j - 1]

LEMMA Inserted ==
    ASSUME NEW q \in Seq(Waiters), NEW w \in Waiters, NEW i \in 1..(Len(q) + 1)
    PROVE  \E r \in Seq(Waiters) : r = InsertAt(q, i, w) /\ IsInsert(r, q, i, w)
  BY InsertAtType, InsertAtElements DEF IsInsert

LEMMA LineWith ==
    ASSUME NEW q \in Seq(Waiters), NEW A \in SUBSET Threads, NEW m,
           NEW rq \in [Waiters -> Requests], NEW w \in Waiters, NEW i \in 1..(Len(q) + 1), NEW t \in A,
           Owned(q, A, m), Owned(InsertAt(q, i, w), A, m), m[t] = w
    PROVE  LineIn(InsertAt(q, i, w), A, m, rq) =
               OneConnection!InsertAt(LineIn(q, A, m, rq), i, [thread |-> t, priority |-> rq[w].priority])
<1>9. PICK r \in Seq(Waiters) : r = InsertAt(q, i, w) /\ IsInsert(r, q, i, w)
  BY Inserted
<1>1. /\ r = InsertAt(q, i, w) /\ Len(r) = Len(q) + 1
      /\ \A j \in 1..(Len(q) + 1) : r[j] = IF j < i THEN q[j] ELSE IF j = i THEN w ELSE q[j - 1]
  BY <1>9 DEF IsInsert
<1> DEFINE f == [v \in Waiters |-> EntryOf(v, A, m, rq)]
           L == LineIn(q, A, m, rq)
           e == [thread |-> t, priority |-> rq[w].priority]
<1> DEFINE M == LineIn(r, A, m, rq)
<1>2. L \in Seq(Entries) /\ Len(L) = Len(q) /\ \A j \in 1..Len(q) : L[j] = f[q[j]]
  BY LineElements
<1>3. Owned(r, A, m)
  BY <1>1
<1>4. M \in Seq(Entries) /\ Len(M) = Len(r) /\ \A j \in 1..Len(r) : M[j] = f[r[j]]
  BY <1>3, LineElements
<1>5. e = f[w] /\ e \in Entries
  <2>1. OwnerIn(m[t], A, m) = t
    BY OwnerIs DEF Owned
  <2>2. rq[w].priority \in {0, 1} /\ t \in Threads
    BY PoolAssumption
  <2> QED
    BY <2>1, <2>2 DEF EntryOf, Entries
<1> HIDE DEF f, L, M, e
<1>0. Len(q) \in Nat
  BY LenProperties
<1>6. ASSUME NEW j \in 1..(Len(q) + 1)
      PROVE  M[j] = IF j < i THEN L[j] ELSE IF j = i THEN e ELSE L[j - 1]
  <2>1. CASE j < i
    <3>1. j \in 1..Len(q)
      BY <1>0, <2>1
    <3> QED
      BY <1>1, <1>2, <1>4, <1>5, <2>1, <3>1
  <2>2. CASE j = i
    <3>1. ~(j < i)
      BY <1>0, <2>2
    <3> QED
      BY <1>1, <1>2, <1>4, <1>5, <2>2, <3>1
  <2>3. CASE j > i
    <3>1. j - 1 \in 1..Len(q) /\ ~(j < i) /\ j # i
      BY <1>0, <2>3
    <3> QED
      <4>1. r[j] = q[j - 1] /\ j \in 1..Len(r)
        BY <1>1, <3>1
      <4>2. M[j] = f[q[j - 1]] /\ L[j - 1] = f[q[j - 1]]
        BY <1>2, <1>4, <3>1, <4>1
      <4> QED
        BY <3>1, <4>2
  <2>4. j < i \/ j = i \/ j > i
    BY <1>0
  <2> QED
    BY <2>1, <2>2, <2>3, <2>4, Zenon
<1>7. /\ i \in 1..(Len(L) + 1) /\ Len(M) = Len(L) + 1
      /\ \A j \in 1..(Len(L) + 1) : M[j] = IF j < i THEN L[j] ELSE IF j = i THEN e ELSE L[j - 1]
  BY <1>0, <1>1, <1>2, <1>4, <1>6
<1>8. M = OneConnection!InsertAt(L, i, e)
  <2>1. L \in Seq(Entries) /\ M \in Seq(Entries) /\ e \in Entries
    BY <1>2, <1>4, <1>5
  <2> QED
    BY <1>7, <2>1, SeqIsInsert, Zenon
<1> QED
  BY <1>1, <1>8 DEF L, M, e

-----------------------------------------------------------------------------
(* The lessee and the line, before and after a step.                       *)
LesseeIn(h, q, A, m, S) ==
    IF h THEN OwnerIn(Head(q), A, m) ELSE IF S = {} THEN None ELSE CHOOSE t \in S : TRUE

LEMMA Views ==
    /\ Lessee = LesseeIn(HandingOver, queue, InQueue, myWaiter, Served)
    /\ Lessee' = LesseeIn(HandingOver', queue', InQueue', myWaiter', Served')
    /\ Line = LineIn(IF HandingOver THEN Tail(queue) ELSE queue, InQueue, myWaiter, request)
    /\ Line' = LineIn(IF HandingOver' THEN Tail(queue') ELSE queue', InQueue', myWaiter', request')
  BY DEF Lessee, LesseeIn, Line, LineOf, LineIn, EntryOf, Owner, OwnerIn

LEMMA LesseeIs ==
    ASSUME NEW q, NEW A, NEW m, NEW S, NEW t \in S, \A u \in S : u = t
    PROVE  LesseeIn(FALSE, q, A, m, S) = t
<1>1. (CHOOSE u \in S : TRUE) \in S
  OBVIOUS
<1> QED
  BY <1>1 DEF LesseeIn

LEMMA SingleTypes ==
    ASSUME SingleSafe
    PROVE  /\ queue \in Seq(Waiters) /\ Len(queue) \in Nat /\ InQueue \in SUBSET Threads
           /\ request \in [Waiters -> Requests] /\ Owned(queue, InQueue, myWaiter)
           /\ \A t, u \in Served : t = u
           /\ Served \in SUBSET Threads /\ None \notin Threads /\ None \notin Connections
           /\ ThreadTypeOK /\ PoolTypeOK /\ FrameInv /\ ClosedInv
           /\ isOpen \in BOOLEAN
           /\ assigned \in [Waiters -> Connections \cup {None}]
           /\ \A t \in InQueue : myWaiter[t] \in Waiters
<1> USE DEF SingleSafe, SInv, OInv, WInv, IInv, PoolInv, Waits
<1>1. queue \in Seq(Waiters) /\ Len(queue) \in Nat
  BY LenProperties DEF WaiterTypeOK
<1>2. \A t \in InQueue : myWaiter[t] \in Waiters
  BY DEF InQueue, ThreadTypeOK, Waiting
<1> QED
  BY <1>1, <1>2, PoolAssumption DEF WaiterTypeOK, PoolTypeOK, Seat, Owned, InQueue, Served

(* A step that the threads do not see.                                     *)
LEMMA ViewFrame ==
    ASSUME UNCHANGED <<isOpen, queue, request>>, HandingOver' <=> HandingOver,
           InQueue' = InQueue, \A t \in InQueue : myWaiter'[t] = myWaiter[t], Served' = Served
    PROVE  UNCHANGED OneConnection!vars
<1>1. \A w : OwnerIn(w, InQueue, myWaiter') = OwnerIn(w, InQueue, myWaiter)
  <2> SUFFICES ASSUME NEW w PROVE OwnerIn(w, InQueue, myWaiter') = OwnerIn(w, InQueue, myWaiter)
    OBVIOUS
  <2>1. {u \in InQueue : myWaiter'[u] = w} = {u \in InQueue : myWaiter[u] = w}
    OBVIOUS
  <2> QED
    BY <2>1 DEF OwnerIn
<1>2. Lessee' = Lessee
  <2>1. (HandingOver' = TRUE /\ HandingOver = TRUE) \/ (HandingOver' = FALSE /\ HandingOver = FALSE)
    BY DEF HandingOver
  <2> QED
    BY <1>1, <2>1, Views DEF LesseeIn
<1>3. Line' = Line
  <2>1. (IF HandingOver' THEN Tail(queue') ELSE queue') = (IF HandingOver THEN Tail(queue) ELSE queue)
    OBVIOUS
  <2> QED
    BY <1>1, <2>1, Views DEF LineIn, EntryOf
<1> QED
  BY <1>2, <1>3 DEF OneConnection!vars

(* Steps of the threads that leave the queue and the connection alone.     *)
LEMMA QuietStep ==
    ASSUME Alone, SingleSafe, NEW t \in Threads,
           \/ RegisterListener(t) \/ DetectLeak(t) \/ RecoverLeak(t)
           \/ RemoveListener(t) \/ Cancel(t) \/ Abandon(t)
    PROVE  UNCHANGED OneConnection!vars
<1>0. /\ ThreadTypeOK /\ FrameInv /\ ClosedInv /\ (isOpen => Kept) /\ Leaky = {}
  BY SingleTypes DEF Alone, SingleSafe, SInv, OInv, Owners
<1>1. CASE RegisterListener(t)
  <2>1. InQueue' = InQueue
    BY <1>0, <1>1 DEF RegisterListener, InQueue, ThreadTypeOK
  <2>2. Served' = Served
    BY <1>1, <2>1 DEF RegisterListener, Served
  <2> QED
    BY <1>1, <2>1, <2>2, ViewFrame DEF RegisterListener, poolVars, fieldVars, HandingOver, LockFree
<1>2. CASE DetectLeak(t)
  <2>1. InQueue' = InQueue
    BY <1>0, <1>2 DEF DetectLeak, InQueue, ThreadTypeOK
  <2>2. Served' = Served
    BY <1>2, <2>1 DEF DetectLeak, Served
  <2> QED
    BY <1>2, <2>1, <2>2, ViewFrame DEF DetectLeak, poolVars, fieldVars, HandingOver, LockFree
<1>3. CASE RecoverLeak(t)
  <2>1. InQueue' = InQueue
    BY <1>0, <1>3 DEF RecoverLeak, InQueue, ThreadTypeOK
  <2>2. Served' = Served
    BY <1>3, <2>1 DEF RecoverLeak, Served
  <2>3. ~isOpen
    BY <1>0, <1>3 DEF RecoverLeak, Kept
  <2> QED
    BY <1>3, <2>1, <2>2, <2>3, ViewFrame DEF RecoverLeak, poolVars, fieldVars, HandingOver
<1>4. CASE RemoveListener(t)
  <2>1. InQueue' = InQueue /\ t \notin InQueue
    BY <1>0, <1>4 DEF RemoveListener, InQueue, ThreadTypeOK
  <2>2. \A u \in InQueue : myWaiter'[u] = myWaiter[u]
    BY <1>0, <1>4, <2>1 DEF RemoveListener, ThreadTypeOK, InQueue
  <2>3. Served' = Served
    BY <1>4, <2>1, <2>2 DEF RemoveListener, Served
  <2> QED
    BY <1>4, <2>1, <2>2, <2>3, ViewFrame DEF RemoveListener, poolVars, fieldVars, HandingOver, LockFree
<1>5. CASE Cancel(t)
  <2>1. InQueue' = InQueue /\ Served' = Served
    BY <1>5 DEF Cancel, InQueue, Served
  <2> QED
    BY <1>5, <2>1, ViewFrame DEF Cancel, poolVars, fieldVars, HandingOver, LockFree
<1>6. ~Abandon(t)
  BY <1>0 DEF Abandon
<1> QED
  BY <1>1, <1>2, <1>3, <1>4, <1>5, <1>6

LEMMA CollectorIsQuiet ==
    ASSUME NEW c \in Connections, ClearWeakReference(c) \/ FinalizeConnection(c)
    PROVE  UNCHANGED OneConnection!vars
<1>1. InQueue' = InQueue /\ Served' = Served
  BY DEF ClearWeakReference, FinalizeConnection, InQueue, Served, threadVars
<1> QED
  BY <1>1, ViewFrame DEF ClearWeakReference, FinalizeConnection, threadVars, fieldVars, HandingOver, LockFree

(* A connection is available: the thread takes it.                         *)
LEMMA AcquireNowTakes ==
    ASSUME Alone, SingleSafe, SingleSafe', NEW t \in Threads, AcquireNow(t)
    PROVE  OneConnection!Take(t)
<1>0. /\ isOpen /\ LockFree /\ UNCHANGED <<isOpen, scan, queue, myWaiter, assigned>>
      /\ Leaky = {} /\ SInv /\ SingleInv /\ None \notin Connections
      /\ queue \in Seq(Waiters) /\ \A u, v \in Served' : u = v
  BY SingleTypes DEF Alone, AcquireNow, SingleSafe, Seat
<1>1. PICK c \in Connections, r \in Requests : TryTake(c, ~r.wantPrimary, TRUE) /\ holds' = [holds EXCEPT ![t] = c]
  BY DEF AcquireNow
<1>2. availablePrimary # None /\ availablePrimary' = None
  BY <1>0, <1>1, TakesTheOne
<1>3. queue = <<>> /\ Served = {}
  BY <1>0, <1>2, AvailableMeans, WhenOpen
<1>4. t \in Served'
  <2>1. holds'[t] = c
    BY <1>1, SingleTypes DEF ThreadTypeOK
  <2> QED
    BY <1>0, <2>1 DEF Served
<1>5. HandingOver = FALSE /\ HandingOver' = FALSE
  BY <1>0 DEF HandingOver, LockFree
<1>6. Lessee = None /\ Lessee' = t
  <2>1. LesseeIn(FALSE, queue, InQueue, myWaiter, Served) = None
    BY <1>3 DEF LesseeIn
  <2>2. LesseeIn(FALSE, queue', InQueue', myWaiter', Served') = t
    BY <1>0, <1>4, LesseeIs
  <2> QED
    BY <1>5, <2>1, <2>2, Views
<1>7. Line = <<>> /\ Line' = <<>>
  <2>1. Line = LineIn(queue, InQueue, myWaiter, request) /\ Line' = LineIn(queue', InQueue', myWaiter', request')
    BY <1>5, Views
  <2> QED
    BY <1>0, <1>3, <2>1 DEF LineIn
<1> QED
  BY <1>0, <1>6, <1>7 DEF OneConnection!Take

(* None is: the thread joins the line behind its equals and betters.       *)
LEMMA EnqueueJoins ==
    ASSUME Alone, SingleSafe, SingleSafe', NEW t \in Threads, Enqueue(t)
    PROVE  \E priority \in {0, 1} : OneConnection!Join(t, priority)
<1>0. /\ isOpen /\ LockFree /\ pc[t] = "idle" /\ pc' = [pc EXCEPT ![t] = "enqueued"]
      /\ UNCHANGED <<isOpen, scan, assigned, holds, availablePrimary>>
      /\ Leaky = {} /\ SInv /\ SingleInv
      /\ \A u, v \in Served' : u = v
  BY DEF Alone, Enqueue, poolVars, SingleSafe, Seat
<1>1. PICK r \in Requests, w \in Waiters, i \in 1..(Len(queue) + 1) :
          /\ ~Grantable(~r.wantPrimary, TRUE)
          /\ request' = [request EXCEPT ![w] = r]
          /\ BehindAt(i, r.priority) /\ queue' = InsertAt(queue, i, w)
          /\ myWaiter' = [myWaiter EXCEPT ![t] = w]
  BY DEF Enqueue
<1>2. /\ queue \in Seq(Waiters) /\ Len(queue) \in Nat /\ InQueue \in SUBSET Threads
      /\ request \in [Waiters -> Requests] /\ Owned(queue, InQueue, myWaiter)
      /\ ThreadTypeOK /\ FrameInv /\ \A u, v \in Served : u = v
      /\ Served \in SUBSET Threads /\ None \notin Threads
  BY SingleTypes
<1>3. /\ InQueue' \in SUBSET Threads /\ request' \in [Waiters -> Requests]
      /\ Owned(queue', InQueue', myWaiter')
  BY <1>1, <1>2 DEF SingleSafe, Seat, Owned, InQueue
<1>4. /\ t \notin InQueue /\ InQueue' = InQueue \cup {t} /\ myWaiter'[t] = w
      /\ \A u \in InQueue : myWaiter'[u] = myWaiter[u]
      /\ holds[t] = None
  BY <1>0, <1>1, <1>2 DEF InQueue, ThreadTypeOK, FrameInv
<1>5. HandingOver = FALSE /\ HandingOver' = FALSE
  BY <1>0 DEF HandingOver, LockFree
<1>6. PICK u \in Served : TRUE
  <2>1. availablePrimary = None
    BY <1>0, <1>1, GrantsTheOne
  <2> QED
    BY <1>0, <2>1, WhenOpen
<1>7. u # t /\ u \in Served' /\ u \in Threads
  BY <1>0, <1>2, <1>4 DEF Served
<1>8. Lessee = u /\ Lessee' = u
  <2>1. LesseeIn(FALSE, queue, InQueue, myWaiter, Served) = u
    BY <1>2, <1>6, LesseeIs, ZenonT(40)
  <2>2. LesseeIn(FALSE, queue', InQueue', myWaiter', Served') = u
    BY <1>0, <1>7, LesseeIs
  <2> QED
    BY <1>5, <2>1, <2>2, Views
<1> DEFINE L == LineIn(queue, InQueue, myWaiter, request)
<1>9. /\ L \in Seq(Entries) /\ Len(L) = Len(queue) /\ DOMAIN L = 1..Len(queue)
      /\ \A j \in 1..Len(queue) :
            /\ L[j] = EntryOf(queue[j], InQueue, myWaiter, request)
            /\ queue[j] \in Waiters /\ OwnerIn(queue[j], InQueue, myWaiter) \in InQueue
            /\ myWaiter[OwnerIn(queue[j], InQueue, myWaiter)] = queue[j]
  BY <1>2, LineElements
<1>10. Line = L /\ Line' = LineIn(InsertAt(queue, i, w), InQueue', myWaiter', request')
  BY <1>1, <1>5, Views
<1>11. LineIn(queue, InQueue', myWaiter', request') = L
  <2>1. \A v, x \in InQueue' : myWaiter'[v] = myWaiter'[x] => v = x
    BY <1>3 DEF Owned
  <2>2. ASSUME NEW j \in 1..Len(queue)
        PROVE  /\ \E v \in InQueue \cap InQueue' : myWaiter[v] = queue[j] /\ myWaiter'[v] = queue[j]
               /\ request'[queue[j]].priority = request[queue[j]].priority
    <3>1. PICK v \in InQueue : myWaiter[v] = queue[j]
      BY <1>2 DEF Owned
    <3>2. v \in InQueue' /\ myWaiter'[v] = queue[j]
      BY <1>4, <3>1
    <3>3. queue[j] # w
      BY <1>4, <2>1, <3>1, <3>2
    <3>4. request'[queue[j]] = request[queue[j]]
      BY <1>1, <1>2, <1>9, <3>3
    <3> QED
      BY <3>1, <3>2, <3>4
  <2>3. Owned(queue, InQueue', myWaiter')
    BY <2>1, <2>2 DEF Owned
  <2> QED
    BY <1>2, <2>2, <2>3, LineSame
<1>12. LineIn(InsertAt(queue, i, w), InQueue', myWaiter', request') =
           OneConnection!InsertAt(L, i, [thread |-> t, priority |-> r.priority])
  <2>1. request'[w] = r
    BY <1>1, <1>2
  <2>2. Owned(queue, InQueue', myWaiter')
    <3>1. \A j \in 1..Len(queue) : \E v \in InQueue' : myWaiter'[v] = queue[j]
      BY <1>2, <1>4 DEF Owned
    <3> QED
      BY <1>3, <3>1 DEF Owned
  <2>3. Owned(InsertAt(queue, i, w), InQueue', myWaiter')
    BY <1>1, <1>3
  <2>4. t \in InQueue'
    BY <1>4
  <2>5. LineIn(InsertAt(queue, i, w), InQueue', myWaiter', request') =
            OneConnection!InsertAt(LineIn(queue, InQueue', myWaiter', request'), i,
                                   [thread |-> t, priority |-> request'[w].priority])
    BY <1>2, <1>3, <1>4, <2>2, <2>3, <2>4, LineWith
  <2> QED
    BY <1>11, <2>1, <2>5
<1>13. /\ \A j \in 1..(i - 1) : L[j].priority >= r.priority
       /\ \A j \in i..Len(L) : L[j].priority < r.priority
  <2>1. SortedBy(queue, request)
    BY <1>0 DEF SInv, OInv, WInv, Waits, WaiterInv
  <2>2. \A j \in 1..Len(queue) : L[j].priority = request[queue[j]].priority
    BY <1>9 DEF EntryOf
  <2>3. r.priority \in {0, 1} /\ \A j \in 1..Len(queue) : request[queue[j]].priority \in {0, 1}
    BY <1>2, <1>9, PoolAssumption
  <2>4. /\ i <= Len(queue) => r.priority > request[queue[i]].priority
        /\ \A j \in 1..(i - 1) : r.priority <= request[queue[j]].priority
    BY <1>1 DEF BehindAt
  <2>5. ASSUME NEW j \in 1..(i - 1) PROVE L[j].priority >= r.priority
    <3>1. j \in 1..Len(queue)
      BY <1>2
    <3> QED
      BY <2>2, <2>3, <2>4, <3>1
  <2>6. ASSUME NEW j \in i..Len(L) PROVE L[j].priority < r.priority
    <3>1. j \in 1..Len(queue) /\ i \in 1..Len(queue) /\ i <= Len(queue) /\ (i = j \/ i < j)
      BY <1>2, <1>9
    <3>2. request[queue[j]].priority <= request[queue[i]].priority
      <4>1. CASE i = j
        BY <2>3, <3>1, <4>1
      <4>2. CASE i < j
        BY <2>1, <3>1, <4>2 DEF SortedBy
      <4> QED
        BY <3>1, <4>1, <4>2
    <3> QED
      BY <2>2, <2>3, <2>4, <3>1, <3>2
  <2> QED
    BY <2>5, <2>6
<1>14. ~OneConnection!Waits(t)
  <2>1. \A j \in 1..Len(queue) : L[j].thread # t
    BY <1>4, <1>9 DEF EntryOf
  <2> QED
    BY <1>9, <1>10, <2>1 DEF OneConnection!Waits
<1>15. i \in 1..(Len(L) + 1) /\ r.priority \in {0, 1}
  BY <1>9, PoolAssumption
<1>16. Line' = OneConnection!InsertAt(Line, i, [thread |-> t, priority |-> r.priority])
  BY <1>10, <1>12
<1> HIDE DEF L
<1>17. OneConnection!Join(t, r.priority)
  BY <1>0, <1>2, <1>7, <1>8, <1>10, <1>13, <1>14, <1>15, <1>16 DEF OneConnection!Join
<1> QED
  BY <1>15, <1>17

(* Out of the wait: with the connection, which it had already, or because  *)
(* the pool has been closed, and then it leaves behind what it had.        *)
LEMMA RecheckReturns ==
    ASSUME Alone, SingleSafe, SingleSafe', NEW t \in Threads, Recheck(t)
    PROVE  UNCHANGED OneConnection!vars \/ OneConnection!Return(t)
<1>0. /\ LockFree /\ pc[t] = "parked" /\ pc' = [pc EXCEPT ![t] = "returning"]
      /\ UNCHANGED <<isOpen, scan, availablePrimary, queue, myWaiter>>
  BY DEF Recheck, poolVars
<1>1. /\ queue \in Seq(Waiters) /\ Len(queue) \in Nat /\ InQueue \in SUBSET Threads
      /\ request \in [Waiters -> Requests] /\ Owned(queue, InQueue, myWaiter)
      /\ ThreadTypeOK /\ FrameInv /\ ClosedInv /\ \A u, v \in Served : u = v
      /\ assigned \in [Waiters -> Connections \cup {None}]
      /\ \A u \in InQueue : myWaiter[u] \in Waiters
  BY SingleTypes
<1>2. t \in InQueue /\ InQueue' = InQueue \ {t} /\ holds[t] = None
  BY <1>0, <1>1 DEF InQueue, ThreadTypeOK, FrameInv, Active
<1>3. HandingOver = FALSE /\ HandingOver' = FALSE
  BY <1>0 DEF HandingOver, LockFree
<1>4. \A u \in InQueue : myWaiter[u] = myWaiter[t] => u = t
  BY <1>1, <1>2 DEF Owned
<1>5. CASE isOpen
  <2>1. /\ holds' = [holds EXCEPT ![t] = assigned[myWaiter[t]]]
        /\ assigned' = [assigned EXCEPT ![myWaiter[t]] = None]
        /\ request' = [request EXCEPT ![myWaiter[t]] = NoRequest]
        /\ WaiterIsDone(myWaiter[t])
    BY <1>5 DEF Recheck, WaiterIsDone
  <2>2. /\ holds'[t] = assigned[myWaiter[t]]
        /\ \A u \in Threads : u # t => holds'[u] = holds[u]
        /\ \A u \in InQueue : u # t => assigned'[myWaiter[u]] = assigned[myWaiter[u]]
    BY <1>1, <1>2, <1>4, <2>1 DEF ThreadTypeOK
  <2>3. Served' = Served
    <3>1. \A u \in Threads : u \in Served' <=> u \in Served
      BY <1>0, <1>2, <2>2 DEF Served
    <3> QED
      BY <3>1 DEF Served
  <2>4. \A j \in 1..Len(queue) : queue[j] # myWaiter[t] /\ queue[j] \in Waiters
    <3>1. WaitersOK(Range(queue), Range(waiterPool), DoneWaiters, ActiveThreads, myWaiter)
      BY <1>5 DEF SingleSafe, SInv, OInv, WInv, Waits, WaiterInv
    <3>2. myWaiter[t] \in DoneWaiters
      BY <1>1, <1>2, <2>1 DEF DoneWaiters
    <3>3. Range(queue) = {queue[j] : j \in 1..Len(queue)}
      BY <1>1, RangeIsIndexed
    <3> QED
      BY <1>1, <3>1, <3>2, <3>3, ElementOfSeq DEF WaitersOK
  <2>5. ASSUME NEW j \in 1..Len(queue)
        PROVE  /\ \E v \in InQueue \cap InQueue' : myWaiter[v] = queue[j] /\ myWaiter'[v] = queue[j]
               /\ request'[queue[j]].priority = request[queue[j]].priority
    <3>1. PICK v \in InQueue : myWaiter[v] = queue[j]
      BY <1>1 DEF Owned
    <3>2. v # t
      BY <2>4, <3>1
    <3>3. request'[queue[j]] = request[queue[j]]
      BY <1>1, <2>1, <2>4
    <3> QED
      BY <1>0, <1>2, <3>1, <3>2, <3>3
  <2>6. Owned(queue, InQueue', myWaiter')
    <3>1. \A j \in 1..Len(queue) : \E v \in InQueue' : myWaiter'[v] = queue[j]
      BY <2>5
    <3> QED
      BY <1>0, <1>1, <1>2, <3>1 DEF Owned
  <2>7. LineIn(queue, InQueue, myWaiter, request) = LineIn(queue, InQueue', myWaiter', request')
    BY <1>1, <2>5, <2>6, LineSame
  <2>8. Line' = Line
    BY <1>0, <1>3, <2>7, Views
  <2>9. Lessee' = Lessee
    <3>1. LesseeIn(FALSE, queue', InQueue', myWaiter', Served') = LesseeIn(FALSE, queue, InQueue, myWaiter, Served)
      BY <2>3 DEF LesseeIn
    <3> QED
      BY <1>3, <3>1, Views
  <2> QED
    BY <1>0, <2>8, <2>9 DEF OneConnection!vars
<1>6. CASE ~isOpen
  <2>1. queue = <<>> /\ UNCHANGED <<request, assigned, holds>>
    BY <1>0, <1>1, <1>6 DEF Recheck, ClosedInv, fieldVars
  <2>2. Line = <<>> /\ Line' = <<>>
    <3>1. Line = LineIn(queue, InQueue, myWaiter, request) /\ Line' = LineIn(queue', InQueue', myWaiter', request')
      BY <1>3, Views
    <3> QED
      BY <1>0, <2>1, <3>1 DEF LineIn
  <2>3. \A u \in Threads : u # t => (u \in Served' <=> u \in Served)
    BY <1>0, <1>2, <2>1 DEF Served
  <2>4. t \notin Served'
    BY <1>2, <2>1 DEF Served
  <2>5. CASE t \in Served
    <3>1. Served' = {}
      BY <1>1, <2>3, <2>4, <2>5 DEF Served
    <3>2. LesseeIn(FALSE, queue, InQueue, myWaiter, Served) = t
      BY <1>1, <2>5, LesseeIs
    <3>3. LesseeIn(FALSE, queue', InQueue', myWaiter', Served') = None
      BY <3>1 DEF LesseeIn
    <3>4. Lessee = t /\ Lessee' = None
      BY <1>3, <3>2, <3>3, Views
    <3> QED
      BY <1>0, <1>6, <2>2, <3>4 DEF OneConnection!Return
  <2>6. CASE t \notin Served
    <3>1. Served' = Served
      BY <2>3, <2>4, <2>6 DEF Served
    <3>2. LesseeIn(FALSE, queue', InQueue', myWaiter', Served') = LesseeIn(FALSE, queue, InQueue, myWaiter, Served)
      BY <3>1 DEF LesseeIn
    <3> QED
      BY <1>0, <1>3, <2>2, <3>2, Views DEF OneConnection!vars
  <2> QED
    BY <2>5, <2>6
<1> QED
  BY <1>5, <1>6

(* The connection comes back and goes to the first in the line.            *)
LEMMA ReleaseReturns ==
    ASSUME Alone, SingleSafe, SingleSafe', NEW t \in Threads, Release(t)
    PROVE  OneConnection!Return(t)
<1>0. /\ LockFree /\ pc[t] = "holding" /\ pc' = [pc EXCEPT ![t] = "idle"]
      /\ holds' = [holds EXCEPT ![t] = None]
      /\ UNCHANGED <<isOpen, queue, request, assigned, myWaiter>>
      /\ Leaky = {} /\ SInv /\ SingleInv
  BY DEF Release, fieldVars, Alone, SingleSafe
<1>1. /\ queue \in Seq(Waiters) /\ Len(queue) \in Nat /\ InQueue \in SUBSET Threads
      /\ request \in [Waiters -> Requests] /\ Owned(queue, InQueue, myWaiter)
      /\ ThreadTypeOK /\ ClosedInv /\ \A u, v \in Served : u = v
      /\ None \notin Connections
  BY SingleTypes
<1>2. InQueue' = InQueue /\ t \notin InQueue /\ t \in Served /\ holds[t] \in Connections
  BY <1>0, <1>1 DEF InQueue, ThreadTypeOK, Served
<1>3. Served' = {}
  <2>1. \A u \in Threads : u # t => (u \in Served' => u \in Served)
    BY <1>0, <1>2 DEF Served
  <2>2. t \notin Served'
    BY <1>0, <1>1, <1>2 DEF Served, ThreadTypeOK
  <2> QED
    BY <1>1, <1>2, <2>1, <2>2 DEF Served
<1>4. HandingOver = FALSE
  BY <1>0 DEF HandingOver
<1>5. Lessee = t
  <2>1. LesseeIn(FALSE, queue, InQueue, myWaiter, Served) = t
    BY <1>1, <1>2, LesseeIs
  <2> QED
    BY <1>4, <2>1, Views
<1> DEFINE L == LineIn(queue, InQueue, myWaiter, request)
<1>6. Line = L
  BY <1>4, Views
<1>7. LineIn(queue', InQueue', myWaiter', request') = L
  BY <1>0, <1>2
<1>8. L = <<>> <=> queue = <<>>
  BY <1>1, LineElements
<1>9. HandingOver' = FALSE => Lessee' = None /\ Line' = Line
  <2>1. LesseeIn(FALSE, queue', InQueue', myWaiter', Served') = None
    BY <1>3 DEF LesseeIn
  <2> QED
    BY <1>6, <1>7, <2>1, Views
<1>10. CASE ~isOpen
  <2>1. HandingOver' = FALSE
    BY <1>0, <1>10 DEF HandingOver
  <2> QED
    BY <1>0, <1>5, <1>9, <1>10, <2>1 DEF OneConnection!Return
<1>11. CASE isOpen
  <2>1. availablePrimary' = holds[t] /\ StartScan(queue)
    <3>1. holds[t] \in Acquired
      BY <1>0, <1>2, <1>11, PoolAssumption DEF SInv, OInv, Owners, Recorded
    <3>2. kind[holds[t]] = "primary" /\ status[holds[t]] = "NORMAL"
      BY <1>0, <1>2, <3>1 DEF SingleInv, Acquired, SInv, OInv, WInv, IInv, PoolInv, Bookkeeping
    <3> QED
      BY <1>11, <3>2 DEF Release
  <2>2. CASE queue = <<>>
    <3>1. HandingOver' = FALSE
      BY <2>1, <2>2 DEF StartScan, HandingOver, LockFree
    <3> QED
      BY <1>0, <1>5, <1>6, <1>8, <1>9, <2>2, <3>1 DEF OneConnection!Return
  <2>3. CASE queue # <<>>
    <3>1. HandingOver' = TRUE
      <4>1. scan'.at = 1 /\ NoScan.at = 0
        BY <2>1, <2>3 DEF StartScan, NoScan
      <4> QED
        BY <1>0, <1>1, <1>2, <1>11, <2>1, <4>1 DEF HandingOver, LockFree
    <3>2. 1 \in 1..Len(queue)
      BY <1>1, <2>3, EmptySeq
    <3>3. LineIn(Tail(queue), InQueue, myWaiter, request) = Tail(L)
      <4>1. queue \in Seq(Waiters) /\ InQueue \in SUBSET Threads
            /\ request \in [Waiters -> Requests] /\ Owned(queue, InQueue, myWaiter) /\ queue # <<>>
        BY <1>1, <2>3
      <4> QED
        BY <4>1, LineAfterHead
    <3>4. Line' = Tail(L)
      BY <1>0, <1>2, <3>1, <3>3, Views
    <3>5. Lessee' = Head(L).thread
      <4>1. LesseeIn(TRUE, queue', InQueue', myWaiter', Served') = OwnerIn(Head(queue), InQueue, myWaiter)
        BY <1>0, <1>2 DEF LesseeIn
      <4>2. L \in Seq(Entries) /\ L # <<>> /\ L[1] = EntryOf(queue[1], InQueue, myWaiter, request)
        BY <1>1, <1>8, <2>3, <3>2, LineElements
      <4>3. Head(queue) = queue[1] /\ Head(L) = L[1]
        <5> HIDE DEF L
        <5> QED
          BY <1>1, <2>3, <4>2
      <4>4. Head(L).thread = OwnerIn(Head(queue), InQueue, myWaiter)
        BY <4>2, <4>3 DEF EntryOf
      <4> QED
        BY <3>1, <4>1, <4>4, Views
    <3> QED
      BY <1>0, <1>5, <1>6, <1>8, <1>11, <2>3, <3>4, <3>5 DEF OneConnection!Return
  <2> QED
    BY <2>2, <2>3
<1> QED
  BY <1>10, <1>11

LEMMA CloseCloses ==
    ASSUME SingleSafe, Close
    PROVE  OneConnection!Close
<1>1. /\ isOpen' = FALSE /\ LockFree
      /\ UNCHANGED <<queue, request, assigned, pc, holds, myWaiter>>
  BY DEF Close, fieldVars, threadVars
<1>2. HandingOver = FALSE /\ HandingOver' = FALSE
  BY <1>1 DEF HandingOver
<1>3. InQueue' = InQueue /\ Served' = Served
  BY <1>1 DEF InQueue, Served
<1>4. Lessee' = Lessee /\ Line' = Line
  BY <1>1, <1>2, <1>3, Views DEF LesseeIn
<1> QED
  BY <1>1, <1>4 DEF OneConnection!Close

(* Who leaves the queue without the connection is no longer in the line.   *)
LEMMA LeavesLine ==
    ASSUME SingleSafe, NEW i \in 1..Len(queue), queue' = RemoveAt(queue, i), HandingOver = FALSE, HandingOver' = FALSE,
           InQueue' = InQueue, Served' = Served, UNCHANGED <<isOpen, myWaiter, request>>
    PROVE  \E t \in Threads : OneConnection!GiveUp(t)
<1>1. /\ queue \in Seq(Waiters) /\ InQueue \in SUBSET Threads
      /\ request \in [Waiters -> Requests] /\ Owned(queue, InQueue, myWaiter)
  BY SingleTypes
<1> DEFINE L == LineIn(queue, InQueue, myWaiter, request)
           t == OwnerIn(queue[i], InQueue, myWaiter)
<1>2. LineIn(RemoveAt(queue, i), InQueue, myWaiter, request) = OneConnection!RemoveAt(L, i)
  BY <1>1, LineWithout
<1>3. Line = L /\ Line' = OneConnection!RemoveAt(L, i)
  BY <1>2, Views
<1>4. i \in DOMAIN L /\ L[i].thread = t /\ t \in Threads
  <2>1. /\ DOMAIN L = 1..Len(queue)
        /\ \A j \in 1..Len(queue) : L[j] = EntryOf(queue[j], InQueue, myWaiter, request)
    BY <1>1, LineElements
  <2>2. t \in InQueue
    BY <1>1, OwnerOf
  <2> QED
    BY <1>1, <2>1, <2>2 DEF EntryOf
<1>5. Lessee' = Lessee
  BY Views DEF LesseeIn
<1> HIDE DEF L, t
<1>6. OneConnection!GiveUp(t)
  BY <1>3, <1>4, <1>5 DEF OneConnection!GiveUp
<1> QED
  BY <1>4, <1>6

LEMMA OnCancelGivesUp ==
    ASSUME Alone, SingleSafe, NEW t \in Threads, OnCancel(t)
    PROVE  UNCHANGED OneConnection!vars \/ \E u \in Threads : OneConnection!GiveUp(u)
<1>1. /\ LockFree /\ UNCHANGED <<isOpen, availablePrimary, request, assigned, pc, holds, myWaiter>>
      /\ SInv /\ SingleInv /\ Leaky = {}
  BY DEF OnCancel, poolVars, fieldVars, SingleSafe, Alone
<1>2. InQueue' = InQueue /\ Served' = Served
  BY <1>1 DEF InQueue, Served
<1>3. CASE UNCHANGED <<queue, scan>>
  <2>1. HandingOver' <=> HandingOver
    BY <1>1, <1>3 DEF HandingOver, LockFree
  <2> QED
    BY <1>1, <1>2, <1>3, <2>1, ViewFrame
<1>4. ASSUME NEW i \in DOMAIN queue, queue' = RemoveAt(queue, i)
      PROVE  \E u \in Threads : OneConnection!GiveUp(u)
  <2>1. i \in 1..Len(queue)
    BY SingleTypes, LenProperties
  <2>2. queue # <<>>
    BY <1>4
  <2>3. HandingOver = FALSE /\ HandingOver' = FALSE
    BY <1>1, <2>2, AvailableMeans DEF HandingOver
  <2> QED
    BY <1>1, <1>2, <1>4, <2>1, <2>3, LeavesLine
<1> QED
  BY <1>3, <1>4 DEF OnCancel

(* A step of wakeConnectionWaitersLocked: the head is given what it had    *)
(* been left, or goes because the pool has been closed.                    *)
LEMMA WakeStepLends ==
    ASSUME Alone, SingleSafe, SingleSafe', WakeStep
    PROVE  UNCHANGED OneConnection!vars \/ \E t \in Threads : OneConnection!GiveUp(t)
<1> DEFINE w == queue[scan.at]
           np == ~request[w].wantPrimary /\ ~scan.noNonPrimary
           p == ~scan.noPrimary
<1>0. /\ ~LockFree /\ UNCHANGED <<isOpen, request, pc, holds, myWaiter>>
      /\ SInv /\ SingleInv /\ Leaky = {}
      /\ \A u, v \in Served' : u = v
  BY DEF WakeStep, poolVars, threadVars, fieldVars, SingleSafe, Alone, Seat
<1>1. /\ queue \in Seq(Waiters) /\ Len(queue) \in Nat /\ InQueue \in SUBSET Threads
      /\ request \in [Waiters -> Requests] /\ Owned(queue, InQueue, myWaiter)
      /\ ClosedInv /\ \A u, v \in Served : u = v
      /\ assigned \in [Waiters -> Connections \cup {None}]
      /\ None \notin Connections
  BY SingleTypes
<1>2. scan.at \in 1..Len(queue) /\ p \in BOOLEAN /\ w \in Waiters
  <2>1. scan.at \in 1..Len(queue) /\ scan.noPrimary \in BOOLEAN
    BY <1>0 DEF SInv, OInv, WInv, IInv, WaiterTypeOK, LockFree
  <2> QED
    BY <1>1, <2>1, ElementOfSeq
<1>3. InQueue' = InQueue
  BY <1>0 DEF InQueue
<1>4. CASE ~isOpen
  <2>1. scan.at = 1 /\ queue' = RemoveAt(queue, 1) /\ UNCHANGED assigned /\ 1 \in 1..Len(queue)
    BY <1>0, <1>1, <1>2, <1>4 DEF WakeStep, ClosedInv
  <2>2. Served' = Served /\ HandingOver = FALSE /\ HandingOver' = FALSE
    BY <1>0, <1>3, <1>4, <2>1 DEF Served, HandingOver
  <2> QED
    BY <1>0, <1>3, <2>1, <2>2, LeavesLine
<1>5. ASSUME isOpen, NEW c \in Connections, TryTake(c, np, p), assigned' = [assigned EXCEPT ![w] = c],
             queue' = RemoveAt(queue, scan.at)
      PROVE  UNCHANGED OneConnection!vars
  <2>1. availablePrimary # None /\ availablePrimary' = None
    BY <1>0, <1>5, TakesTheOne
  <2>2. scan.at = 1 /\ queue # <<>> /\ Served = {}
    BY <1>0, <1>5, <2>1, AvailableMeans, WhenOpen
  <2>3. queue' = Tail(queue)
    BY <1>1, <1>5, <2>2, RemoveAtHead
  <2>4. HandingOver = TRUE /\ HandingOver' = FALSE
    BY <1>0, <1>5, <2>1 DEF HandingOver
  <2>5. Line' = Line
    BY <1>0, <1>3, <2>3, <2>4, Views
  <2> DEFINE t == OwnerIn(w, InQueue, myWaiter)
  <2>6. t \in InQueue /\ myWaiter[t] = w
    BY <1>1, <1>2, OwnerOf
  <2>7. t \in Served'
    BY <1>0, <1>1, <1>2, <1>3, <1>5, <2>6 DEF Served
  <2>8. Head(queue) = w
    BY <1>1, <2>2
  <2>9. Lessee = t
    BY <2>4, <2>8, Views DEF LesseeIn
  <2> HIDE DEF t
  <2>10. LesseeIn(FALSE, queue', InQueue', myWaiter', Served') = t
    BY <1>0, <2>7, LesseeIs
  <2>11. Lessee' = t
    BY <2>4, <2>10, Views
  <2> QED
    BY <1>0, <2>5, <2>9, <2>11 DEF OneConnection!vars
<1>6. ASSUME isOpen, ~Grantable(np, p), UNCHANGED <<poolVars, queue, assigned>>
      PROVE  UNCHANGED OneConnection!vars
  <2>1. availablePrimary = None
    <3>1. ~(p /\ availablePrimary # None)
      BY <1>0, <1>2, <1>6, GrantsTheOne
    <3> QED
      BY <1>0, <1>6, <3>1, AvailableMeans
  <2>2. HandingOver' <=> HandingOver
    BY <1>6, <2>1 DEF HandingOver, poolVars
  <2>3. Served' = Served
    BY <1>0, <1>3, <1>6 DEF Served
  <2> QED
    BY <1>0, <1>3, <1>6, <2>2, <2>3, ViewFrame
<1>7. ASSUME isOpen, Grantable(np, p),
             IF np /\ CanTakeNonPrimary THEN availableNonPrimary = {} ELSE availablePrimary = None
      PROVE  FALSE
  <2>1. availablePrimary # None /\ ~CanTakeNonPrimary
    BY <1>0, <1>2, <1>7, GrantsTheOne, WhenOpen
  <2> QED
    BY <1>7, <2>1
<1> HIDE DEF np, p, w
<1>8. CASE isOpen
  <2>1. \/ /\ \E c \in Connections : TryTake(c, np, p) /\ assigned' = [assigned EXCEPT ![w] = c]
           /\ queue' = RemoveAt(queue, scan.at)
        \/ /\ Grantable(np, p)
           /\ IF np /\ CanTakeNonPrimary THEN availableNonPrimary = {} ELSE availablePrimary = None
        \/ ~Grantable(np, p) /\ UNCHANGED <<poolVars, queue, assigned>>
    BY <1>8 DEF WakeStep, np, p, w
  <2> QED
    BY <1>5, <1>6, <1>7, <1>8, <2>1
<1> QED
  BY <1>4, <1>8

LEMMA StepLends ==
    ASSUME Alone, SingleSafe, SingleSafe', [Next]_vars
    PROVE  [OneConnection!Next]_(OneConnection!vars)
<1>1. ASSUME NEW t \in Threads, ThreadStep(t) PROVE [OneConnection!Next]_(OneConnection!vars)
  <2>1. CASE AcquireNow(t)
    BY <2>1, AcquireNowTakes DEF OneConnection!Next
  <2>2. CASE Enqueue(t)
    BY <2>2, EnqueueJoins DEF OneConnection!Next
  <2>3. CASE Recheck(t)
    BY <2>3, RecheckReturns DEF OneConnection!Next
  <2>4. CASE Release(t)
    BY <2>4, ReleaseReturns DEF OneConnection!Next
  <2>5. CASE OnCancel(t)
    BY <2>5, OnCancelGivesUp DEF OneConnection!Next
  <2>6. CASE \/ RegisterListener(t) \/ DetectLeak(t) \/ RecoverLeak(t)
             \/ RemoveListener(t) \/ Cancel(t) \/ Abandon(t)
    BY <2>6, QuietStep
  <2> QED
    BY <1>1, <2>1, <2>2, <2>3, <2>4, <2>5, <2>6 DEF ThreadStep
<1>2. CASE WakeStep
  BY <1>2, WakeStepLends DEF OneConnection!Next
<1>3. CASE Close
  BY <1>3, CloseCloses DEF OneConnection!Next
<1>4. ~ReconfigureInPlace /\ ~ReconfigureOpenFlags /\ ~ReconfigureWAL
  BY DEF Alone, ReconfigureInPlace, ReconfigureOpenFlags, ReconfigureWAL
<1>5. ASSUME NEW c \in Connections, ClearWeakReference(c) \/ FinalizeConnection(c)
      PROVE  [OneConnection!Next]_(OneConnection!vars)
  BY <1>5, CollectorIsQuiet
<1>6. CASE UNCHANGED vars
  <2>1. InQueue' = InQueue /\ Served' = Served
    BY <1>6 DEF vars, threadVars, InQueue, Served
  <2>2. UNCHANGED OneConnection!vars
    BY <1>6, <2>1, ViewFrame DEF vars, threadVars, poolVars, fieldVars, HandingOver, LockFree
  <2> QED
    BY <2>2
<1> QED
  BY <1>1, <1>2, <1>3, <1>4, <1>5, <1>6 DEF Next

LEMMA InitLends == Init => OneConnection!Init
<1> SUFFICES ASSUME Init PROVE OneConnection!Init
  OBVIOUS
<1>1. HandingOver = FALSE /\ Served = {} /\ queue = <<>>
  BY DEF Init, HandingOver, LockFree, Served, InQueue
<1>2. Lessee = None /\ Line = <<>>
  BY <1>1, Views DEF LesseeIn, LineIn
<1> QED
  BY <1>2 DEF Init, OneConnection!Init

(* Such a pool implements Lending: a connection that comes back belongs to  *)
(* the head of the queue although the head still has to be woken, so that   *)
(* no newcomer comes in between; the queue is in the order of priority and  *)
(* arrival, whatever waiter objects are used again; and once the pool is    *)
(* closed nobody is lent the connection again (waitForConnection,           *)
(* releaseConnection, wakeConnectionWaitersLocked and                       *)
(* cancelConnectionWaiterLocked of SQLiteConnectionPool.java).              *)
THEOREM PoolLendsInTurn == ASSUME Alone PROVE Spec => LentInTurn
<1>1. SingleSafe /\ SingleSafe' /\ [Next]_vars => [OneConnection!Next]_(OneConnection!vars)
  BY StepLends
<1> QED
  BY <1>1, InitLends, AloneIsSafe, PTL DEF Spec, LentInTurn, OneConnection!Spec

=============================================================================

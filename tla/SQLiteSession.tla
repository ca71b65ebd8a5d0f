---------------------------- MODULE SQLiteSession ----------------------------
(***************************************************************************)
(* One SQLiteDatabase, the sessions of the threads that use it, and its    *)
(* one connection (a database opened without write-ahead logging has no    *)
(* more; ConnectionPool models the pool itself).  A session counts the     *)
(* uses of the connection and keeps a stack of transactions, of which the  *)
(* outermost is a transaction of SQLite; the database counts references,   *)
(* one for itself and one for every call, and closes its pool with the     *)
(* last.  Every close() gives up a reference, the first and any other.     *)
(*                                                                         *)
(* A thread that holds the connection is alone with it, so a call is cut   *)
(* into steps only where it waits, calls a listener or uses the reference  *)
(* count.  A call that throws before it changes anything is no step.  A    *)
(* raw BEGIN, COMMIT or ROLLBACK is what executeSpecial makes of it: the   *)
(* calls below, one after the other, without a listener.  Listeners do not *)
(* call close().                                                           *)
(***************************************************************************)
EXTENDS Integers, Sequences, FiniteSets

CONSTANTS
    Threads,        \* the threads that use the database
    None,           \* no thread
    MaxDepth,       \* bound on the depth of nesting
    MaxBegins,      \* bound on the transactions begun
    MaxWrites,      \* bound on the writes
    MaxCloses,      \* bound on the calls of close()
    Faults          \* what SQLite may do besides failing without an effect

ASSUME SessionAssumption ==
    /\ IsFiniteSet(Threads) /\ None \notin Threads
    /\ MaxDepth \in Nat /\ MaxBegins \in Nat /\ MaxWrites \in Nat /\ MaxCloses \in Nat
    /\ Faults \subseteq {"endRefused", "autoRollback"}

VARIABLES
    references,     \* mReferenceCount of the database
    closes,         \* calls of close() so far
    poolOpen,       \* mConnectionPoolLocked is not null
    holder,         \* the thread the pool has lent the connection to
    waiters,        \* threads queued in the pool
    inTransaction,  \* SQLite has a transaction open on the connection
    pending,        \* writes of that transaction
    committed,      \* writes that are in the database file
    useCount,       \* mConnectionUseCount of each session
    stack,          \* mTransactionStack of each session, the innermost first
    pc,             \* where each thread is
    call,           \* the call it has made
    begins,         \* transactions begun so far
    writes,         \* writes so far
    work,           \* writes in SQLite's transaction of each thread
    spoiled,        \* threads of whose transaction a part was unsuccessful
    promised,       \* writes reported as committed
    denied          \* writes whose transaction was to be rolled back

databaseVars == <<references, closes, poolOpen>>
connectionVars == <<holder, waiters>>
nativeVars == <<inTransaction, pending, committed>>
ghostVars == <<work, spoiled, promised, denied>>
vars == <<databaseVars, connectionVars, nativeVars, useCount, stack, pc, call, begins, writes,
          ghostVars>>

Transaction == [listener : BOOLEAN, marked : BOOLEAN, childFailed : BOOLEAN]
Call == [kind : {"begin", "end", "yield", "write"}, listener : BOOLEAN]

Init ==
    /\ references = 1 /\ closes = 0 /\ poolOpen = TRUE
    /\ holder = None /\ waiters = <<>>
    /\ inTransaction = FALSE /\ pending = {} /\ committed = {}
    /\ useCount = [t \in Threads |-> 0]
    /\ stack = [t \in Threads |-> <<>>]
    /\ pc = [t \in Threads |-> "idle"]
    /\ call = [t \in Threads |-> [kind |-> "begin", listener |-> FALSE]]
    /\ begins = 0 /\ writes = 0
    /\ work = [t \in Threads |-> {}] /\ spoiled = {}
    /\ promised = {} /\ denied = {}

-----------------------------------------------------------------------------
(* The connection: acquireConnection() and releaseConnection().            *)

hasTransaction(t) == stack[t] # <<>>

AcquireConnection_NotReused(t) ==
    /\ IF holder = None /\ waiters = <<>>
       THEN holder' = t /\ pc' = [pc EXCEPT ![t] = "run"] /\ UNCHANGED waiters
       ELSE waiters' = Append(waiters, t) /\ pc' = [pc EXCEPT ![t] = "wait"] /\ UNCHANGED holder
    /\ useCount' = [useCount EXCEPT ![t] = @ + 1]

(* A pool that is closed throws; only a yield can meet one here, since a    *)
(* call that finds no reference left does not come so far.                  *)
AcquireConnection(t) ==
    IF useCount[t] > 0 \/ poolOpen
    THEN /\ IF useCount[t] > 0
            THEN pc' = [pc EXCEPT ![t] = "run"] /\ UNCHANGED connectionVars
            ELSE IF holder = None /\ waiters = <<>>
            THEN holder' = t /\ pc' = [pc EXCEPT ![t] = "run"] /\ UNCHANGED waiters
            ELSE waiters' = Append(waiters, t) /\ pc' = [pc EXCEPT ![t] = "wait"] /\ UNCHANGED holder
         /\ useCount' = [useCount EXCEPT ![t] = @ + 1]
    ELSE pc' = [pc EXCEPT ![t] = "leave"] /\ UNCHANGED <<connectionVars, useCount>>

(* Whoever waits looks from time to time whether the pool is still open,    *)
(* and throws if it is not; it stays in the queue, which nobody looks at    *)
(* any more.  A thread that had been handed the connection before throws as *)
(* well: Write and BeginFails have that outcome, the connection given back. *)
WaitFails(t) ==
    /\ pc[t] = "wait" /\ ~poolOpen
    /\ pc' = [pc EXCEPT ![t] = "leave"]
    /\ useCount' = [useCount EXCEPT ![t] = @ - 1]
    /\ UNCHANGED <<databaseVars, connectionVars, nativeVars, stack, call, begins, writes, ghostVars>>

ReleaseConnection_PostDecrement(t, next) ==
    /\ useCount' = [useCount EXCEPT ![t] = @ - 1]
    /\ pc' = [pc EXCEPT ![t] = next]
    /\ UNCHANGED connectionVars

(* The pool hands a connection that comes back to the first waiter.  Once   *)
(* the pool is closed it closes the connection instead, and SQLite rolls    *)
(* back what is open on it.                                                 *)
ReleaseConnection(t, next) ==
    /\ useCount' = [useCount EXCEPT ![t] = @ - 1]
    /\ IF useCount[t] > 1
       THEN pc' = [pc EXCEPT ![t] = next] /\ UNCHANGED connectionVars
       ELSE IF waiters = <<>> \/ ~poolOpen
       THEN holder' = None /\ pc' = [pc EXCEPT ![t] = next] /\ UNCHANGED waiters
       ELSE /\ holder' = Head(waiters) /\ waiters' = Tail(waiters)
            /\ pc' = [pc EXCEPT ![t] = next, ![Head(waiters)] = "run"]

-----------------------------------------------------------------------------
(* The references to the database: SQLiteClosable and dispose().           *)

Free(t) == pc[t] = "idle" /\ references > 0

AcquireReference_Dropped == UNCHANGED databaseVars

AcquireReference == references' = references + 1 /\ UNCHANGED <<closes, poolOpen>>

(* dispose() closes the pool, and the pool the connection unless it is lent. *)
ReleaseReference ==
    /\ references' = references - 1
    /\ poolOpen' = (poolOpen /\ references # 1)

(* close() is releaseReference(), however often and by whomever it is       *)
(* called: SQLiteOpenHelper.close() closes a database that its user has     *)
(* closed already while a call of another thread keeps it open.             *)
Close(t) ==
    /\ pc[t] = "idle" /\ closes < MaxCloses
    /\ closes' = closes + 1
    /\ ReleaseReference
    /\ UNCHANGED <<connectionVars, nativeVars, useCount, stack, pc, call, begins, writes, ghostVars>>

Leave(t) ==
    /\ pc[t] = "leave"
    /\ pc' = [pc EXCEPT ![t] = "idle"]
    /\ ReleaseReference
    /\ UNCHANGED <<closes, connectionVars, nativeVars, useCount, stack, call, begins, writes, ghostVars>>

-----------------------------------------------------------------------------
(* Statements.                                                             *)

(* A write belongs to SQLite's open transaction, or is one of its own. *)
Apply(t) ==
    /\ writes < MaxWrites
    /\ writes' = writes + 1
    /\ IF inTransaction
       THEN pending' = pending \cup {writes} /\ UNCHANGED committed
       ELSE committed' = committed \cup {writes} /\ UNCHANGED pending
    /\ UNCHANGED inTransaction

RecordWork(t) ==
    work' = IF inTransaction THEN [work EXCEPT ![t] = @ \cup {writes}] ELSE work

CallWrite(t) ==
    /\ Free(t) /\ writes < MaxWrites
    /\ AcquireReference
    /\ call' = [call EXCEPT ![t] = [kind |-> "write", listener |-> FALSE]]
    /\ AcquireConnection(t)
    /\ UNCHANGED <<nativeVars, stack, begins, writes, ghostVars>>

(* A write outside of an explicit transaction is promised when it returns.  *)
(* One that SQLite, having rolled the transaction back, made on its own is  *)
(* neither promised nor part of the transaction's work.                     *)
Write(t) ==
    /\ pc[t] = "run" /\ call[t].kind = "write"
    /\ \/ /\ Apply(t)
          /\ RecordWork(t)
          /\ promised' = IF hasTransaction(t) THEN promised ELSE promised \cup {writes}
       \/ UNCHANGED <<nativeVars, writes, work, promised>>
    /\ ReleaseConnection(t, "leave")
    /\ UNCHANGED <<databaseVars, stack, call, begins, spoiled, denied>>

(* SQLite rolls the whole transaction back when a statement fails badly     *)
(* (disk full, I/O error, ON CONFLICT ROLLBACK); the session is not told.   *)
WriteRollsBack(t) ==
    /\ pc[t] = "run" /\ call[t].kind = "write"
    /\ "autoRollback" \in Faults /\ inTransaction
    /\ inTransaction' = FALSE /\ pending' = {}
    /\ ReleaseConnection(t, "leave")
    /\ UNCHANGED <<databaseVars, committed, stack, call, begins, writes, ghostVars>>

(* A listener may write while it is called, on the connection its thread    *)
(* already holds.                                                           *)
ListenerWrites(t) ==
    /\ pc[t] \in {"onBegin", "onEnd"} /\ call[t].listener /\ references > 0
    /\ Apply(t)
    /\ RecordWork(t)
    /\ UNCHANGED <<databaseVars, connectionVars, useCount, stack, pc, call, begins, spoiled, promised,
                   denied>>

-----------------------------------------------------------------------------
(* beginTransaction().                                                     *)

markedSuccessful(t) == hasTransaction(t) /\ Head(stack[t]).marked

CallBegin(t, listener) ==
    /\ Free(t) /\ ~markedSuccessful(t)
    /\ Len(stack[t]) < MaxDepth /\ begins < MaxBegins
    /\ AcquireReference
    /\ begins' = begins + 1
    /\ call' = [call EXCEPT ![t] = [kind |-> "begin", listener |-> listener]]
    /\ IF hasTransaction(t)
       THEN pc' = [pc EXCEPT ![t] = "onBegin"] /\ UNCHANGED <<connectionVars, useCount>>
       ELSE AcquireConnection(t)
    /\ UNCHANGED <<nativeVars, stack, writes, ghostVars>>

BeginFails_NotReleased(t) ==
    /\ pc[t] = "run" /\ call[t].kind = "begin"
    /\ pc' = [pc EXCEPT ![t] = "leave"]
    /\ UNCHANGED <<databaseVars, connectionVars, nativeVars, useCount, stack, call, begins, writes,
                   ghostVars>>

BeginFails(t) ==
    /\ pc[t] = "run" /\ call[t].kind = "begin"
    /\ ReleaseConnection(t, "leave")
    /\ UNCHANGED <<databaseVars, nativeVars, stack, call, begins, writes, ghostVars>>

(* SQLite refuses a transaction within a transaction. *)
Begin(t) ==
    /\ pc[t] = "run" /\ call[t].kind = "begin" /\ ~inTransaction
    /\ inTransaction' = TRUE
    /\ pc' = [pc EXCEPT ![t] = "onBegin"]
    /\ work' = [work EXCEPT ![t] = {}]
    /\ spoiled' = spoiled \ {t}
    /\ UNCHANGED <<databaseVars, connectionVars, pending, committed, useCount, stack, call, begins,
                   writes, promised, denied>>

(* obtainTransaction() *)
Push(t) ==
    /\ pc[t] = "onBegin"
    /\ stack' = [stack EXCEPT ![t] =
           <<[listener |-> call[t].listener, marked |-> FALSE, childFailed |-> FALSE]>> \o @]
    /\ pc' = [pc EXCEPT ![t] = "leave"]
    /\ UNCHANGED <<databaseVars, connectionVars, nativeVars, useCount, call, begins, writes, ghostVars>>

Undo == inTransaction' = FALSE /\ pending' = {} /\ UNCHANGED committed

(* onBegin() throws: the outermost transaction is rolled back, and a nested *)
(* one never was.                                                           *)
OnBeginThrows_NoRollback(t) ==
    /\ pc[t] = "onBegin" /\ call[t].listener
    /\ IF hasTransaction(t)
       THEN pc' = [pc EXCEPT ![t] = "leave"] /\ UNCHANGED <<connectionVars, nativeVars, useCount, denied>>
       ELSE ReleaseConnection(t, "leave") /\ denied' = denied \cup work[t] /\ UNCHANGED nativeVars
    /\ UNCHANGED <<databaseVars, stack, call, begins, writes, work, spoiled, promised>>

OnBeginThrows(t) ==
    /\ pc[t] = "onBegin" /\ call[t].listener
    /\ IF hasTransaction(t)
       THEN pc' = [pc EXCEPT ![t] = "leave"] /\ UNCHANGED <<connectionVars, nativeVars, useCount, denied>>
       ELSE Undo /\ ReleaseConnection(t, "leave") /\ denied' = denied \cup work[t]
    /\ UNCHANGED <<databaseVars, stack, call, begins, writes, work, spoiled, promised>>

-----------------------------------------------------------------------------
(* setTransactionSuccessful(), endTransaction() and yieldTransaction().    *)

SetTransactionSuccessful(t) ==
    /\ Free(t) /\ hasTransaction(t) /\ ~markedSuccessful(t)
    /\ stack' = [stack EXCEPT ![t][1].marked = TRUE]
    /\ UNCHANGED <<databaseVars, connectionVars, nativeVars, useCount, pc, call, begins, writes, ghostVars>>

CallEnd(t) ==
    /\ Free(t) /\ hasTransaction(t)
    /\ AcquireReference
    /\ call' = [call EXCEPT ![t] = [kind |-> "end", listener |-> Head(stack[t]).listener]]
    /\ pc' = [pc EXCEPT ![t] = "onEnd"]
    /\ UNCHANGED <<connectionVars, nativeVars, useCount, stack, begins, writes, ghostVars>>

(* A transaction that is nested, marked or spoiled is not yielded. *)
CallYield_EvenSpoiled(t) ==
    /\ Free(t) /\ Len(stack[t]) = 1 /\ ~markedSuccessful(t)
    /\ waiters # <<>> /\ begins < MaxBegins
    /\ AcquireReference
    /\ call' = [call EXCEPT ![t] = [kind |-> "yield", listener |-> Head(stack[t]).listener]]
    /\ pc' = [pc EXCEPT ![t] = "onEnd"]
    /\ begins' = begins + 1
    /\ UNCHANGED <<connectionVars, nativeVars, useCount, stack, writes, ghostVars>>

CallYield(t) ==
    /\ Free(t) /\ Len(stack[t]) = 1 /\ ~markedSuccessful(t) /\ ~Head(stack[t]).childFailed
    /\ waiters # <<>> /\ begins < MaxBegins
    /\ AcquireReference
    /\ call' = [call EXCEPT ![t] = [kind |-> "yield", listener |-> Head(stack[t]).listener]]
    /\ pc' = [pc EXCEPT ![t] = "onEnd"]
    /\ begins' = begins + 1
    /\ UNCHANGED <<connectionVars, nativeVars, useCount, stack, writes, ghostVars>>

successful(t) ==
    /\ Head(stack[t]).marked \/ call[t].kind = "yield"
    /\ ~Head(stack[t]).childFailed

(* The end of a nested transaction: its failure is handed to its parent. *)
EndNested_FailureForgotten(t, succeeds) ==
    stack' = [stack EXCEPT ![t] = Tail(@)]

EndNested(t, succeeds) ==
    LET outer == Tail(stack[t])
    IN  stack' = [stack EXCEPT ![t] =
            IF succeeds THEN outer ELSE [outer EXCEPT ![1].childFailed = TRUE]]

Throws(t) == IF call[t].listener THEN BOOLEAN ELSE {FALSE}

(* A part that was not marked successful, or whose listener objected. *)
Spoils(t, threw) == threw \/ ~(Head(stack[t]).marked \/ call[t].kind = "yield")

OnEndNested(t) ==
    /\ pc[t] = "onEnd" /\ Len(stack[t]) > 1
    /\ \E threw \in Throws(t) :
        /\ EndNested(t, successful(t) /\ ~threw)
        /\ spoiled' = IF Spoils(t, threw) THEN spoiled \cup {t} ELSE spoiled
    /\ pc' = [pc EXCEPT ![t] = "leave"]
    /\ UNCHANGED <<databaseVars, connectionVars, nativeVars, useCount, call, begins, writes, work,
                   promised, denied>>

Commit ==
    /\ inTransaction
    /\ committed' = committed \cup pending
    /\ inTransaction' = FALSE /\ pending' = {}

(* ROLLBACK; rolls back, and so does a COMMIT; that fails, unless SQLite    *)
(* refuses it (a deferred constraint, a busy file, a cancelled call) and    *)
(* the transaction stays open.  Both fail when there is no transaction.     *)
NativeEnd(t, succeeds) ==
    \/ /\ succeeds /\ Commit
       /\ promised' = promised \cup work[t]
       /\ ReleaseConnection(t, IF call[t].kind = "yield" THEN "again" ELSE "leave")
    \/ /\ inTransaction /\ Undo
       /\ ReleaseConnection(t, "leave") /\ UNCHANGED promised
    \/ /\ ~inTransaction \/ "endRefused" \in Faults
       /\ ReleaseConnection(t, "leave") /\ UNCHANGED <<nativeVars, promised>>

OnEndOutermost(t) ==
    /\ pc[t] = "onEnd" /\ Len(stack[t]) = 1
    /\ stack' = [stack EXCEPT ![t] = <<>>]
    /\ \E threw \in Throws(t) :
        /\ NativeEnd(t, successful(t) /\ ~threw)
        /\ denied' = IF t \in spoiled \/ Spoils(t, threw) THEN denied \cup work[t] ELSE denied
    /\ UNCHANGED <<databaseVars, call, begins, writes, work, spoiled>>

(* The second half of yieldTransaction(). *)
BeginAgain(t) ==
    /\ pc[t] = "again"
    /\ call' = [call EXCEPT ![t].kind = "begin"]
    /\ AcquireConnection(t)
    /\ UNCHANGED <<databaseVars, nativeVars, stack, begins, writes, ghostVars>>

-----------------------------------------------------------------------------
Step(t) ==
    \/ Write(t) \/ WriteRollsBack(t)
    \/ Begin(t) \/ BeginFails(t) \/ Push(t) \/ OnBeginThrows(t)
    \/ OnEndNested(t) \/ OnEndOutermost(t) \/ BeginAgain(t)
    \/ WaitFails(t) \/ Leave(t)

Next ==
    \E t \in Threads :
        \/ Close(t)
        \/ CallWrite(t)
        \/ \E listener \in BOOLEAN : CallBegin(t, listener)
        \/ SetTransactionSuccessful(t) \/ CallEnd(t) \/ CallYield(t)
        \/ ListenerWrites(t)
        \/ Step(t)

Spec == Init /\ [][Next]_vars

(* Threads are scheduled, and whoever began a transaction does not go on    *)
(* forever without ending it, as beginTransaction() asks of its callers.    *)
FairSpec == Spec /\ \A t \in Threads : WF_vars(Step(t)) /\ SF_vars(CallEnd(t))

-----------------------------------------------------------------------------
(* Properties.                                                             *)

(* Every variable keeps the type of what it stands for; no session uses its *)
(* connection for more than its transaction and one call.                   *)
TypeOK ==
    /\ references \in Int /\ closes \in 0 .. MaxCloses /\ poolOpen \in BOOLEAN
    /\ holder \in Threads \cup {None} /\ waiters \in Seq(Threads)
    /\ inTransaction \in BOOLEAN
    /\ pending \subseteq 0 .. MaxWrites /\ committed \subseteq 0 .. MaxWrites
    /\ useCount \in [Threads -> 0 .. 2]
    /\ stack \in [Threads -> Seq(Transaction)]
    /\ pc \in [Threads -> {"idle", "wait", "run", "onBegin", "onEnd", "again", "leave"}]
    /\ call \in [Threads -> Call]
    /\ begins \in 0 .. MaxBegins /\ writes \in 0 .. MaxWrites
    /\ work \in [Threads -> SUBSET (0 .. MaxWrites)]
    /\ spoiled \subseteq Threads
    /\ promised \subseteq 0 .. MaxWrites /\ denied \subseteq 0 .. MaxWrites

(* Between calls a session holds the connection if and only if it has a    *)
(* transaction, however its calls end: the use count never leaks and never  *)
(* drops early.                                                             *)
HeldForTransaction ==
    \A t \in Threads : pc[t] \in {"idle", "leave"} =>
        /\ (holder = t) = hasTransaction(t)
        /\ useCount[t] = IF hasTransaction(t) THEN 1 ELSE 0

(* Whoever waits, waits for another thread, which is in the middle of a     *)
(* call or has a transaction that it can still end, even if close() has     *)
(* been called meanwhile: nobody waits for itself, and no two threads wait  *)
(* for each other.  Who waits for a pool that is closed stops by itself.    *)
CanGoOn(t) ==
    pc[t] \in {"run", "onBegin", "onEnd", "leave"} \/ (Free(t) /\ hasTransaction(t))

NobodyWaitsInVain ==
    \A t \in Threads : pc[t] = "wait" /\ poolOpen =>
        holder \in Threads \ {t} /\ ~hasTransaction(t) /\ CanGoOn(holder)

(* What a call reported as committed is in the file, be it a write of its   *)
(* own, a transaction with nested ones or the part of it before a yield.    *)
PromisedIsDurable == promised \subseteq committed

(* When any part of a transaction was not successful, nothing of it         *)
(* reaches the file, but for what was written after SQLite had rolled it    *)
(* back by itself.                                                          *)
DeniedIsGone == denied \cap committed = {}

(* The pool is closed when close() has been called more often than calls    *)
(* are in progress, and not before: one close() never closes it under a     *)
(* call, whoever makes it and when, and the last call to return closes it.  *)
(* A second close() takes the reference of a call.                          *)
Calling == {t \in Threads : pc[t] # "idle"}
PoolOutlivesCalls == poolOpen <=> closes <= Cardinality(Calling)

(* If every transaction is ended by the thread that began it, every thread  *)
(* that waits for the connection gets it, or learns that the pool is        *)
(* closed.                                                                  *)
EveryWaiterServed == \A t \in Threads : pc[t] = "wait" ~> pc[t] # "wait"

(* The one connection is lent as Lending promises: to one thread at a time, *)
(* in the order in which they ask, never to a thread that comes between,    *)
(* and no thread waits twice or for what it has itself.                     *)
Line == [i \in DOMAIN waiters |-> [thread |-> waiters[i], priority |-> 0]]
Pool == INSTANCE Lending WITH Nobody <- None, open <- poolOpen, line <- Line
LentInTurn == Pool!Spec

=============================================================================

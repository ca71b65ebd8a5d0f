# Verification of Letos remote

Letos remote is an Android library that lets a database tool on another machine work on an
application's SQLite databases. A service listens on a TCP port; every connection gets a handler
that reads framed JSON requests (LIST, QUERY, DELETE_DB) and executes them through a copy of
Android's database classes (`org.sqlite.database`) bound to an encrypting SQLite. This directory
holds TLA+ models of those parts, TLC configurations that check them, and proofs about them.

In what follows `internal/` stands for
`LetosRemoteProject/letosremote/src/main/java/org/letos/letosremote/internal/` and `sqlite/` for
`LetosRemoteProject/letosremote/src/main/java/org/sqlite/database/sqlite/`.

    tlc -workers 2 -config LetosListener.cfg LetosListener     checks a run
    tlapm SQLiteSessionProofs.tla                              checks a module of proofs

The runs, their configurations and their properties are listed in `PROJECT.json`, with the source
lines every definition models, the hazards the properties are aimed at, and one mutant of the code
for each property that shows the property can fail.

## The system

| Component | State it keeps | Operations | Talks to |
|---|---|---|---|
| `LetosService` | static `running` and `applicationContext`; port, address, password, lists; listener, wake locks, notification | `start`, `stop`, `onStartCommand`, `onDestroy` | Android (intents, redelivery), `LetosListener` |
| `internal/LetosListener` | `running`, server socket, thread pool of 20 with a queue of 1, `clientJobs` | `init`, `run`, `removeJob`, `close` | `ClientHandler` (runs it, closes it), service (closes and joins it) |
| `internal/ClientHandler` | socket, reader state, `authorized`, `denyAccess`, its own `LetosDbService` | `run`, `readClientChannel`, `handleRequest`, `cleanUp`, `close` | client, `LetosDbService`, listener |
| `internal/AuthServiceImpl`, `Utils` | password, two lists of patterns | `isAuthRequired`, `authorize`, `isIpAllowed` | listener, handler |
| `internal/LetosDbService`, `QueryResults`, `ErrorCode` | the databases one handler has open | `exec`, `getDbList`, `deleteDb`, `releaseAll` | `SQLiteDatabase` |
| `internal/JsonConverter` | none | conversion of requests and results | handler |
| `sqlite/SQLiteDatabase`, `SQLiteClosable` | reference count, pool, configuration | open, reopen, WAL, statements, transactions, `close` | session, pool |
| `sqlite/SQLiteSession` | one per thread: connection, use count, stack of transactions | begin, mark, end, yield, execute | pool, listener of the transaction |
| `sqlite/SQLiteConnectionPool` | available and lent connections, waiters, configuration | acquire, release, reconfigure, cancel, close, leak recovery | sessions, `SQLiteConnection` |
| `sqlite/SQLiteConnection`, `android_database_SQLiteConnection.cpp` | native handle, cache of prepared statements and pool of their objects, cancellation count and flag | prepare, execute, reconfigure, attach and detach signals, close, `finalize` | native library |
| `sqlite/SQLiteOpenHelper` | one database, `mIsInitializing` | `getDatabaseLocked`, `close` | application callbacks, `SQLiteDatabase` |
| cursors, programs, query builder, `DatabaseUtils` | bound arguments, windows | fill, move, requery | `SQLiteDatabase` |
| native library (vendored SQLite with encryption): the pager | per connection a cache, a state and a lock on the file; the file and its journal | shared lock and hot journal, begin, write, spill, two phases of commit, rollback, playback | operating system |
| native library: the rest | SQLite's own | parser, virtual machine, b-tree, cipher, WAL | pager |

What is hard about it, and what makes each part correct:

- *The pool* is a monitor with a hand-written queue of recycled waiter objects, entered by sessions,
  cancellation callbacks, finalizers and reconfigurations. Correct: one user per connection, one
  primary, no connection lost or lent with an old configuration, no lost wake-up, no cancellation of
  somebody else's wait.
- *Sessions* nest transactions, call listeners in the middle, and count uses of one connection.
  Correct: the connection is held exactly as long as there is a transaction or a call; what is
  reported as committed is in the file, and what was not successful is not; somebody can always go on;
  the connection goes round in turn.
- *The listener* shares fields between its thread, the workers and the thread that closes it, mostly
  without locks. Correct: every handler that runs is on record, close() misses none, the port is free
  afterwards, close() returns, and the loop that accepts ends by an exception only if it is closed or more
  clients come than fit.
- *The handler* reads a byte stream that may be cut, pipelined or out of step, and may be closed at any
  moment. Correct: requests are answered one by one and in order, nothing is executed before the
  password, every request is answered or the connection ends, and everything is given back.
- *The service* is started, stopped, killed and redelivered by Android in an order the application
  does not control. Correct: `running` means one listener, with its locks and its configuration.
- *The statement cache* is entered again by the custom functions of the statements that run, and another
  thread cancels them. Correct: a statement in use is neither finalized nor given to another call, none is
  lost, a cancellation reaches the call it is meant for and nothing after it.
- *The helper* runs callbacks that throw or call back, in several processes, while remote clients open
  and delete the same file without asking. Correct: nothing stays open that nobody keeps, the tables and
  the version of a file change together, and what is handed out has the version of the helper.
- *The pager* is what joins the application and the remote clients in the end: each has connections of
  its own to the same file. Correct: a transaction is in the file as a whole or not at all, through failing
  writes, crashes and losses of power, and a reader sees one committed state.

The modules follow the same cut as the code, joined where the components meet:

    application          client                       threads of the application
        |                   |                            |                 |
    LetosService --> LetosListener --> ClientHandler     |          SQLiteOpenHelper
     (one listener)   (handlers as      (implements      |           (files, versions; has the
                       they end)         RequestServer)  |            LetosDbService of the clients)
                                            |            |                 |
                                            +-----> SQLiteSession ---------+
                                                     (pool reduced to a queue)
                                                         |
                                      ConnectionPool ----+---- SQLiteConnection
                                       (the pool              (the statements of
                                        in detail;             one connection)
                                        both implement
                                        Lending)
                                                         |
                                                       Pager
                                                        (connections that share a file;
                                                         implements AtomicDatabase)

Each module keeps the component it models in detail and of its neighbours only what it sees of them.

## The modules

### ConnectionPool (`sqlite/SQLiteConnectionPool.java`)

Threads acquire, wait, release, reconfigure and close. Everything under `mLock` is one step; a waiter
is cut into *enqueued*, *parked*, *recovering* and *returning*, since it lets go of the lock there.
`queue` is the list from `mConnectionWaiterQueue`, `waiterPool` the list of recycled objects,
`status` and `kind` what is on record of a connection, `scan` the state of the wake-up loop, which
opens connections, and may fail, between two iterations (`WakeStep`). A waiter object is reused with a
new `nonce`, as in the code; `Cancel` and `OnCancel` are the two halves of a cancellation, between
which the object can be recycled. A leaked connection loses its weak reference (`ClearWeakReference`),
is finalized (`FinalizeConnection`, from `SQLiteConnection.finalize`) and is noticed only by a waiter
whose park times out (`DetectLeak`, `RecoverLeak`). Time is not modelled: the time-out may fire at
any moment. `stale` marks connections whose configuration is older than the pool's.

| Run | Instance | Shows |
|---|---|---|
| `pool` | 3 threads of two priorities, 3 connections, WAL on and off, every reconfiguration, close(); symmetric in the threads and waiter objects | `OnePrimary` (the assertion in `releaseConnection`), `ExclusiveOwnership`, no old configuration in use unmarked (`ConfigurationPropagated`), `GrantsByPriority` |
| `pool_faults` | 3 threads of one priority, 1 primary, no reconfiguration, 2 waiter objects, one thread that cancels, one that leaks | no wake-up lost (`NoStrandedWaiter`), a cancellation finds its waiter while the pool is open and reaches nobody else, `EveryWaitEnds` |
| `pool_close` (violation) | 2 threads, 1 connection | a connection granted to a waiter just before close() is neither used, released nor closed |

Three threads are the least for one that holds and two that differ in priority; two waiter objects for
three threads make recycling necessary; `MaxNonce` lets an object be reused once. Fairness
(`Fairness`): a thread inside `waitForConnection` goes on (weak), whoever needs the lock gets it
in the end and a holder releases or abandons (strong, since others may take the monitor in
between), and the garbage collector collects. `EveryWaitEnds` needs nothing else. That nobody is left
waiting after a reconfiguration, one that fails to open the new primary included, no run checks; it is
proved (`NoLostWakeUp`).

### Lending

`Lending` is what sessions rely on when a pool has one connection: it is lent to one thread at a time, who
finds it lent joins a line behind everybody of the same or a higher priority, who returns it hands it to the
first of the line, anybody may give up, and after close() it is lent to nobody. Two modules implement it.
In `SQLiteSession` it is the property `LentInTurn` of the run `session`. In `ConnectionPool` the line is
what the queue of waiter objects comes to, and the holder includes the thread that a release has chosen but not
yet reached in its scan (`Lessee`); its `LentInTurn` holds under `Alone` (no write-ahead logging, no
reconfiguration, no leak). No run has such constants; with three threads and two connections TLC found it
true in 642,721 states, and it is proved for any number. The reduction of the pool to a holder and a queue in
`SQLiteSession` therefore is one that the pool of the code keeps.

### SQLiteSession (`sqlite/SQLiteSession.java`, `SQLiteClosable.java`, parts of `SQLiteDatabase.java`)

The sessions of all threads of a database that has one connection, which is what a database without
write-ahead logging has. `useCount` is `mConnectionUseCount`, `stack` is `mTransactionStack`,
`references` is `mReferenceCount`; the pool is its holder and its queue. A call is cut where it
waits (`AcquireConnection`), calls a listener (`onBegin`, `onEnd`, in which the listener may write or
throw) or uses the reference count (`Leave`); between those a thread is alone with the connection.
`Close` is `SQLiteClosable.close()`, which gives up a reference each time it is called and by whomever;
`closes` counts the calls. In a closed pool a yield gets no connection, a waiter stops with an exception
(`WaitFails`), one that was handed the connection just before fails in its call, and a connection that is
returned is closed, so that SQLite rolls back what is open on it.
`pending`, `committed` and `inTransaction` are what SQLite does with BEGIN, COMMIT and ROLLBACK, and
are marked external. SQLite may do two things besides failing without an effect: roll back a
transaction by itself (`"autoRollback"`) and refuse to end one (`"endRefused"`). The ghost variables
record what the caller was told: `promised` are the writes reported as committed, `denied` those of
a transaction of which any part was unsuccessful (`spoiled`).

| Run | Instance | Shows |
|---|---|---|
| `session` | 2 threads, depth 2, 3 begins, 2 writes, autoRollback, listeners that write and throw, yields, 2 close() | connection held exactly for a transaction or call, it goes round in turn (`LentInTurn`), promised writes are durable, denied ones gone, the pool is closed exactly when close() was called more often than calls are in progress (`PoolOutlivesCalls`), every waiter is served or thrown out; 424,654 states |
| `session_commit` (violation) | with endRefused, 1 close() | a refused COMMIT gives the connection back inside a transaction: the next thread's write is reported and not committed |

Two threads are needed for one to wait; two levels for a nested failure; three begins let a
transaction nest and another follow it; two writes distinguish a write inside from one that must
survive it; with two close() the second takes the reference of a call. Fairness: threads are scheduled (weak, `Step`), and a thread that has a transaction and is
again and again able to call `endTransaction()` does so (strong, `CallEnd`), which is what the comment
on `beginTransaction()` demands of its callers. Listeners that begin or end transactions themselves,
or call close(), are left out.

### LetosListener (`internal/LetosListener.java`, `ClientJobContainer.java`)

One listener from its constructor to the end of close() and join(). `init()` is cut at every field it
stores, `run()` at `accept`, registration and `execute`, `close()` into its phases (socket, pool,
snapshot, handlers, await, join). `ThreadPoolExecutor` is external: a worker if there is room, else the
queue, else a rejection; an uncaught exception is `crashed`. `init()` throws one for an entry of the lists
that is no pattern (`StoreFields`), and a handler for a negative size or a database that cannot be
opened (`HandlerThrows`). close() sees the fields `init()` stored
only once the listener thread has been through the synchronized `isRunning()` (`published`); before
that it may or may not, and both are explored. Handlers are reduced to how they end: the client
disconnects, close() closes the socket, or access is denied. A read error alone does not end one, as in
the code.

Run `listener`: three clients, one worker, queue of one (`PoolSize = 1` for 20: the pool and its queue
fill up with two clients and the third is rejected), close() at any point, also before `init()`.
Checked: the record of handlers (`RegisteredWhileServed`), `SnapshotComplete`, `PortReleased`,
`NoLateClient`, `AcceptLoopSurvives` (apart from `init()` and the handlers, only close() and more clients
than fit make the loop throw), and, with weak fairness of each thread while the process
lives, `CloseCompletes` and `DisconnectFreesWorker`; 184,456 states. No fairness is asked of clients or of the
caller of close(), but the fairness of a handler assumes that `exec()` returns: a query without an end
would keep its worker.

### ClientHandler, RequestServer (`internal/ClientHandler.java`)

`RequestServer` is the promise to a client: each request is answered once, in order, with one of the
answers that fit it; a request that fails to authorize is never answered. `ClientHandler` is the
code: the client writes sizes and bodies ahead of the answers, `currentState` says which of the two is
read next, and close() by the listener, a hang-up, a reset or an unusable size may come between any two
steps. A request is what the handler looks at (JSON or not, `auth`, `cmd`, a database or none), and a
size is one that fits, one the buffer cannot hold, or a negative one. A failing read while running
leaves the reader out of step (`lost`); from there on nothing is promised, but everything must still be
released. `LetosDbService.exec`, `deleteDb` and `getDbList` are one step each, with their error paths.

Run `handler`: every pair out of the requests in `MCClientHandler` with every size, with and without
password; `KeepsContract` is the refinement of `RequestServer` (`Contract!Spec` as a property),
`NothingBeforeAuthorization`, `OneEffectUnanswered`, `EveryRequestAnswered`, `ResourcesReleased`.
Two frames are the least for a request that follows an authorization, a failure or a bad frame, and
`MaxAnswers` bounds what a handler that is out of step goes on sending; 186,239 states. Fairness is that
of the handler's thread alone.

### LetosService (`LetosService.java`)

The configuration object, the instances Android makes, the static fields they share, and Android as it
is used: a record of the started service, messages to the main thread in order, redelivery of the
intents when the process dies. `start()` and `stop()` are cut between the test of `running` and the call
to Android. Run `service`: five calls, one in flight at a time, two deaths of the process, two configurations:
`RunningMeansOneListener`, with its wake locks and an owner that can close it, and
`ConfigurationSurvives`; 20,174 states. Two deaths cover a death during redelivery; five calls cover
start, stop, start with both races. No fairness is assumed.

### SQLiteConnection (`sqlite/SQLiteConnection.java`, `android_database_SQLiteConnection.cpp`)

One connection and the calls of the thread that owns it, which nest: a statement that runs may call a
custom function, which executes other statements. `objects` are the `PreparedStatement` objects with
`mInCache` and `mInUse`, `cache` the `LruCache`, `pool` the list of objects to be used again, `native` the
statements that are not finalized; `frames` are the calls, each between `acquirePreparedStatement()`
(`Acquire`), `attachCancellationSignal()` (`Start`), the end of the native loop (`End`) and the `finally`
blocks (`Return`). Another thread cancels in two steps (`Cancel`, `OnCancel`), as the signal does. What
SQLite does with a statement that two calls run, or that was finalized, is undefined, and the machine
stops there (`Defined`): `StatementsPrivate` says that it never does, and is violated.

| Run | Instance | Shows |
|---|---|---|
| `statements` | 3 statements, 2 of them cacheable, cache of 1, calls 3 deep, one signal, failures, close(); 101,461 states | `InUseIsKept`, `NoStatementLost`, `CanceledWhileAttached`, `CancelEndsStatement` |
| `statements_reentrant` (violation) | the same | a statement from the cache is not marked as in use: a nested call of the same text gets it again |

A cache of one with two cacheable statements makes an outer call's statement the one that is evicted;
depth three lets two levels use the cache while a third is outside. Instances with two signals and depth
two or three were checked as well (32,300 and 208,512 states). Fairness: the thread goes on with its call and
the canceling thread with the listener (weak); a statement asks the progress handler again and again,
though its functions may run others in between (strong, `Interrupt`). Without a signal nothing need end.

### SQLiteOpenHelper (`sqlite/SQLiteOpenHelper.java`, `internal/LetosDbService.java`)

Several helpers for one database, in one process or in several, and the `LetosDbService` of remote
clients. A file is a version and the list of callbacks that made its tables; it lives as long as it has the
name (`path`) or an open database refers to it, as on the file systems of Android. `getDatabaseLocked()` is cut where the
database is used or a callback is called, and each of these steps may throw (`Throw` is the `finally`
block); a callback may ask its own helper for the database (`GetDatabaseRecursively`). Users close the
database behind the helper's back, clients open and delete the file (`Exec`, `DeleteDb`, `ReleaseAll`), and
a process may end at any step. What a process leaves in a transaction is rolled back as it ends, which takes
it for granted that its journal is still there: `DeleteDb` may have removed it from under the database.

Run `helper`: two helpers in two processes, of which one is also asked to read only, a client in the
first, a file that is missing, obsolete, or old; 147,416 states. Shown are `NothingLeftOpen`,
`MigratedAtomically`, `OpenedIsCurrent` and `EveryCallReturns`, which needs only that a call goes on
(weak). Two helpers are what it takes for the version to change between its test and the transaction; one
crash suffices, since what a process leaves behind is rolled back at once. Larger instances (both helpers
read, every initial version: 634,000 states) were checked without liveness.

### Pager, AtomicDatabase (`sqlite3mc_amalgamation.c`)

`AtomicDatabase` is what the application and every client rely on: a content that changes in one step when a
transaction commits, and views of it that do not change while they are held. `Pager` is the pager of SQLite
with a rollback journal: connections in one or several processes with their lock (`lock`), state and cache
(`pager`), the file, the journal, and what a loss of power may leave of each (`unsynced`, `forgotten`). A step
ends where a lock is taken or a file looked at, written or synced. The four looks of `hasHotJournal()` are four
steps; a commit is `CommitPhaseOne`, the lock, the records marked, the journal synced, the pages written, the
file synced and the journal deleted; a rollback, and the playback of a hot journal, are their reverse.

Run `pager`: two connections in two processes, up to two pages, two write transactions, failing writes and
syncs, the commit of an attached file that fails, and one crash or loss of power at any step; 253,270
states. `LockedAsNeeded` (who does what holds the lock for it, against all others), `WriteAhead` (what the
file no longer has is in the journal, on the disk), `WriterIsServed` (the PENDING lock ends the readers), and
`IsAtomicDatabase`, the refinement. Two connections are needed for one to recover what the other left; two
pages for a file that is half written, with page 1 as the change counter; the second transaction meets the
caches of the first. Two crashes (416,000 states), and three pages of which two are there at first
(3.1 million states), were checked without liveness. Fairness: a connection inside a call goes on and a
reader ends (`FairSpec`).

Faults are off as long as nothing was ever committed (`FaultsWhenEmpty = FALSE`): a file of length zero
makes `hasHotJournal()` delete a journal that is in use for the creation of the database, which costs nothing
while there is nothing to restore, but breaks the order that `WriteAhead` states.

## What is proved

`tlapm` checks every step of the modules of proofs, for every value of the constants that satisfies the
`ASSUME` of the module (finite or distinct sets, natural bounds; nothing of SQLite or Android except
where it is said). All of them follow one pattern: an invariant `IInv` of named parts that TLC checked on
small instances first, a lemma for every action, and one theorem for each property.

**ConnectionPoolProofs** proves all the safety properties of the runs `pool` and `pool_faults`, with four
invariants on top of each other.
`IInv` adds to the types which kinds and marks the connections in each place have: without it a
release could bring back a second primary from a status nobody rules out. The bodies that reconfigure
are treated through what they leave on record of every connection. From it follow `TypeOK`, `OnePrimary` and
`ConfigurationPropagated`.
`WInv` is about waiters: the ones in the queue and the ones that are done are exactly those of the threads
that wait, each of one thread, and the recycled ones are nobody's; a listener left over from an earlier
use has another nonce than its waiter; a closed pool empties its queue from the head; the queue is in
the order of the priorities. From it follow `CancelFindsWaiter` and `OnlyOwnSignalCancels`.
`OInv` is about owners: what is lent or promised has one owner and is on record while the pool is open
(`LentToOne`, for any threads), and if no thread ends with a connection then every open connection is available
or owned, which gives `ExclusiveOwnership`. An abandoned connection is lost by definition, so that the
assumption `Leaky = {}` of `OneOwner` cannot be dropped.
`SInv` is about wake-ups: while no leak is pending, the waiters that a scan has passed, or all of them when
there is no scan, cannot be granted what they want, and what the scan remembers as unavailable still is. It
needs that taking a connection makes no other one available, which is counted (hence `Connections` is finite),
and that the two places that free something without a wake-up, the discarding of a surplus connection and a
failed change of the journal mode, come about only when nobody waits or nothing becomes available.
From it follow `NoStrandedWaiter` and, with the order of the queue, `GrantsByPriority` (for `Leaky = {}`: the
garbage collector does not take the monitor, so it can free a connection behind the back of a scan).
Two action properties say how the line moves. `WaitersKeepTheirPlace`: nobody comes to be ahead of a waiter
but who joins with a higher priority, and nobody drops out of the queue of an open pool unless with a
connection or an exception. `ServedInOrder` (for `Leaky = {}`): who is served had nobody ahead who could have taken
that connection. Both were checked by TLC outside of the runs (507,103 states with the constants of `pool`,
165,254 with a cancellation).
`SingleInv` and `Seat` are about a pool that is `Alone`: it never has a connection but the primary, and that is lent
or promised to one thread at most. From it, `SInv` and the order of the queue follows `PoolLendsInTurn`, the
refinement of `Lending`: joining is `Join` at the place the priority gives, a scan hands the connection to
the head of the line in the very step that returns it, and all later steps of the scan are stutters.
`Alone` is more than convenience: after a reconfiguration a pool without write-ahead logging may lend what was
left of its other connections, and the primary besides.

**LetosListenerProofs** proves `TypeOK`, `RegisteredWhileServed`, `SnapshotComplete`, `PortReleased`,
`NoLateClient` and `AcceptLoopSurvives`, for any pool, queue and number of clients. `IInv` is five parts: the phases of close() and
what each has done (`CloserInv`), what the listener thread has stored where it is (`PublishedInv`), that a
published socket is the one close() closes (`SocketInv`), the client between accept and execute
(`JobInv`), and a queue without duplicates (`QueueInv`). `SnapshotComplete` needs all of them: a handler
can only become queued when the pool was not shut down, which is why shutting it down before the
snapshot matters. `CrowdInv` counts: the workers started and the places taken in the queue are no more
than the clients that were handed over, since a worker that is through with one only takes the next of the queue.
Three theorems are the safety halves of its liveness. `NobodyIsLeftBehind`: the queue holds handlers only when all workers were started, so that one of them takes
the next, and when close() is through, the listener's thread has ended and whoever is still served is cut off.
`HandlersAdvance`: a handler only goes on, from accepted to queued to serving to done, and no step takes one
back. `ClosesInBoundedSteps`: once `running` is cleared nothing sets it again, and each step of close() and of the
listener thread takes off what that thread has left, which nothing else adds to.

**SQLiteSessionProofs** proves all safety properties of the run `session`. `IInv` consists of

- `UseInv`: a session's use count is 1 for its transaction plus 1 for a call that is in the middle of
  using the connection, and a thread holds the connection if and only if it counts a use and does not
  wait. This is what makes `HeldForTransaction` inductive: acquiring is only
  ever done by a thread whose count is 0 or which is in a transaction;
- `QueueInv`: the queue of the pool holds the waiting threads, each once, and while the pool is open no
  others. With it `NoDeadlock` proves `NobodyWaitsInVain`: while somebody waits for an open pool, somebody
  else holds the connection and has a step to take;
- `TurnInv`: nobody waits for a connection of an open pool that is free. It is what `SessionsLendInTurn`, the refinement
  of `Lending`, needs;
- `ReferenceInv`: the references are the threads in a call and one more, less one for each close(), and
  the pool is open as long as there is one, which is `ClosedByLastReference` (`PoolOutlivesCalls`). The argument counts the set of calling threads (`FiniteSetTheorems`);
- `FreshInv`: no write is anywhere before it was made.

On top of it, `DataInv` holds if `"endRefused"` is not among the faults: SQLite's transaction is that of the
holder, with the holder's writes (`NativeInv`); the writes of a transaction in progress are neither in
the file nor denied (`UndecidedInv`); and the failure of any part is remembered at some level of the stack
(`SpoiledInv`), which is why a commit is never tried for a spoiled transaction. From it follow `Durability`
(`PromisedIsDurable`) and `Atomicity` (`DeniedIsGone`). The assumption is needed: `session_commit` is the
counterexample without it. TLC checked the parts of both invariants on small instances before they were proved.

**ClientHandlerProofs** proves `NothingBeforeAuthorization`, `OneEffectUnanswered` and the refinement
`KeepsContract`. `IInv` consists of the frames the client has written and the reader has taken
(`FrameInv`), the request in hand (`RequestInv`), what `authorized` means for the requests read so far
(`AuthorizedInv`), and the answers as a list that matches the requests one by one (`AnswerInv`). The
refinement then is one step of `RequestServer`, or a stutter, per action; the mapping ends where the
handler gets out of step, from where on nothing is promised.
`TypeOK` is proved too, and two bounds. `EndsInBoundedSteps`: after close(), or when a client is denied, the
handler's thread waits in no read, and has six steps left at most until it has given up databases and socket.
`AnswersInBoundedSteps`: a handler in step waits for its client only when all that the client has written is
answered, and otherwise each of its steps takes off what is left to do.

**LetosServiceProofs** proves `RunningMeansOneListener` and `ConfigurationSurvives` for any number of calls and
deaths. What is hard is that Android delivers later what the calls asked for. `QueueInv` says in which order
messages can wait: those to one instance with its creation first and its destruction last, and the instances
one after the other (`Ordered`, `AllBegin`, `AllEnd`). `OwnerInv`: the instance that has the listener is
destroyed before the next one is created, if it is not the one on record. `AskedInv`: the first intent the
instance on record gets, or got, is the one the service was started with.

**SQLiteConnectionProofs** proves `InUseIsKept`, `NoStatementLost` and `CanceledWhileAttached`. `StatementInv`
is `Consistent`, a constant-level predicate of objects, cache, pool, native statements and calls: an object has
a native statement exactly while it is in the cache or in use, and shares it with no other; an object in use
belongs to one call. Each primitive (an eviction, an insertion, a new object, the end of a call) has a lemma
on `Consistent` that the actions combine. There always is a free object and a free number, by counting
(`FiniteSetTheorems`). `CancelInv` says that the attach count is the number of attached calls and that the
connection listens to no signal but that of the outermost of them. `SignalInv` adds that the flag is set
as long as a canceled signal is listened to. From both follow `TypeOK` and `CancelIsNotLost`: from the
moment a signal that is listened to is canceled until its call has returned, the flag is set or about to be, whatever
nested calls do meanwhile, and a statement that has ended for it does not run on. TLC checked it outside of the runs as
well, with two signals (659,904 states).

**PagerProofs** proves `LockedAsNeeded`, `WriteAhead`, `CachesFlushed` and the refinement `IsAtomicDatabase` for any
number of connections, processes, pages, faults and crashes; all but the first if no fault happens before anything was committed (`~FaultsWhenEmpty`), as
in the runs. `StateInv` lists which steps go with which pager state, and that only a pager that writes has dirty
pages (`Clean`). Every action is shown to have an `Effect` on one connection that keeps these and takes only locks
that `Grants` allows, and one lemma shows that such an effect keeps the exclusion of all the others. On top of it
`DataInv` says what file, journal and caches hold: `DiskOK` that any outcome of a power failure plays back to what is
committed, and `PagerOK` what each pager may rely on, by the step it is at. A pager that rests or reads has a
cache that is right or that the change counter will give away (`RestingOK`, `ReadingOK`, `QuietOK`); one that writes
has a record of each page of the file it has touched (`JournalOK`, `DirtyOK`), has left to do what its steps still
miss (`TodoOK`), and has counted the change before the file is synced (`CountOK`, `FinishedOK`); one that plays a
journal back has pages left exactly where the file still differs (`UndoneOK`, `HotOK`).
`WriteAhead` alone is far from inductive: which record may be left out depends on what the file was when the
transaction began, which only its lock on the file has kept.
The refinement maps the committed content, the one that may come back (`Earlier`), the views and the writer to
functions of the state. What it needs beside `DataInv` is `HistoryInv`: all the journals that a power failure
may bring back play back one content, whatever part of each is left (`Steady`, `Counted`), so that the abstract
`previous` is determined. Each action then is a step of `AtomicDatabase` or a stutter: the deletion of the
journal is `Commit`, the first step of a rollback `Abandon`, the sync of the next journal `Settle`, and what
survives a power failure is the current content or the previous one (`JournalSurvives`, `ForgottenSurvives`).
`WriterGetsThere` is what `WriterIsServed` rests on: as long as a connection has the PENDING lock, no other comes to
read, each step of those that read takes off their `StepsToUnlock` (`OthersGiveWay`), and when none is left
nothing else keeps the writer from the lock (`NothingElseInTheWay`).

**SQLiteOpenHelperProofs** proves `NothingLeftOpen`, `MigratedAtomically` and `OpenedIsCurrent`, for any number of
helpers, services and ends of processes. `DiskInv` says that names and databases refer to files and that the
tables of each file are those of its version; `HelperInv` what each place in `getDatabaseLocked()` means for the
helper's databases and their transaction, and that it has none open but `mDatabase` and `db`; `ServiceInv`
the same of a client. `OpenedIsCurrent` needs it that the version is read after every opening: a reopened
database has whatever file has the name by then. The files of the model are renumbered when one goes; that this
is a bijection is proved by counting, and a step of one owner leaves the databases of the others the `Same`.
`CallsAreBounded`: `StepsLeft`, at most 19, gets smaller with each step of a call and no other step
adds to it. `getDatabaseLocked()` calls itself when it has deleted an obsolete file; that it does so once only is
because an obsolete file that has lost its name never gets it back, so that neither the name nor the
databases of the second round can come to be those of one (`Obsolete`, `NameAges`, `FileAges`).
The module's assumptions name the helpers and services as finite and disjoint, and `None` as none of the values.

Every safety invariant, action property and refinement of the passing runs is stated by a theorem. Only
model-checked is liveness, nine properties, since the prover has no rules for fairness and ENABLED here. Each has two halves:
fairness makes the steps happen, and the steps lead to the end. The second half is safety. It is proved, as
an invariant or an action property, or as a measure that every step of the actor takes off and no other adds to:

| Only model-checked | Proved of it | Left to fairness |
|---|---|---|
| `EveryWaitEnds` | `NoLostWakeUp`, `WaitersKeepTheirPlace`, `ServedInOrder` | the holders release, the monitor is given to who needs it |
| `EveryWaiterServed` | `NoDeadlock`, `SessionsLendInTurn` | a thread in a transaction ends it |
| `CloseCompletes`, `DisconnectFreesWorker` | `ClosesInBoundedSteps`, `HandlersAdvance`, `NobodyIsLeftBehind` | each thread goes on |
| `ResourcesReleased`, `EveryRequestAnswered` | `EndsInBoundedSteps`, `AnswersInBoundedSteps` | the handler's thread goes on |
| `WriterIsServed` | `WriterGetsThere` | a reader ends |
| `CancelEndsStatement` | `CancelIsNotLost` | a statement asks the progress handler |
| `EveryCallReturns` | `CallsAreBounded` | a call goes on |

What is not proved is that these halves together give the property.

## What the models found

- `pool_close` (code): `waitForConnection` tests whether the pool is closed before it looks at the
  connection it was assigned, and loses it. The same close() empties the queue of waiters without telling
  them: a cancellation that comes before they wake walks off the end of the list, which is why
  `CancelFindsWaiter` is limited to an open pool.
- `session_commit` (code): a COMMIT that SQLite refuses (a deferred foreign key, a busy file) is not
  followed by ROLLBACK, and the connection goes back to the pool inside a transaction nobody knows.
- `statements_reentrant` (comment and code): a statement from the cache is not marked as in use, though the
  class "must tolerate reentrant execution": a custom function that runs the same text gets the same native
  statement, and one that runs others may have it finalized.

## Observations

What the models made visible, or reading for them did, and no run states. Lines are of the files named before.

- Listener and service: a port that cannot be bound ends the listener's thread while the service goes on with
  its notification and locks (`LetosListener.java:109`). A handler that is rejected, or a client accepted while close()
  shuts the pool down, ends the process, and so does an entry of the lists that makes no pattern: `init()` throws
  after it has opened the socket (`LetosListener.java:115`, `Utils.java:49`). `stop()` then `start()` before Android has destroyed the service leaves it stopped
  (`LetosService.java:64`). A second start shows a port in the notification that is not the one listened on.
- Handler: `exec()` opens the database outside of its `try` (`LetosDbService.java:94`), so that a database that
  cannot be opened ends the process instead of being answered, and so does a negative size
  (`ClientHandler.java:168-169`). A frame that is too large gets the connection out of
  step (`ClientHandler.java:164`). The confirmation of sizes of `protocol.txt:23-24` is never sent.
- Sessions: after close() a thread can no longer end the transaction it has, since that takes a reference
  (`SQLiteClosable.java:58`, `SQLiteDatabase.java:352-354` and `:524`), though close() says that threads may
  finish their work; a client that sends BEGIN and hangs up does this to the application's file. close() does not remember
  that it was called (`SQLiteClosable.java:109`): a second one during a call takes the reference of that call and
  disposes of the pool under it, and `SQLiteOpenHelper.close()` makes one (`SQLiteOpenHelper.java:339-340`) after a user
  has closed the database while a call of another thread keeps `isOpen()` true. After SQLite has rolled a
  transaction back by itself, the session's next writes commit one by one, which `DeniedIsGone` excepts.
- Connection: while an outer call listens to its signal, the signal of a call it leads to is not listened to.
  A query for a window that fails has reset its statement by itself and stays in the cache.
- The library is built with SQLITE_HAS_CODEC (`compile_mc.sh`), so `nativeHasCodec()` is true. Therefore
  the error handler deletes nothing when a database is corrupt, and `SQLiteConnection.open()` never sets the
  mode for write-ahead logging (`SQLiteConnection.java:222`): `openDatabase` with ENABLE_WRITE_AHEAD_LOGGING does not
  switch it on, a later `enableWriteAheadLogging()` returns true and changes nothing.
- Helper: the version is read outside of the transaction (`SQLiteOpenHelper.java:279`), so that two processes run the
  same callback one after the other; `setWriteAheadLoggingEnabled()` before the first opening has no
  effect; a kept database that is reopened for writing and whose initialisation fails stays kept; an
  obsolete file is deleted by its path, which may be a new file by then, and before its journal is.
- Pager: the branch of `hasHotJournal()` for a file of length zero deletes the journal of a database that is being
  created (amalgamation `:65015` and after); a creation that fails then may leave a stale page 1 in a cache.

## Not modelled, and why

- Data: JSON text, SQL text, rows, blobs, wording and formats. The handler's models look at what the
  code decides on. `JsonConverter`, `SQLiteQueryBuilder`, the glob conversion in `Utils` and
  `getSqlStatementType` are conversions of text, sequential and without state.
- Time: time-outs may fire at any moment, and no property is about how long anything takes.
- Write-ahead logging: this build hardly reaches it (see the observations). Of the pager also the super-journal of several
  files (its outcome is the fault `"attached"`), savepoints, memory-mapped files and vacuuming; of
  SQLite the parser, the virtual machine, the b-tree and the cipher. These are vendored, and most of the lines of the repository.
- `letos_inspect_columns.c`, a table-valued function: each scan prepares a statement, lists its columns without
  running it and finalizes it; it shares no state with anything but the statement it belongs to.
- Opening, reconfiguration by pragmas, parameters and results of `SQLiteConnection`; the opening, the attached
  databases and the custom functions of `SQLiteDatabase`; cursors, which fill their windows from one call of
  `executeForCursorWindow` at a time.
- Statistics, dumps, `CloseGuard`, debug properties, `enableLocalizedCollators`.
- The sample application, the instrumentation test and the build files.
- Android: services, intents, the garbage collector, sockets, thread pools and cancellation signals are external, as the
  code uses them.
- Of the modelled components: listeners that begin or end transactions within a callback or call close(),
  sessions on a database with write-ahead logging (more than one connection), in-memory databases of the
  helper.

## What could come next

1. A client that leaves a transaction open, as the composition of SQLiteSession, LetosDbService and Pager:
   how long the application stays locked out.
2. Sessions of a pool with several connections, and the promise of `Lending` for them.
3. Glob patterns and the order of the two lists as operators, against a reference definition.

--------------------------- MODULE SQLiteConnection ---------------------------
(***************************************************************************)
(* One SQLiteConnection and the statements it prepares: the cache of       *)
(* statements, the pool of PreparedStatement objects, the native           *)
(* statements behind them, the cancellation of what runs, and the close.   *)
(* One thread at a time owns the connection, but its calls nest: a         *)
(* statement may call a custom function, which runs other statements of    *)
(* the same connection.  Other threads cancel.                             *)
(*                                                                         *)
(* The machine stops where two calls run the same native statement, or one *)
(* runs a statement that was finalized: what SQLite does then is undefined.*)
(***************************************************************************)
EXTENDS Integers, Sequences, FiniteSets

CONSTANTS
    SQLs,           \* the texts of statements
    Cacheable,      \* those that isCacheable() lets into the cache
    Signals,        \* the CancellationSignals
    NoSignal,       \* the null signal
    CacheSize,      \* maxSqlCacheSize
    MaxDepth        \* bound on the depth of the calls

ASSUME ConnectionAssumption ==
    /\ Cacheable \subseteq SQLs
    /\ NoSignal \notin Signals
    /\ CacheSize \in Nat \ {0} /\ MaxDepth \in Nat \ {0}

(* As many objects and native statements as can be in use at once. *)
Objects == 1 .. CacheSize + MaxDepth + 1
Statements == 1 .. CacheSize + MaxDepth + 1

VARIABLES
    objects,        \* the PreparedStatement objects
    cache,          \* mPreparedStatementCache, the least recently used first
    pool,           \* mPreparedStatementPool: the objects to be used again
    native,         \* the native statements that are not finalized
    frames,         \* the calls under way, the innermost last
    attachCount,    \* mCancellationSignalAttachCount
    canceled,       \* the flag that the progress handler returns
    signals,        \* the state of each signal
    listening,      \* the signals with the connection as their listener
    closed          \* mConnectionPtr is 0

statementVars == <<objects, cache, pool, native>>
cancelVars == <<attachCount, canceled, listening>>
vars == <<statementVars, frames, cancelVars, signals, closed>>

(* An object that no call and no cache refers to; what it still holds does  *)
(* not matter.                                                              *)
Recycled == [sql |-> "none", statement |-> 0, inCache |-> FALSE, inUse |-> FALSE]

Init ==
    /\ objects = [o \in Objects |-> Recycled]
    /\ cache = <<>> /\ pool = {}
    /\ native = {}
    /\ frames = <<>>
    /\ attachCount = 0 /\ canceled = FALSE
    /\ signals = [s \in Signals |-> "armed"] /\ listening = {}
    /\ closed = FALSE

-----------------------------------------------------------------------------
Elements(s) == {s[i] : i \in DOMAIN s}

(* The sequence s without its element o. *)
Without(s, o) ==
    LET k == CHOOSE i \in DOMAIN s : s[i] = o
    IN  [i \in 1 .. Len(s) - 1 |-> IF i < k THEN s[i] ELSE s[i + 1]]

Depth == Len(frames)
Top == frames[Depth]

CachedFor(sql) == {o \in Elements(cache) : objects[o].sql = sql}

Alive(frame) == frame.statement \in native

Distinct(i, j) == frames[i].statement # frames[j].statement

(* Every call runs a statement of its own that is not finalized. *)
Defined ==
    /\ \A i \in DOMAIN frames : Alive(frames[i])
    /\ \A i, j \in DOMAIN frames : i # j => Distinct(i, j)

(* obtainPreparedStatement().  Which of the objects that nothing refers to  *)
(* is taken does not matter.                                                *)
NewObject ==
    LET referred == Elements(cache) \cup {frames[i].object : i \in DOMAIN frames}
    IN  CHOOSE o \in IF pool # {} THEN pool ELSE Objects \ referred : TRUE

PoolAfter == pool \ {NewObject}

(* Nor does the address of the native statement. *)
NewStatement ==
    LET taken == native \cup {frames[i].statement : i \in DOMAIN frames}
    IN  IF NewObject \notin taken THEN NewObject ELSE CHOOSE s \in Statements \ taken : TRUE

-----------------------------------------------------------------------------
(* The cache lets go of the objects in S: entryRemoved() finalizes those    *)
(* that are not in use and puts them into the pool.  objs, p and nat are    *)
(* the objects, the pool and the native statements at that moment.          *)
IsFree_Always(objs, o) == TRUE

IsFree(objs, o) == ~objs[o].inUse

EntriesRemoved(S, objs, p, nat) ==
    LET freed == {o \in S : IsFree(objs, o)}
    IN  /\ objects' = [o \in Objects |-> IF o \in freed THEN Recycled
                                         ELSE [objs[o] EXCEPT !.inCache = @ /\ o \notin S]]
        /\ native' = nat \ {objs[o].statement : o \in freed}
        /\ pool' = p \cup freed

Frame(sql, o, statement, marked, signal) ==
    [sql |-> sql, object |-> o, statement |-> statement, marked |-> marked,
     signal |-> signal, pc |-> "acquired", failed |-> FALSE]

(* acquirePreparedStatement() finds the statement in the cache: it is not   *)
(* marked as in use.                                                        *)
AcquireCached(sql, signal, o) ==
    /\ ~objects[o].inUse
    /\ cache' = Append(Without(cache, o), o)
    /\ frames' = Append(frames, Frame(sql, o, objects[o].statement, FALSE, signal))
    /\ UNCHANGED <<objects, pool, native>>

(* It is in the cache but in use: a copy is prepared and not cached. *)
PrepareCopy(sql, signal) ==
    /\ objects' = [objects EXCEPT ![NewObject] =
           [sql |-> sql, statement |-> NewStatement, inCache |-> FALSE, inUse |-> TRUE]]
    /\ pool' = PoolAfter
    /\ native' = native \cup {NewStatement}
    /\ frames' = Append(frames, Frame(sql, NewObject, NewStatement, TRUE, signal))

AcquireCopy(sql, signal, o) ==
    /\ objects[o].inUse
    /\ cache' = Append(Without(cache, o), o)
    /\ PrepareCopy(sql, signal)

(* It is not in the cache, and goes there if that makes sense; the cache    *)
(* may have to let go of the statement that was used least recently.        *)
AcquireNew(sql, signal) ==
    /\ CachedFor(sql) = {}
    /\ IF sql \notin Cacheable THEN PrepareCopy(sql, signal) /\ UNCHANGED cache
       ELSE LET o == NewObject
                full == Len(cache) = CacheSize
                objs == [objects EXCEPT ![o] = [sql |-> sql, statement |-> NewStatement,
                                                inCache |-> TRUE, inUse |-> TRUE]]
            IN  /\ cache' = Append(IF full THEN Tail(cache) ELSE cache, o)
                /\ EntriesRemoved(IF full THEN {Head(cache)} ELSE {}, objs, PoolAfter,
                                  native \cup {NewStatement})
                /\ frames' = Append(frames, Frame(sql, o, NewStatement, TRUE, signal))

(* A call of an execute method, from outside or from a custom function that *)
(* the statement on top calls.                                              *)
Acquire(sql, signal) ==
    /\ ~closed /\ Depth < MaxDepth
    /\ Depth > 0 => Top.pc = "running"
    /\ \/ AcquireNew(sql, signal)
       \/ \E o \in CachedFor(sql) : AcquireCached(sql, signal, o) \/ AcquireCopy(sql, signal, o)
    /\ UNCHANGED <<cancelVars, signals, closed>>

Goto(pc) == frames' = [frames EXCEPT ![Depth].pc = pc]

(* The flag is reset before and after a statement can be canceled. *)
nativeResetCancel == canceled' = FALSE

(* The arguments are bound, attachCancellationSignal() listens to the       *)
(* signal if it is the first one, and the native method begins to step.     *)
Start ==
    /\ Depth > 0 /\ Top.pc = "acquired"
    /\ Top.signal # NoSignal => signals[Top.signal] = "armed"
    /\ Goto("running")
    /\ IF Top.signal = NoSignal THEN UNCHANGED cancelVars
       ELSE /\ attachCount' = attachCount + 1
            /\ IF attachCount = 0 THEN nativeResetCancel /\ listening' = {Top.signal}
               ELSE UNCHANGED <<canceled, listening>>
    /\ UNCHANGED <<statementVars, signals, closed>>

(* The native method is done. *)
End(failed) ==
    /\ Depth > 0 /\ Top.pc = "running"
    /\ frames' = [frames EXCEPT ![Depth].pc = "ended", ![Depth].failed = failed]
    /\ UNCHANGED <<statementVars, cancelVars, signals, closed>>

(* The progress handler, which is installed while a signal is attached,     *)
(* makes the statement at depth d fail.                                     *)
Interrupt(d) ==
    /\ Depth = d /\ attachCount > 0 /\ canceled
    /\ End(TRUE)

-----------------------------------------------------------------------------
(* detachCancellationSignal() waits for onCancel() when it is the last one. *)
Detach_EveryLevel(signal) ==
    IF signal = NoSignal THEN UNCHANGED cancelVars
    ELSE /\ attachCount' = attachCount - 1
         /\ signals[signal] # "calling"
         /\ listening' = IF attachCount = 1 THEN {} ELSE listening
         /\ nativeResetCancel

Detach_NoWait(signal) ==
    IF signal = NoSignal THEN UNCHANGED cancelVars
    ELSE /\ attachCount' = attachCount - 1
         /\ IF attachCount = 1 THEN listening' = {} /\ nativeResetCancel
            ELSE UNCHANGED <<listening, canceled>>

Detach(signal) ==
    IF signal = NoSignal THEN UNCHANGED cancelVars
    ELSE /\ attachCount' = attachCount - 1
         /\ IF attachCount = 1
            THEN /\ signals[signal] # "calling"
                 /\ listening' = {} /\ nativeResetCancel
            ELSE UNCHANGED <<listening, canceled>>

(* Resetting a statement that failed reports the error again, unless the    *)
(* native method has reset it before.                                       *)
ResetFails(frame) == {FALSE, frame.failed}

(* releasePreparedStatement().  A statement that cannot be reset leaves the *)
(* cache.                                                                   *)
Release_KeepsUncached(frame, resetFails) ==
    LET o == frame.object
        objs == [objects EXCEPT ![o].inUse = FALSE]
    IN  IF objs[o].inCache /\ resetFails
        THEN EntriesRemoved({o}, objs, pool, native) /\ cache' = Without(cache, o)
        ELSE objects' = objs /\ UNCHANGED <<cache, pool, native>>

Release(frame, resetFails) ==
    LET o == frame.object
        objs == [objects EXCEPT ![o].inUse = FALSE]
    IN  IF objs[o].inCache
        THEN IF resetFails
             THEN EntriesRemoved({o}, objs, pool, native) /\ cache' = Without(cache, o)
             ELSE objects' = objs /\ UNCHANGED <<cache, pool, native>>
        ELSE /\ objects' = [objs EXCEPT ![o] = Recycled]
             /\ native' = native \ {objs[o].statement}
             /\ pool' = pool \cup {o}
             /\ UNCHANGED cache

Pop == frames' = SubSeq(frames, 1, Depth - 1)

Return ==
    /\ Depth > 0 /\ Top.pc = "ended"
    /\ Detach(Top.signal)
    /\ \E resetFails \in ResetFails(Top) : Release(Top, resetFails)
    /\ Pop
    /\ UNCHANGED <<signals, closed>>

(* The statement is not executed: it is only prepared, its arguments do not *)
(* fit, the connection is read-only, or its signal was canceled before.     *)
Refuse ==
    /\ Depth > 0 /\ Top.pc = "acquired"
    /\ Release(Top, FALSE)
    /\ Pop
    /\ UNCHANGED <<cancelVars, signals, closed>>

(* isPreparedStatementInCache(), which the pool asks of an idle connection, *)
(* makes the statement the one used most recently.                          *)
IsPreparedStatementInCache(o) ==
    /\ Depth = 0 /\ ~closed /\ o \in Elements(cache)
    /\ cache' = Append(Without(cache, o), o)
    /\ UNCHANGED <<objects, pool, native, frames, cancelVars, signals, closed>>

(* It fails when a statement is left. *)
nativeClose == closed' = (native' = {})

(* dispose() of an idle connection. *)
Close ==
    /\ Depth = 0 /\ ~closed
    /\ cache' = <<>>
    /\ EntriesRemoved(Elements(cache), objects, pool, native)
    /\ nativeClose
    /\ UNCHANGED <<frames, cancelVars, signals>>

-----------------------------------------------------------------------------
(* CancellationSignal.cancel() by another thread: it takes the listener     *)
(* and, without a lock, calls it.                                           *)
Cancel(s) ==
    /\ signals[s] = "armed"
    /\ signals' = [signals EXCEPT ![s] = IF s \in listening THEN "calling" ELSE "canceled"]
    /\ UNCHANGED <<statementVars, frames, cancelVars, closed>>

OnCancel(s) ==
    /\ signals[s] = "calling"
    /\ signals' = [signals EXCEPT ![s] = "canceled"]
    /\ canceled' = TRUE
    /\ UNCHANGED <<statementVars, frames, attachCount, listening, closed>>

Next ==
    \/ /\ Defined
       /\ \/ \E sql \in SQLs, signal \in Signals \cup {NoSignal} : Acquire(sql, signal)
          \/ Start \/ Refuse \/ Return
          \/ \E failed \in BOOLEAN : End(failed)
          \/ \E o \in Objects : IsPreparedStatementInCache(o)
          \/ Close
    \/ \E s \in Signals : Cancel(s) \/ OnCancel(s)

Spec == Init /\ [][Next]_vars

(* The thread goes on with the call it is in, the thread that cancels calls *)
(* the listener, and a statement asks the progress handler again and again, *)
(* even if its custom functions run other statements in between.  Nothing   *)
(* else makes a statement end.                                              *)
FairSpec ==
    /\ Spec
    /\ WF_vars(Defined /\ (Start \/ Refuse)) /\ WF_vars(Defined /\ Return)
    /\ \A s \in Signals : WF_vars(OnCancel(s))
    /\ \A d \in 1 .. MaxDepth : SF_vars(Defined /\ Interrupt(d))

-----------------------------------------------------------------------------
(* Properties.                                                             *)

(* Every variable keeps its type. *)
TypeOK ==
    /\ objects \in [Objects -> [sql : SQLs \cup {"none"}, statement : Statements \cup {0},
                                inCache : BOOLEAN, inUse : BOOLEAN]]
    /\ cache \in Seq(Objects) /\ Len(cache) <= CacheSize
    /\ pool \subseteq Objects
    /\ native \subseteq Statements
    /\ frames \in Seq([sql : SQLs, object : Objects, statement : Statements, marked : BOOLEAN,
                       signal : Signals \cup {NoSignal}, pc : {"acquired", "running", "ended"},
                       failed : BOOLEAN])
    /\ Depth <= MaxDepth
    /\ attachCount \in 0 .. MaxDepth /\ canceled \in BOOLEAN
    /\ signals \in [Signals -> {"armed", "calling", "canceled"}]
    /\ listening \subseteq Signals
    /\ closed \in BOOLEAN

(* "We need to prevent in use statements from being finalized until they    *)
(* are no longer in use": a call that has marked its statement as in use    *)
(* keeps it, and its object, to itself, whatever the calls that it leads to *)
(* do to the cache.                                                         *)
InUseIsKept ==
    \A i \in DOMAIN frames :
        LET f == frames[i]
        IN  f.marked =>
                /\ Alive(f) /\ objects[f.object].statement = f.statement
                /\ objects[f.object].inUse
                /\ f.object \notin pool
                /\ \A j \in DOMAIN frames : j # i => frames[j].object # f.object

(* Every native statement that is not finalized is in the cache or in use   *)
(* by a call, so none is left over when the connection is closed.           *)
NoStatementLost ==
    native \subseteq {objects[o].statement : o \in Elements(cache)}
                     \cup {frames[i].statement : i \in DOMAIN frames}

(* onCancel() "will only be called between calls to                         *)
(* attachCancellationSignal and detachCancellationSignal", so that it finds *)
(* the connection alive and the flag it sets is of no later statement.      *)
CanceledWhileAttached ==
    \A s \in Signals : (signals[s] = "calling" \/ canceled) => attachCount > 0 /\ ~closed

(* A call whose signal the connection listens to ends soon after the signal *)
(* is canceled, however many other calls it leads to.                       *)
CancelEndsStatement ==
    \A s \in Signals, d \in 1 .. MaxDepth :
        (/\ s \in listening /\ signals[s] # "armed"
         /\ d <= Depth /\ frames[d].signal = s /\ frames[d].pc # "acquired")
            ~> (Depth < d \/ ~Defined)

(* "This class must tolerate reentrant execution of SQLite operations": two *)
(* calls never run the same native statement, and none runs a statement     *)
(* that was finalized.                                                      *)
StatementsPrivate == Defined
=============================================================================

-------------------------------- MODULE Pager --------------------------------
(***************************************************************************)
(* The connections that share one database file, through SQLite's pager    *)
(* with a rollback journal that is deleted at the end of a transaction.    *)
(* The connections are those of the application and of every remote        *)
(* client; nothing but the locks of the file and the journal joins them.   *)
(* The syncs are those of synchronous=NORMAL, which SQLiteConnection sets  *)
(* when write-ahead logging is switched off again; FULL, which is SQLite's *)
(* default, syncs the journal once more before it counts the new records,  *)
(* so that a power failure can do less.                                    *)
(*                                                                         *)
(* Page 1 holds the change counter, every other page the number of the     *)
(* transaction that wrote it; 0 is a page that is not there.  A step ends  *)
(* where a lock is taken, a file is looked at, written or synced, so that  *)
(* a process may end, or the power fail, between any two of them.          *)
(***************************************************************************)
EXTENDS Integers, FiniteSets

CONSTANTS
    Conns,          \* the connections
    Processes,      \* the processes: sets of connections that end together
    PageCount,      \* bound on the size of the file, in pages
    InitialSizes,   \* its sizes at first; transaction 1 wrote what it holds
    MaxTxns,        \* bound on the write transactions
    MaxCrashes,     \* bound on the ends of processes and the power failures
    Faults,         \* "io": a write, a sync or a delete may fail; "power": the power may;
                    \* "attached": the commit of another file of the transaction may
    FaultsWhenEmpty \* they may also before anything was committed

Pages == 1 .. PageCount

ASSUME PagerAssumption ==
    /\ IsFiniteSet(Conns) /\ Processes \subseteq SUBSET Conns
    /\ PageCount \in Nat \ {0} /\ InitialSizes \subseteq 0 .. PageCount
    /\ FaultsWhenEmpty \in BOOLEAN
    /\ MaxTxns \in Nat \ {0} /\ MaxCrashes \in Nat

NO_LOCK == 0
SHARED_LOCK == 1
RESERVED_LOCK == 2
PENDING_LOCK == 3
EXCLUSIVE_LOCK == 4

VARIABLES
    file,       \* the database file, as the connections read it
    unsynced,   \* for each page, what else a power failure may leave of it
    journal,    \* the journal file
    forgotten,  \* journals whose deletion a power failure may undo
    lock,       \* the lock of each connection on the database file
    pager,      \* the Pager object of each connection
    txns,       \* write transactions begun so far
    crashes     \* ends of processes and power failures so far

diskVars == <<file, unsynced, journal, forgotten>>
countVars == <<txns, crashes>>
vars == <<diskVars, lock, pager, countVars>>

(* A header is blank until the journal is synced for the first time; marked *)
(* are the records that a header counts.                                    *)
NoJournal == [exists |-> FALSE, header |-> "blank", size |-> 0, records |-> <<>>,
              marked |-> {}, synced |-> {}]

PartialContent == UNION {[S -> 0 .. MaxTxns] : S \in SUBSET Pages}

Journal ==
    [exists : BOOLEAN, header : {"blank", "written", "synced"}, size : 0 .. PageCount,
     records : PartialContent, marked : SUBSET Pages, synced : SUBSET Pages]

Writing == {"WRITER_LOCKED", "WRITER_CACHEMOD", "WRITER_DBMOD", "WRITER_FINISHED"}

NewPager ==
    [eState |-> "OPEN", pc |-> "idle", cache |-> <<>>, dirty |-> {}, dbSize |-> 0,
     dbFileVers |-> 0, changeCountDone |-> FALSE, committing |-> FALSE, todo |-> {}]

Init ==
    /\ \E n \in InitialSizes : file = [p \in Pages |-> IF p <= n THEN 1 ELSE 0]
    /\ unsynced = [p \in Pages |-> {}]
    /\ journal = NoJournal /\ forgotten = {}
    /\ lock = [c \in Conns |-> NO_LOCK]
    /\ pager = [c \in Conns |-> NewPager]
    /\ txns = 1 /\ crashes = 0

-----------------------------------------------------------------------------
(* The operating system: files, locks.                                     *)

Size(content) ==
    CHOOSE n \in 0 .. PageCount :
        /\ \A p \in Pages : p > n => content[p] = 0
        /\ n > 0 => content[n] # 0

(* A page of a cache or a record of a journal is set, or added. *)
Put(content, p, v) == [q \in DOMAIN content \cup {p} |-> IF q = p THEN v ELSE content[q]]

WriteFile(changes) ==
    /\ file' = [p \in Pages |-> IF p \in DOMAIN changes THEN changes[p] ELSE file[p]]
    /\ unsynced' = [p \in Pages |-> IF p \in DOMAIN changes THEN unsynced[p] \cup {file[p]}
                                                            ELSE unsynced[p]]

SyncFile == unsynced' = [p \in Pages |-> {}] /\ UNCHANGED file

(* The directory is not synced: pPager->extraSync is 0.  A journal without  *)
(* a header is as good as none.                                             *)
DeleteJournal ==
    /\ journal' = NoJournal
    /\ forgotten' = IF journal.header = "blank" THEN forgotten ELSE forgotten \cup {journal}

(* The first sync of a journal syncs its directory as well. *)
SyncJournalFile ==
    /\ journal' = [journal EXCEPT !.synced = journal.marked,
                       !.header = IF @ = "blank" THEN @ ELSE "synced"]
    /\ forgotten' = {}

(* What the file holds for the connections: the journal of a transaction    *)
(* that is not over is played back.                                         *)
Hot(j) == j.exists /\ j.header # "blank"

Restore(content, j) ==
    [p \in Pages |-> IF ~Hot(j) THEN content[p]
                     ELSE IF p > j.size THEN 0
                     ELSE IF p \in j.marked THEN j.records[p] ELSE content[p]]

Committed == Restore(file, journal)

Fails(fault) == fault \in Faults /\ (FaultsWhenEmpty \/ Committed[1] # 0)

Others(c) == Conns \ {c}

(* unixLock() grants the lock. *)
Grants(c, eFileLock) ==
    \A o \in Others(c) :
        CASE eFileLock = SHARED_LOCK -> lock[o] < PENDING_LOCK
          [] eFileLock = RESERVED_LOCK -> lock[o] < RESERVED_LOCK
          [] eFileLock = EXCLUSIVE_LOCK -> lock[o] = NO_LOCK

SetLock(c, eFileLock) == lock' = [lock EXCEPT ![c] = eFileLock]

CheckReservedLock(c) == \E o \in Others(c) : lock[o] >= RESERVED_LOCK

-----------------------------------------------------------------------------
(* Steps of one pager.                                                     *)

At(c, pc) == pager[c].pc = pc

Goto(c, pc) == pager' = [pager EXCEPT ![c].pc = pc]

InTransaction(c) == pager[c].eState \in Writing /\ At(c, "idle")

(* pager_unlock(): the cache survives, unless there was an error. *)
pager_unlock(c, error) ==
    /\ SetLock(c, NO_LOCK)
    /\ pager' = [pager EXCEPT ![c] =
           [NewPager EXCEPT !.cache = IF error THEN <<>> ELSE pager[c].cache,
                            !.dbFileVers = pager[c].dbFileVers]]

(* pager_end_transaction() leaves a reader behind; pages beyond the end of  *)
(* the database leave the cache.                                            *)
Ended(c, eState, pc, dbSize) ==
    [NewPager EXCEPT !.eState = eState, !.pc = pc, !.dbSize = dbSize,
        !.dbFileVers = pager[c].dbFileVers,
        !.cache = [p \in {q \in DOMAIN pager[c].cache : q <= dbSize} |-> pager[c].cache[p]]]

Failed(c) == [pager[c] EXCEPT !.eState = "ERROR", !.pc = "idle"]

-----------------------------------------------------------------------------
(* mc_sqlite3PagerSharedLock().                                            *)

SharedLock(c) ==
    /\ pager[c].eState = "OPEN" /\ At(c, "idle")
    /\ Grants(c, SHARED_LOCK)
    /\ SetLock(c, SHARED_LOCK)
    /\ Goto(c, "exists")
    /\ UNCHANGED <<diskVars, countVars>>

(* hasHotJournal(): the journal, the RESERVED lock, the size of the file    *)
(* and the first byte of the journal are looked at one after the other.     *)
JournalExists(c) ==
    /\ At(c, "exists")
    /\ Goto(c, IF journal.exists THEN "reserved" ELSE "validate")
    /\ UNCHANGED <<diskVars, lock, countVars>>

JournalInUse(c) ==
    /\ At(c, "reserved")
    /\ Goto(c, IF CheckReservedLock(c) THEN "validate"
               ELSE IF Size(file) = 0 THEN "discard" ELSE "firstByte")
    /\ UNCHANGED <<diskVars, lock, countVars>>

(* The journal of an empty file is deleted, under a RESERVED lock. *)
DiscardJournal(c) ==
    /\ At(c, "discard")
    /\ IF Grants(c, RESERVED_LOCK) THEN DeleteJournal ELSE UNCHANGED <<journal, forgotten>>
    /\ Goto(c, "validate")
    /\ UNCHANGED <<file, unsynced, lock, countVars>>

(* A journal that cannot be opened any more is taken for a hot one. *)
JournalFirstByte(c) ==
    /\ At(c, "firstByte")
    /\ Goto(c, IF journal.exists /\ journal.header = "blank" THEN "validate" ELSE "hot")
    /\ UNCHANGED <<diskVars, lock, countVars>>

LockHotJournal_Reserved(c) ==
    /\ At(c, "hot")
    /\ IF ~Grants(c, RESERVED_LOCK) THEN pager_unlock(c, FALSE)
       ELSE IF journal.exists THEN SetLock(c, RESERVED_LOCK) /\ Goto(c, "syncHot")
       ELSE UNCHANGED lock /\ Goto(c, "validate")
    /\ UNCHANGED <<diskVars, countVars>>

(* No RESERVED lock is taken on the way to the EXCLUSIVE one. *)
LockHotJournal(c) ==
    /\ At(c, "hot")
    /\ IF ~Grants(c, EXCLUSIVE_LOCK) THEN pager_unlock(c, FALSE)
       ELSE IF journal.exists THEN SetLock(c, EXCLUSIVE_LOCK) /\ Goto(c, "syncHot")
       ELSE UNCHANGED lock /\ Goto(c, "validate")
    /\ UNCHANGED <<diskVars, countVars>>

Beyond(n) == [p \in {q \in Pages : q > n} |-> 0]

SyncHotJournal(c) ==
    /\ At(c, "syncHot")
    /\ SyncJournalFile
    /\ pager' = [pager EXCEPT ![c].pc = "truncate",
                              ![c].todo = IF journal.header = "blank" THEN {} ELSE journal.marked]
    /\ UNCHANGED <<file, unsynced, lock, countVars>>

(* The cache is kept if the change counter of the file is still the one     *)
(* that the pager remembers.                                                *)
KeptCache_NotChecked(c) == pager[c].cache

KeptCache(c) == IF pager[c].dbFileVers = file[1] THEN pager[c].cache ELSE <<>>

(* After the validation lockBtree() fetches page 1. *)
Validate(c) ==
    /\ At(c, "validate")
    /\ LET kept == KeptCache(c)
           n == Size(file)
           cached == 1 \in DOMAIN kept
       IN  pager' = [pager EXCEPT ![c] =
               [pager[c] EXCEPT !.eState = "READER", !.pc = "idle", !.dbSize = n,
                   !.cache = IF cached THEN kept ELSE Put(kept, 1, file[1]),
                   !.dbFileVers = IF cached \/ n = 0 THEN @ ELSE file[1]]]
    /\ UNCHANGED <<diskVars, lock, countVars>>

EndRead(c) ==
    /\ pager[c].eState = "READER" /\ At(c, "idle")
    /\ pager_unlock(c, FALSE)
    /\ UNCHANGED <<diskVars, countVars>>

(* readDbPage() *)
ReadPage(c, p) ==
    /\ pager[c].eState \in Writing \cup {"READER"} /\ At(c, "idle")
    /\ p <= pager[c].dbSize /\ p \notin DOMAIN pager[c].cache
    /\ pager' = [pager EXCEPT ![c].cache = Put(@, p, file[p])]
    /\ UNCHANGED <<diskVars, lock, countVars>>

-----------------------------------------------------------------------------
(* mc_sqlite3PagerBegin(): BEGIN IMMEDIATE takes a RESERVED lock, and BEGIN *)
(* EXCLUSIVE waits for an EXCLUSIVE one after it.                           *)

Started(c) == IF pager[c].dbSize = 0 THEN "newDatabase" ELSE "idle"

Begin(c, exFlag) ==
    /\ pager[c].eState = "READER" /\ At(c, "idle")
    /\ txns < MaxTxns
    /\ Grants(c, RESERVED_LOCK)
    /\ SetLock(c, RESERVED_LOCK)
    /\ txns' = txns + 1
    /\ pager' = [pager EXCEPT ![c].pc = IF exFlag THEN "exclusive" ELSE Started(c),
                              ![c].eState = IF exFlag THEN @ ELSE "WRITER_LOCKED"]
    /\ UNCHANGED <<diskVars, crashes>>

(* One attempt at an EXCLUSIVE lock, which keeps the PENDING one if it fails. *)
TryExclusive_NoPending(c) ==
    SetLock(c, IF Grants(c, EXCLUSIVE_LOCK) THEN EXCLUSIVE_LOCK ELSE lock[c])

TryExclusive(c) ==
    SetLock(c, IF Grants(c, EXCLUSIVE_LOCK) THEN EXCLUSIVE_LOCK ELSE PENDING_LOCK)

BeginExclusive(c) ==
    /\ At(c, "exclusive")
    /\ TryExclusive(c)
    /\ pager' = IF lock'[c] = EXCLUSIVE_LOCK
                THEN [pager EXCEPT ![c].eState = "WRITER_LOCKED", ![c].pc = Started(c)]
                ELSE pager
    /\ UNCHANGED <<diskVars, countVars>>

(* The busy handler has had enough. *)
BeginGivesUp(c) ==
    /\ At(c, "exclusive") /\ lock[c] = PENDING_LOCK
    /\ pager_unlock(c, FALSE)
    /\ UNCHANGED <<diskVars, countVars>>

-----------------------------------------------------------------------------
(* pager_write(): the journal is opened and the old page is added to it     *)
(* before the page changes.                                                 *)

OpenJournal(c) ==
    [NoJournal EXCEPT !.exists = TRUE, !.size = pager[c].dbSize]

(* mc_sqlite3PagerWrite() of page p, and then the new content v. *)
PutPage(c, p, v, extra) ==
    LET opening == pager[c].eState = "WRITER_LOCKED"
        j == IF opening THEN OpenJournal(c) ELSE journal
        old == IF p \in DOMAIN pager[c].cache THEN pager[c].cache[p] ELSE file[p]
    IN  /\ journal' = IF p > j.size \/ p \in DOMAIN j.records THEN j
                      ELSE [j EXCEPT !.records = Put(@, p, old)]
        /\ forgotten' = IF opening /\ ~journal.exists THEN forgotten \cup {NoJournal} ELSE forgotten
        /\ pager' = [pager EXCEPT ![c] =
               [extra EXCEPT !.eState = IF opening THEN "WRITER_CACHEMOD" ELSE @,
                             !.cache = Put(@, p, v), !.dirty = @ \cup {p},
                             !.dbSize = IF p > @ THEN p ELSE @]]

Idle(c) == [pager[c] EXCEPT !.pc = "idle"]

NewDatabase(c) ==
    /\ At(c, "newDatabase")
    /\ PutPage(c, 1, 0, Idle(c))
    /\ UNCHANGED <<file, unsynced, lock, countVars>>

WritePage(c, p) ==
    /\ InTransaction(c) /\ pager[c].eState # "WRITER_FINISHED"
    /\ p > 1 /\ p <= pager[c].dbSize + 1
    /\ PutPage(c, p, txns, Idle(c))
    /\ UNCHANGED <<file, unsynced, lock, countVars>>

-----------------------------------------------------------------------------
(* Dirty pages go to the file when the cache is full (pagerStress) and when *)
(* the transaction commits (mc_sqlite3PagerCommitPhaseOne); in between is   *)
(* syncJournal().                                                           *)

NeedSync(p) == p \in DOMAIN journal.records \ journal.synced

Spill(c, p) ==
    /\ InTransaction(c) /\ p \in pager[c].dirty \ {1}
    /\ pager' = [pager EXCEPT ![c].todo = {p}, ![c].committing = FALSE,
           ![c].pc = IF NeedSync(p) \/ pager[c].eState = "WRITER_CACHEMOD" THEN "lock" ELSE "write"]
    /\ UNCHANGED <<diskVars, lock, countVars>>

(* pager_incr_changecounter() *)
CommitPhaseOne(c) ==
    /\ InTransaction(c) /\ pager[c].eState \in {"WRITER_CACHEMOD", "WRITER_DBMOD"}
    /\ LET next == [pager[c] EXCEPT !.pc = "lock", !.committing = TRUE, !.changeCountDone = TRUE,
                        !.todo = pager[c].dirty \cup IF pager[c].changeCountDone THEN {} ELSE {1}]
       IN  IF pager[c].changeCountDone
           THEN pager' = [pager EXCEPT ![c] = next] /\ UNCHANGED <<journal, forgotten>>
           ELSE PutPage(c, 1, pager[c].dbFileVers + 1, next)
    /\ UNCHANGED <<file, unsynced, lock, countVars>>

LockForWriting(c) ==
    /\ At(c, "lock")
    /\ TryExclusive(c)
    /\ pager' = IF lock'[c] = EXCLUSIVE_LOCK THEN [pager EXCEPT ![c].pc = "mark"] ELSE pager
    /\ UNCHANGED <<diskVars, countVars>>

(* SQLITE_BUSY: the page is not spilled, or the transaction stays open. *)
LockGivesUp(c) ==
    /\ At(c, "lock") /\ lock[c] = PENDING_LOCK
    /\ Goto(c, "idle")
    /\ UNCHANGED <<diskVars, lock, countVars>>

MarkRecords(c) ==
    /\ At(c, "mark")
    /\ journal' = [journal EXCEPT !.header = IF @ = "blank" THEN "written" ELSE @,
                                  !.marked = DOMAIN journal.records]
    /\ Goto(c, "sync")
    /\ UNCHANGED <<file, unsynced, forgotten, lock, countVars>>

SyncJournal_Skipped(c) ==
    /\ At(c, "sync")
    /\ pager' = [pager EXCEPT ![c].pc = "write", ![c].eState = "WRITER_DBMOD"]
    /\ UNCHANGED <<diskVars, lock, countVars>>

SyncJournal(c) ==
    /\ At(c, "sync")
    /\ SyncJournalFile
    /\ pager' = [pager EXCEPT ![c].pc = "write", ![c].eState = "WRITER_DBMOD"]
    /\ UNCHANGED <<file, unsynced, lock, countVars>>

(* pager_write_pagelist(); a page that was spilled leaves the cache. *)
WriteDirtyPage(c, p) ==
    /\ At(c, "write") /\ p \in pager[c].todo
    /\ LET rest == pager[c].todo \ {p}
           commit == pager[c].committing
       IN  pager' = [pager EXCEPT ![c] =
               [pager[c] EXCEPT !.todo = rest,
                         !.dirty = IF commit THEN @ ELSE @ \ {p},
                         !.dbFileVers = IF p = 1 THEN pager[c].cache[1] ELSE @,
                         !.cache = IF commit THEN @ ELSE [q \in DOMAIN @ \ {p} |-> @[q]],
                         !.pc = IF rest # {} THEN @ ELSE IF commit THEN "syncFile" ELSE "idle"]]
    /\ WriteFile([q \in {p} |-> pager[c].cache[p]])
    /\ UNCHANGED <<journal, forgotten, lock, countVars>>

SyncDatabase(c) ==
    /\ At(c, "syncFile")
    /\ SyncFile
    /\ pager' = [pager EXCEPT ![c].eState = "WRITER_FINISHED", ![c].pc = "idle", ![c].dirty = {}]
    /\ UNCHANGED <<journal, forgotten, lock, countVars>>

(* The transaction is committed with the deletion of the journal. *)
CommitPhaseTwo(c) ==
    /\ InTransaction(c) /\ pager[c].eState \in {"WRITER_LOCKED", "WRITER_FINISHED"}
    /\ IF pager[c].eState = "WRITER_LOCKED" THEN UNCHANGED <<journal, forgotten>> ELSE DeleteJournal
    /\ pager' = [pager EXCEPT ![c] = Ended(c, "READER", "idle", pager[c].dbSize)]
    /\ SetLock(c, SHARED_LOCK)
    /\ UNCHANGED <<file, unsynced, countVars>>

-----------------------------------------------------------------------------
(* mc_sqlite3PagerRollback() and the playback of the journal, hot or not.  *)

Rollback(c) ==
    /\ pager[c].eState \in Writing /\ pager[c].pc \in {"idle", "mustRollback"}
    /\ pager[c].eState = "WRITER_FINISHED" => Fails("attached")
    /\ IF pager[c].eState = "WRITER_LOCKED"
       THEN /\ pager' = [pager EXCEPT ![c] = Ended(c, "READER", "idle", pager[c].dbSize)]
            /\ SetLock(c, SHARED_LOCK)
       ELSE /\ pager' = [pager EXCEPT ![c].pc = "truncate", ![c].todo = DOMAIN journal.records]
            /\ UNCHANGED lock
    /\ UNCHANGED <<diskVars, countVars>>

(* Before the file was modified, it is not touched. *)
Untouched(c) == pager[c].eState = "WRITER_CACHEMOD"

TruncateFile(c) ==
    /\ At(c, "truncate")
    /\ IF Untouched(c) \/ journal.header = "blank"
       THEN UNCHANGED <<file, unsynced>>
       ELSE WriteFile(Beyond(journal.size))
    /\ Goto(c, "playback")
    /\ UNCHANGED <<journal, forgotten, lock, countVars>>

(* Of a hot journal no page is in the cache; of another one only what is    *)
(* synced goes to the file.                                                 *)
PlaybackOnePage(c, p) ==
    /\ At(c, "playback") /\ p \in pager[c].todo
    /\ LET hot == pager[c].eState = "OPEN"
           old == journal.records[p]
           cached == ~hot /\ p \in DOMAIN pager[c].cache
       IN  /\ IF ~Untouched(c) /\ (hot \/ p \in journal.synced)
              THEN WriteFile([q \in {p} |-> old]) ELSE UNCHANGED <<file, unsynced>>
           /\ pager' = [pager EXCEPT ![c] =
                  [pager[c] EXCEPT !.todo = @ \ {p},
                            !.cache = IF hot THEN <<>> ELSE IF cached THEN Put(@, p, old) ELSE @,
                            !.dbFileVers = IF p = 1 /\ cached THEN old ELSE @]]
    /\ UNCHANGED <<journal, forgotten, lock, countVars>>

SyncPlayback(c) ==
    /\ At(c, "playback") /\ pager[c].todo = {}
    /\ IF Untouched(c) THEN UNCHANGED <<file, unsynced>> ELSE SyncFile
    /\ Goto(c, "finalize")
    /\ UNCHANGED <<journal, forgotten, lock, countVars>>

EndPlayback(c) ==
    /\ At(c, "finalize")
    /\ DeleteJournal
    /\ pager' = [pager EXCEPT ![c] =
           IF pager[c].eState = "OPEN" THEN [pager[c] EXCEPT !.pc = "validate"]
           ELSE Ended(c, "READER", "idle", journal.size)]
    /\ SetLock(c, SHARED_LOCK)
    /\ UNCHANGED <<file, unsynced, countVars>>

-----------------------------------------------------------------------------
(* Failures.                                                               *)

(* A write, a sync or a delete fails.  A commit is rolled back before its   *)
(* second phase; every other failure needs the pager to forget its cache.   *)
(* The lock is SHARED again when the journal could not be deleted.          *)
IOError(c) ==
    /\ Fails("io")
    /\ \/ /\ pager[c].pc \in {"mark", "sync", "write", "syncFile"}
          /\ IF pager[c].committing THEN Goto(c, "mustRollback")
             ELSE pager' = [pager EXCEPT ![c] = Failed(c)]
          /\ UNCHANGED lock
       \/ /\ InTransaction(c) /\ pager[c].eState = "WRITER_FINISHED"
          /\ pager' = [pager EXCEPT ![c] = Failed(c)]
          /\ SetLock(c, SHARED_LOCK)
       \/ /\ pager[c].pc \in {"truncate", "playback", "finalize"}
          /\ IF pager[c].eState = "OPEN" THEN pager_unlock(c, TRUE)
             ELSE /\ pager' = [pager EXCEPT ![c] = Failed(c)]
                  /\ SetLock(c, IF At(c, "finalize") THEN SHARED_LOCK ELSE lock[c])
    /\ UNCHANGED <<diskVars, countVars>>

(* The rollback of a pager that failed is left to whoever reads next. *)
ErrorUnlock(c) ==
    /\ pager[c].eState = "ERROR"
    /\ pager_unlock(c, TRUE)
    /\ UNCHANGED <<diskVars, countVars>>

ProcessCrash(P) ==
    /\ crashes < MaxCrashes
    /\ crashes' = crashes + 1
    /\ pager' = [c \in Conns |-> IF c \in P THEN NewPager ELSE pager[c]]
    /\ lock' = [c \in Conns |-> IF c \in P THEN NO_LOCK ELSE lock[c]]
    /\ UNCHANGED <<diskVars, txns>>

(* What a power failure may leave of a journal.  A record whose sync was    *)
(* not over is whole or, by its checksum, the end of the journal; pages     *)
(* under such records were not written yet, so any of them may be missing.  *)
Survivors(j) ==
    LET Left(h, M) == [j EXCEPT !.header = h, !.records = [p \in M |-> @[p]],
                                !.marked = M, !.synced = M]
    IN  (IF j.header = "synced" THEN {} ELSE {Left("blank", {})})
        \cup (IF j.header = "blank" THEN {}
              ELSE {Left("synced", M) : M \in {S \in SUBSET j.marked : j.synced \subseteq S}})

PowerFailure ==
    /\ Fails("power")
    /\ crashes < MaxCrashes
    /\ crashes' = crashes + 1
    /\ pager' = [c \in Conns |-> NewPager]
    /\ lock' = [c \in Conns |-> NO_LOCK]
    /\ \E j \in forgotten \cup {journal} : journal' \in Survivors(j)
    /\ file' \in {f \in [Pages -> UNION {unsynced[p] \cup {file[p]} : p \in Pages}] :
                      \A p \in Pages : f[p] \in unsynced[p] \cup {file[p]}}
    /\ unsynced' = [p \in Pages |-> {}]
    /\ forgotten' = {}
    /\ UNCHANGED txns

-----------------------------------------------------------------------------
(* What a pager goes on with once it has begun. *)
Step(c) ==
    \/ JournalExists(c) \/ JournalInUse(c) \/ DiscardJournal(c) \/ JournalFirstByte(c)
    \/ LockHotJournal(c) \/ SyncHotJournal(c) \/ Validate(c)
    \/ BeginExclusive(c) \/ NewDatabase(c)
    \/ LockForWriting(c) \/ MarkRecords(c) \/ SyncJournal(c)
    \/ \E p \in Pages : WriteDirtyPage(c, p) \/ PlaybackOnePage(c, p)
    \/ SyncDatabase(c) \/ TruncateFile(c) \/ SyncPlayback(c) \/ EndPlayback(c)
    \/ ErrorUnlock(c)

(* What a connection may ask of it. *)
Request(c) ==
    \/ SharedLock(c) \/ EndRead(c)
    \/ \E exFlag \in BOOLEAN : Begin(c, exFlag)
    \/ \E p \in Pages : ReadPage(c, p) \/ WritePage(c, p) \/ Spill(c, p)
    \/ CommitPhaseOne(c) \/ CommitPhaseTwo(c) \/ Rollback(c)
    \/ BeginGivesUp(c) \/ LockGivesUp(c)

Next ==
    \/ \E c \in Conns : Step(c) \/ Request(c) \/ IOError(c)
    \/ \E P \in Processes : ProcessCrash(P)
    \/ PowerFailure

Spec == Init /\ [][Next]_vars

(* A pager goes on with what it has begun, trying again for the lock it     *)
(* waits for (pager_wait_on_lock()), and whoever reads will end.  Nobody    *)
(* has to give up, to commit or to ask for anything.                        *)
FairSpec == Spec /\ \A c \in Conns : WF_vars(Step(c)) /\ WF_vars(EndRead(c))

-----------------------------------------------------------------------------
(* Properties.                                                             *)

PCs ==
    {"idle", "exists", "reserved", "discard", "firstByte", "hot", "syncHot", "validate",
     "exclusive", "newDatabase", "lock", "mark", "sync", "write", "syncFile",
     "mustRollback", "truncate", "playback", "finalize"}

PagerState ==
    [eState : Writing \cup {"OPEN", "READER", "ERROR"}, pc : PCs, cache : PartialContent,
     dirty : SUBSET Pages, dbSize : 0 .. PageCount, dbFileVers : 0 .. MaxTxns,
     changeCountDone : BOOLEAN, committing : BOOLEAN, todo : SUBSET Pages]

(* Every variable keeps its type. *)
TypeOK ==
    /\ file \in [Pages -> 0 .. MaxTxns]
    /\ unsynced \in [Pages -> SUBSET (0 .. MaxTxns)]
    /\ journal \in Journal /\ forgotten \subseteq Journal
    /\ lock \in [Conns -> NO_LOCK .. EXCLUSIVE_LOCK]
    /\ pager \in [Conns -> PagerState]
    /\ txns \in 0 .. MaxTxns /\ crashes \in 0 .. MaxCrashes

Undoing == {"truncate", "playback", "finalize"}

Checking == {"exists", "reserved", "discard", "firstByte", "hot", "validate"}

WritingFile == {"mark", "sync", "write", "syncFile"}

(* The lock that what a pager does calls for. *)
NeededLock(c) ==
    IF \/ pager[c].pc \in WritingFile \cup {"syncHot"}
       \/ pager[c].eState = "OPEN" /\ pager[c].pc \in Undoing
       \/ pager[c].eState \in {"WRITER_DBMOD", "WRITER_FINISHED"}
    THEN EXCLUSIVE_LOCK
    ELSE IF pager[c].eState \in Writing \/ At(c, "exclusive") THEN RESERVED_LOCK
    ELSE IF pager[c].eState = "READER" \/ pager[c].pc \in Checking THEN SHARED_LOCK
    ELSE NO_LOCK

(* Invariants 12 and 13 of the notes on the design of the pager: the file   *)
(* is read under a SHARED lock and written under an EXCLUSIVE one; and the  *)
(* locks mean what they say, whatever fails and whoever ends.               *)
LockedAsNeeded ==
    /\ \A c \in Conns : lock[c] >= NeededLock(c)
    /\ \A c \in Conns : lock[c] = EXCLUSIVE_LOCK => \A o \in Others(c) : lock[o] = NO_LOCK
    /\ \A c, o \in Conns : lock[c] >= RESERVED_LOCK /\ lock[o] >= RESERVED_LOCK => c = o

(* Invariants 1 and 5 of the same notes: a page that the file, or a power   *)
(* failure, may show with other content than the committed one has that     *)
(* content in the synced part of the journal, or did not exist; so, once    *)
(* the journal is deleted, everything written is synced.                    *)
WriteAhead ==
    Committed[1] # 0 => \A p \in Pages :
        unsynced[p] \cup {file[p]} # {Committed[p]} =>
            /\ journal.header = "synced"
            /\ p \in journal.synced \/ p > journal.size

(* A commit or a spill waiting for the EXCLUSIVE lock is not kept waiting   *)
(* by readers that come and go: the PENDING lock keeps new ones out.        *)
WriterIsServed == \A c \in Conns : At(c, "lock") ~> ~At(c, "lock")

Sees(c) == pager[c].eState \in Writing \cup {"READER"} /\ pager[c].pc \notin Undoing

Seen(c) == [p \in Pages |-> IF p \in DOMAIN pager[c].cache THEN pager[c].cache[p] ELSE file[p]]

(* Invariant 9 of the notes: a change of the file makes the other           *)
(* connections flush their caches, so that what a reader has in its cache   *)
(* is the committed content.  It fails with FaultsWhenEmpty.                *)
CachesFlushed ==
    \A c \in Conns :
        Sees(c) /\ pager[c].eState = "READER" =>
            \A p \in DOMAIN pager[c].cache : pager[c].cache[p] = Committed[p]

CONSTANTS Nobody, NoView

(* What AtomicDatabase says of no connection and no content. *)
ASSUME MappingAssumption == Nobody \notin Conns /\ NoView \notin [Pages -> Nat]

(* What was committed before a journal was deleted that may be there again. *)
Older == {Restore(file, j) : j \in {i \in forgotten : Hot(i)}} \ {Committed}

(* The member of a set that has one at most. *)
The(S, none) == IF S = {} THEN none ELSE CHOOSE x \in S : TRUE

Earlier == The(Older, Committed)

Views == [c \in Conns |-> IF Sees(c) THEN Seen(c) ELSE NoView]

Writers == {c \in Conns : Sees(c) /\ pager[c].eState \in Writing}

Writer == The(Writers, Nobody)

Database == INSTANCE AtomicDatabase WITH
    db <- Committed, previous <- Earlier, view <- Views, writer <- Writer

(* The pagers are an atomic database: a transaction sees one committed      *)
(* content, takes effect at once or not at all, survives the end of its     *)
(* process and, but for the last one, a power failure.                      *)
IsAtomicDatabase == Database!Spec
=============================================================================

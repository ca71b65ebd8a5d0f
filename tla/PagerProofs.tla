----------------------------- MODULE PagerProofs -----------------------------
(* Proofs about Pager, for any connections, processes, sizes and faults:    *)
(* first the locks; then, on top of them, what the file, its journal and    *)
(* the caches hold, as long as FaultsWhenEmpty does not hold; and that this *)
(* makes them an AtomicDatabase.                                            *)
EXTENDS Pager, TLAPS, WellFoundedInduction

LOCKS == NO_LOCK .. EXCLUSIVE_LOCK

Fields ==
    {"eState", "pc", "cache", "dirty", "dbSize", "dbFileVers", "changeCountDone", "committing",
     "todo"}

ShapeInv ==
    /\ lock \in [Conns -> LOCKS]
    /\ DOMAIN pager = Conns /\ pager = [c \in Conns |-> pager[c]]
    /\ \A c \in Conns : DOMAIN pager[c] = Fields

(* Before the first write of a transaction no page is dirty. *)
Clean(p) == p.eState \in {"OPEN", "READER", "WRITER_LOCKED"} => p.dirty = {}

(* What a pager may be doing in each of its states. *)
StateInv ==
    \A c \in Conns :
      /\ Clean(pager[c])
      /\ \/ pager[c].eState = "OPEN" /\ pager[c].pc \in {"idle", "syncHot"} \cup Checking \cup Undoing
         \/ pager[c].eState = "READER" /\ pager[c].pc \in {"idle", "exclusive"}
         \/ /\ pager[c].eState \in Writing
            /\ pager[c].pc \in {"idle", "newDatabase", "lock", "mustRollback"}
                               \cup WritingFile \cup Undoing
         \/ pager[c].eState = "ERROR" /\ pager[c].pc = "idle"

IInv == ShapeInv /\ StateInv /\ LockedAsNeeded

(* The locks with their numbers. *)
USE DEF Clean

LEMMA LockNumbers ==
    /\ NO_LOCK = 0 /\ SHARED_LOCK = 1 /\ RESERVED_LOCK = 2 /\ PENDING_LOCK = 3 /\ EXCLUSIVE_LOCK = 4
    /\ LOCKS = 0 .. 4
  BY DEF NO_LOCK, SHARED_LOCK, RESERVED_LOCK, PENDING_LOCK, EXCLUSIVE_LOCK, LOCKS

LEMMA InitIInv == Init => IInv
<1> SUFFICES ASSUME Init PROVE IInv
  OBVIOUS
<1>1. \A c \in Conns : pager[c] = NewPager /\ lock[c] = 0
  BY LockNumbers DEF Init
<1>2. ShapeInv
  BY LockNumbers DEF Init, ShapeInv, NewPager, Fields
<1>3. StateInv
  BY <1>1 DEF StateInv, NewPager
<1>4. LockedAsNeeded
  <2>1. \A c \in Conns : NeededLock(c) = 0
    BY <1>1, LockNumbers DEF NeededLock, At, NewPager, Writing, Undoing, WritingFile, Checking
  <2> QED
    BY <1>1, <2>1, LockNumbers DEF LockedAsNeeded
<1> QED
  BY <1>2, <1>3, <1>4 DEF IInv

(* A pager in state p may hold the lock l. *)
Ready(p, l) ==
  /\ Clean(p)
  /\ \/ p.eState = "OPEN" /\ p.pc = "idle"
     \/ p.eState = "OPEN" /\ p.pc \in Checking /\ l >= 1
     \/ p.eState = "OPEN" /\ p.pc \in {"syncHot"} \cup Undoing /\ l = 4
     \/ p.eState = "READER" /\ p.pc = "idle" /\ l >= 1
     \/ p.eState = "READER" /\ p.pc = "exclusive" /\ l >= 2
     \/ /\ p.eState \in Writing
        /\ p.pc \in {"idle", "newDatabase", "lock", "mustRollback"} \cup Undoing
        /\ l >= 2 /\ (p.eState \in {"WRITER_DBMOD", "WRITER_FINISHED"} => l = 4)
     \/ p.eState \in Writing /\ p.pc \in WritingFile /\ l = 4
     \/ p.eState = "ERROR" /\ p.pc = "idle"

(* Every pager is in such a state. *)
LEMMA IsReady ==
    ASSUME IInv, NEW c \in Conns
    PROVE  Ready(pager[c], lock[c]) /\ lock[c] \in 0 .. 4 /\ DOMAIN pager[c] = Fields
<1> USE DEF IInv
<1>1. lock[c] \in 0 .. 4 /\ DOMAIN pager[c] = Fields /\ Clean(pager[c])
  BY LockNumbers DEF ShapeInv, StateInv
<1>2. lock[c] >= NeededLock(c)
  BY DEF LockedAsNeeded
<1> USE LockNumbers DEF NeededLock, At, Writing, Undoing, WritingFile, Checking
<1>3. CASE pager[c].eState = "OPEN"
  <2>1. pager[c].pc \in {"idle", "syncHot"} \cup Checking \cup Undoing
    BY <1>3 DEF StateInv
  <2> QED
    BY <1>1, <1>2, <1>3, <2>1 DEF Ready
<1>4. CASE pager[c].eState = "READER"
  <2>1. pager[c].pc \in {"idle", "exclusive"}
    BY <1>4 DEF StateInv
  <2>2. NeededLock(c) = IF pager[c].pc = "idle" THEN 1 ELSE 2
    BY <1>4, <2>1
  <2>3. lock[c] >= 1 /\ (pager[c].pc = "exclusive" => lock[c] >= 2)
    BY <1>1, <1>2, <2>2
  <2> QED
    BY <1>1, <1>4, <2>1, <2>3 DEF Ready
<1>5. CASE pager[c].eState \in Writing
  <2>1. pager[c].pc \in {"idle", "newDatabase", "lock", "mustRollback"} \cup WritingFile \cup Undoing
    BY <1>5 DEF StateInv
  <2>2. lock[c] >= 2
    BY <1>1, <1>2, <1>5, <2>1
  <2>3. pager[c].eState \in {"WRITER_DBMOD", "WRITER_FINISHED"} => lock[c] = 4
    BY <1>1, <1>2, <1>5, <2>1
  <2>4. pager[c].pc \in WritingFile => lock[c] = 4
    BY <1>1, <1>2, <1>5, <2>1
  <2> QED
    BY <1>1, <1>5, <2>1, <2>2, <2>3, <2>4 DEF Ready
<1>6. CASE pager[c].eState = "ERROR" /\ pager[c].pc = "idle"
  BY <1>1, <1>6 DEF Ready
<1> QED
  BY <1>1, <1>3, <1>4, <1>5, <1>6 DEF StateInv

(* One pager goes to another state, with another lock or the same. *)
LEMMA Effect ==
    ASSUME IInv, NEW c \in Conns, NEW p, NEW l \in 0 .. 4,
           pager' = [pager EXCEPT ![c] = p], lock' = [lock EXCEPT ![c] = l],
           DOMAIN p = Fields, Ready(p, l),
           \/ l <= lock[c]
           \/ l = 1 /\ \A o \in Others(c) : lock[o] < 3
           \/ l = 2 /\ \A o \in Others(c) : lock[o] < 2
           \/ l = 3 /\ lock[c] >= 2
           \/ l = 4 /\ \A o \in Others(c) : lock[o] = 0
    PROVE  IInv'
<1> USE DEF IInv
<1>1. DOMAIN pager = Conns /\ pager'[c] = p /\ \A o \in Conns \ {c} : pager'[o] = pager[o]
  BY DEF ShapeInv
<1>2. /\ lock \in [Conns -> 0 .. 4] /\ lock' \in [Conns -> 0 .. 4]
      /\ lock'[c] = l /\ \A o \in Conns \ {c} : lock'[o] = lock[o]
  BY LockNumbers DEF ShapeInv
<1>3. ShapeInv'
  BY <1>1, <1>2, LockNumbers DEF ShapeInv
<1>4. StateInv'
  BY <1>1 DEF StateInv, Ready
<1>5. \A o \in Conns : lock'[o] >= NeededLock(o)'
  <2>1. \A o \in Conns \ {c} : NeededLock(o)' = NeededLock(o)
    BY <1>1 DEF NeededLock, At
  <2>2. l >= NeededLock(c)'
    BY <1>1, LockNumbers DEF Ready, NeededLock, At, Writing, Undoing, WritingFile, Checking
  <2> QED
    BY <1>2, <2>1, <2>2 DEF LockedAsNeeded
<1>6. \A o \in Conns : lock[o] = 4 => \A q \in Others(o) : lock[q] = 0
  BY LockNumbers DEF LockedAsNeeded
<1>7. \A o, q \in Conns : lock[o] >= 2 /\ lock[q] >= 2 => o = q
  BY LockNumbers DEF LockedAsNeeded
<1>8. \A o \in Conns : lock'[o] = 4 => \A q \in Others(o) : lock'[q] = 0
  BY <1>2, <1>6, <1>7 DEF Others
<1>9. \A o, q \in Conns : lock'[o] >= 2 /\ lock'[q] >= 2 => o = q
  BY <1>2, <1>6, <1>7 DEF Others
<1>10. LockedAsNeeded'
  BY <1>5, <1>8, <1>9, LockNumbers DEF LockedAsNeeded, Others
<1> QED
  BY <1>3, <1>4, <1>10

LEMMA SameLock ==
    ASSUME IInv, NEW c \in Conns, NEW p, pager' = [pager EXCEPT ![c] = p], lock' = lock,
           DOMAIN p = Fields, Ready(p, lock[c])
    PROVE  IInv'
<1>1. lock[c] \in 0 .. 4 /\ lock' = [lock EXCEPT ![c] = lock[c]] /\ lock[c] <= lock[c]
  BY IsReady DEF IInv, ShapeInv
<1> QED
  BY <1>1, Effect

-----------------------------------------------------------------------------
(* The actions. *)

LEMMA PCChange ==
    ASSUME IInv, NEW c \in Conns, NEW pc
    PROVE  LET p == [pager[c] EXCEPT !.pc = pc]
           IN  /\ DOMAIN p = Fields /\ p.pc = pc
               /\ p.eState = pager[c].eState /\ p.dirty = pager[c].dirty
               /\ [pager EXCEPT ![c].pc = pc] = [pager EXCEPT ![c] = p]
  BY IsReady DEF Fields

LEMMA Unlocking ==
    ASSUME IInv, NEW c \in Conns, NEW error, pager_unlock(c, error)
    PROVE  IInv'
<1> DEFINE p == [NewPager EXCEPT !.cache = IF error THEN <<>> ELSE pager[c].cache,
                                 !.dbFileVers = pager[c].dbFileVers]
<1>1. pager' = [pager EXCEPT ![c] = p] /\ lock' = [lock EXCEPT ![c] = 0]
  BY LockNumbers DEF pager_unlock, SetLock
<1>2. DOMAIN p = Fields /\ p.eState = "OPEN" /\ p.pc = "idle" /\ p.dirty = {}
  BY DEF NewPager, Fields
<1>3. 0 \in 0 .. 4 /\ 0 <= lock[c]
  BY IsReady
<1> HIDE DEF p
<1>4. Ready(p, 0) /\ DOMAIN p = Fields
  BY <1>2 DEF Ready
<1> QED
  BY <1>1, <1>3, <1>4, Effect

LEMMA SharedLockInv == ASSUME IInv, NEW c \in Conns, SharedLock(c) PROVE IInv'
<1> DEFINE p == [pager[c] EXCEPT !.pc = "exists"]
<1>1. DOMAIN p = Fields /\ p.eState = "OPEN" /\ p.pc = "exists" /\ p.dirty = {}
      /\ pager' = [pager EXCEPT ![c] = p]
  BY PCChange, IsReady DEF SharedLock, Goto, Ready
<1>2. lock' = [lock EXCEPT ![c] = 1] /\ \A o \in Others(c) : lock[o] < 3
  BY LockNumbers DEF SharedLock, SetLock, Grants
<1> HIDE DEF p
<1>3. Ready(p, 1) /\ 1 \in 0 .. 4
  BY <1>1 DEF Ready, Checking
<1> QED
  BY <1>1, <1>2, <1>3, Effect

(* hasHotJournal() and the validation of the cache. *)
LEMMA CheckingInv ==
    ASSUME IInv, NEW c \in Conns,
           JournalExists(c) \/ JournalInUse(c) \/ DiscardJournal(c) \/ JournalFirstByte(c)
    PROVE  IInv'
<1>1. At(c, "exists") \/ At(c, "reserved") \/ At(c, "discard") \/ At(c, "firstByte")
  BY DEF JournalExists, JournalInUse, DiscardJournal, JournalFirstByte
<1>2. pager[c].eState = "OPEN" /\ pager[c].dirty = {} /\ lock[c] >= 1
  BY <1>1, IsReady DEF Ready, At, Checking, Undoing, Writing, WritingFile
<1>3. PICK pc \in Checking : Goto(c, pc) /\ lock' = lock
  BY DEF JournalExists, JournalInUse, DiscardJournal, JournalFirstByte, Checking
<1> DEFINE p == [pager[c] EXCEPT !.pc = pc]
<1>4. DOMAIN p = Fields /\ p.eState = "OPEN" /\ p.pc = pc /\ p.dirty = {}
      /\ pager' = [pager EXCEPT ![c] = p]
  BY <1>2, <1>3, PCChange DEF Goto
<1> HIDE DEF p
<1> QED
  BY <1>2, <1>3, <1>4, SameLock DEF Ready

LEMMA LockHotJournalInv == ASSUME IInv, NEW c \in Conns, LockHotJournal(c) PROVE IInv'
<1>1. pager[c].eState = "OPEN" /\ pager[c].dirty = {} /\ lock[c] >= 1
  BY IsReady DEF LockHotJournal, Ready, At, Checking, Undoing, Writing, WritingFile
<1>2. CASE pager_unlock(c, FALSE)
  BY <1>2, Unlocking
<1>3. CASE Goto(c, "syncHot") /\ SetLock(c, EXCLUSIVE_LOCK) /\ Grants(c, EXCLUSIVE_LOCK)
  <2> DEFINE p == [pager[c] EXCEPT !.pc = "syncHot"]
  <2>1. DOMAIN p = Fields /\ p.eState = "OPEN" /\ p.pc = "syncHot" /\ p.dirty = {}
      /\ pager' = [pager EXCEPT ![c] = p]
    BY <1>1, <1>3, PCChange DEF Goto
  <2>2. lock' = [lock EXCEPT ![c] = 4] /\ \A o \in Others(c) : lock[o] = 0
    BY <1>3, LockNumbers DEF SetLock, Grants
  <2> HIDE DEF p
  <2>3. Ready(p, 4) /\ 4 \in 0 .. 4
    BY <2>1 DEF Ready
  <2> QED
    BY <2>1, <2>2, <2>3, Effect
<1>4. CASE Goto(c, "validate") /\ lock' = lock
  <2> DEFINE p == [pager[c] EXCEPT !.pc = "validate"]
  <2>1. DOMAIN p = Fields /\ p.eState = "OPEN" /\ p.pc = "validate" /\ p.dirty = {}
      /\ pager' = [pager EXCEPT ![c] = p]
    BY <1>1, <1>4, PCChange DEF Goto
  <2> HIDE DEF p
  <2> QED
    BY <1>1, <1>4, <2>1, SameLock DEF Ready, Checking
<1> QED
  BY <1>2, <1>3, <1>4 DEF LockHotJournal

LEMMA SyncHotJournalInv == ASSUME IInv, NEW c \in Conns, SyncHotJournal(c) PROVE IInv'
<1>1. pager[c].eState = "OPEN" /\ pager[c].dirty = {} /\ lock[c] = 4
  BY IsReady DEF SyncHotJournal, Ready, At, Checking, Undoing, Writing, WritingFile
<1> DEFINE todo == IF journal.header = "blank" THEN {} ELSE journal.marked
           p == [[pager[c] EXCEPT !.pc = "truncate"] EXCEPT !.todo = todo]
<1> HIDE DEF todo
<1>2. DOMAIN p = Fields /\ p.eState = "OPEN" /\ p.pc = "truncate" /\ p.dirty = {}
  BY <1>1, IsReady DEF Fields
<1>3. pager' = [pager EXCEPT ![c] = p] /\ lock' = lock
  BY IsReady DEF SyncHotJournal, Fields, todo
<1> HIDE DEF p
<1> QED
  BY <1>1, <1>2, <1>3, SameLock DEF Ready, Undoing

LEMMA ValidateInv == ASSUME IInv, NEW c \in Conns, Validate(c) PROVE IInv'
<1> DEFINE kept == KeptCache(c)
           n == Size(file)
           cached == 1 \in DOMAIN kept
           cache == IF cached THEN kept ELSE Put(kept, 1, file[1])
           p == [pager[c] EXCEPT !.eState = "READER", !.pc = "idle", !.dbSize = n, !.cache = cache,
                                 !.dbFileVers = IF cached \/ n = 0 THEN @ ELSE file[1]]
<1>1. pager[c].eState = "OPEN" /\ pager[c].dirty = {} /\ lock[c] >= 1
  BY IsReady DEF Validate, Ready, At, Checking, Undoing, Writing, WritingFile
<1>2. pager' = [pager EXCEPT ![c] = p] /\ lock' = lock
  BY DEF Validate
<1> HIDE DEF kept, n, cached, cache
<1>3. DOMAIN p = Fields /\ p.eState = "READER" /\ p.pc = "idle" /\ p.dirty = {}
  BY <1>1, IsReady DEF Fields
<1> HIDE DEF p
<1> QED
  BY <1>1, <1>2, <1>3, SameLock DEF Ready

LEMMA ReadPageInv == ASSUME IInv, NEW c \in Conns, NEW q \in Pages, ReadPage(c, q) PROVE IInv'
<1> DEFINE p == [pager[c] EXCEPT !.cache = Put(@, q, file[q])]
<1>1. DOMAIN p = Fields /\ p.eState = pager[c].eState /\ p.pc = pager[c].pc
      /\ p.dirty = pager[c].dirty
  BY IsReady DEF Fields
<1>2. pager' = [pager EXCEPT ![c] = p] /\ lock' = lock
  BY IsReady DEF ReadPage, Fields
<1> HIDE DEF p
<1>3. Ready(p, lock[c])
  BY <1>1, IsReady DEF Ready
<1> QED
  BY <1>1, <1>2, <1>3, SameLock

LEMMA StartedState ==
    ASSUME NEW c \in Conns
    PROVE  Started(c) \in {"newDatabase", "idle"}
  BY DEF Started

LEMMA BeginInv == ASSUME IInv, NEW c \in Conns, NEW exFlag \in BOOLEAN, Begin(c, exFlag) PROVE IInv'
<1> DEFINE pc == IF exFlag THEN "exclusive" ELSE Started(c)
           eState == IF exFlag THEN "READER" ELSE "WRITER_LOCKED"
           p == [[pager[c] EXCEPT !.pc = pc] EXCEPT !.eState = eState]
<1>1. DOMAIN p = Fields /\ p.eState = eState /\ p.pc = pc /\ p.dirty = {}
  BY IsReady DEF Begin, Ready, Fields
<1>2. pager' = [pager EXCEPT ![c] = p]
  BY IsReady DEF Begin, Fields
<1>3. lock' = [lock EXCEPT ![c] = 2] /\ \A o \in Others(c) : lock[o] < 2
  BY LockNumbers DEF Begin, SetLock, Grants
<1>4. Ready(p, 2) /\ 2 \in 0 .. 4
  BY <1>1, StartedState DEF Ready, Writing
<1> HIDE DEF p, pc, eState
<1> QED
  BY <1>1, <1>2, <1>3, <1>4, Effect

(* One attempt at an EXCLUSIVE lock. *)
LEMMA Trying ==
    ASSUME IInv, NEW c \in Conns, TryExclusive(c), lock[c] >= 2
    PROVE  \/ lock' = [lock EXCEPT ![c] = 4] /\ lock'[c] = 4 /\ \A o \in Others(c) : lock[o] = 0
           \/ lock' = [lock EXCEPT ![c] = 3] /\ lock'[c] = 3 /\ lock[c] # 4
<1>1. lock \in [Conns -> 0 .. 4]
  BY LockNumbers DEF IInv, ShapeInv
<1>2. CASE Grants(c, EXCLUSIVE_LOCK)
  <2>1. \A o \in Others(c) : lock[o] = 0
    BY <1>2, LockNumbers DEF Grants
  <2> QED
    BY <1>1, <1>2, <2>1, LockNumbers DEF TryExclusive, SetLock
<1>3. CASE ~Grants(c, EXCLUSIVE_LOCK)
  <2>1. PICK o \in Others(c) : lock[o] # 0
    BY <1>3, LockNumbers DEF Grants
  <2>2. lock[c] # 4
    BY <2>1, LockNumbers DEF IInv, LockedAsNeeded
  <2> QED
    BY <1>1, <1>3, <2>2, LockNumbers DEF TryExclusive, SetLock
<1> QED
  BY <1>2, <1>3

LEMMA BeginExclusiveInv == ASSUME IInv, NEW c \in Conns, BeginExclusive(c) PROVE IInv'
<1>1. pager[c].eState = "READER" /\ pager[c].pc = "exclusive" /\ lock[c] >= 2
  BY IsReady DEF BeginExclusive, Ready, At, Checking, Undoing, Writing, WritingFile
<1>2. CASE lock' = [lock EXCEPT ![c] = 4] /\ lock'[c] = 4 /\ \A o \in Others(c) : lock[o] = 0
  <2> DEFINE pc == Started(c)
             p == [[pager[c] EXCEPT !.eState = "WRITER_LOCKED"] EXCEPT !.pc = pc]
  <2>1. DOMAIN p = Fields /\ p.eState = "WRITER_LOCKED" /\ p.pc = pc /\ p.dirty = {}
    BY <1>1, IsReady DEF Ready, Fields
  <2>2. pager' = [pager EXCEPT ![c] = p]
    <3>1. pager' = [pager EXCEPT ![c].eState = "WRITER_LOCKED", ![c].pc = pc]
      BY <1>2, LockNumbers DEF BeginExclusive
    <3> HIDE DEF pc
    <3> QED
      BY <3>1, IsReady DEF Fields
  <2> HIDE DEF p
  <2>3. Ready(p, 4) /\ 4 \in 0 .. 4
    BY <2>1, StartedState DEF Ready, Writing
  <2> QED
    BY <1>2, <2>1, <2>2, <2>3, Effect
<1>3. CASE lock' = [lock EXCEPT ![c] = 3] /\ lock'[c] = 3
  <2>1. pager' = [pager EXCEPT ![c] = pager[c]]
    BY <1>3, LockNumbers DEF BeginExclusive, IInv, ShapeInv
  <2>2. Ready(pager[c], 3) /\ DOMAIN pager[c] = Fields /\ 3 \in 0 .. 4
    BY <1>1, IsReady DEF Ready
  <2> QED
    BY <1>1, <1>3, <2>1, <2>2, Effect
<1> QED
  BY <1>1, <1>2, <1>3, Trying DEF BeginExclusive

(* pager_write() leaves the rest of the pager as it is given. *)
LEMMA Putting ==
    ASSUME IInv, NEW c \in Conns, NEW q, NEW v, NEW extra, PutPage(c, q, v, extra), lock' = lock,
           DOMAIN extra = Fields, extra.eState = pager[c].eState, extra.eState \in Writing,
           extra.pc \in {"idle", "lock"}, lock[c] >= 2,
           extra.eState \in {"WRITER_DBMOD", "WRITER_FINISHED"} => lock[c] = 4
    PROVE  IInv'
<1> DEFINE eState == IF pager[c].eState = "WRITER_LOCKED" THEN "WRITER_CACHEMOD" ELSE extra.eState
           cache == Put(extra.cache, q, v)
           dirty == extra.dirty \cup {q}
           dbSize == IF q > extra.dbSize THEN q ELSE extra.dbSize
           p == [extra EXCEPT !.eState = eState, !.cache = cache, !.dirty = dirty, !.dbSize = dbSize]
<1>1. pager' = [pager EXCEPT ![c] = p]
  BY DEF PutPage
<1>2. eState \in Writing /\ (eState \in {"WRITER_DBMOD", "WRITER_FINISHED"} => lock[c] = 4)
  BY DEF Writing
<1>5. eState # "WRITER_LOCKED"
  OBVIOUS
<1> HIDE DEF eState, cache, dirty, dbSize
<1>3. DOMAIN p = Fields /\ p.eState = eState /\ p.pc = extra.pc
  BY DEF Fields
<1> HIDE DEF p
<1>4. Ready(p, lock[c])
  BY <1>2, <1>3, <1>5 DEF Ready, Writing
<1> QED
  BY <1>1, <1>3, <1>4, SameLock

LEMMA WriterState ==
    ASSUME IInv, NEW c \in Conns, pager[c].eState \in Writing
    PROVE  /\ lock[c] >= 2
           /\ pager[c].eState \in {"WRITER_DBMOD", "WRITER_FINISHED"} => lock[c] = 4
           /\ pager[c].pc \in WritingFile => lock[c] = 4
  BY IsReady DEF Ready, Writing, WritingFile, Undoing

LEMMA WritingInv ==
    ASSUME IInv, NEW c \in Conns, NewDatabase(c) \/ \E q \in Pages : WritePage(c, q)
    PROVE  IInv'
<1>1. pager[c].eState \in Writing
  BY IsReady
     DEF NewDatabase, WritePage, InTransaction, Ready, At, Checking, Undoing, Writing, WritingFile
<1>2. DOMAIN Idle(c) = Fields /\ Idle(c).eState = pager[c].eState /\ Idle(c).pc = "idle"
  BY IsReady DEF Idle, Fields
<1>3. lock' = lock /\ \E q, v : PutPage(c, q, v, Idle(c))
  BY DEF NewDatabase, WritePage
<1> QED
  BY <1>1, <1>2, <1>3, WriterState, Putting

LEMMA CommitPhaseOneInv == ASSUME IInv, NEW c \in Conns, CommitPhaseOne(c) PROVE IInv'
<1> DEFINE todo == pager[c].dirty \cup IF pager[c].changeCountDone THEN {} ELSE {1}
           p == [pager[c] EXCEPT !.pc = "lock", !.committing = TRUE, !.changeCountDone = TRUE,
                                 !.todo = todo]
<1>1. pager[c].eState \in Writing
  BY DEF CommitPhaseOne, InTransaction
<1>5. pager[c].eState # "WRITER_LOCKED"
  BY DEF CommitPhaseOne
<1>2. /\ lock' = lock
      /\ \/ pager' = [pager EXCEPT ![c] = p]
         \/ PutPage(c, 1, pager[c].dbFileVers + 1, p)
  BY DEF CommitPhaseOne
<1> HIDE DEF todo
<1>3. DOMAIN p = Fields /\ p.eState = pager[c].eState /\ p.pc = "lock"
  BY IsReady DEF Fields
<1> HIDE DEF p
<1>4. Ready(p, lock[c])
  BY <1>1, <1>3, <1>5, WriterState DEF Ready, Writing
<1> QED
  BY <1>1, <1>2, <1>3, <1>4, WriterState, SameLock, Putting

LEMMA SpillInv == ASSUME IInv, NEW c \in Conns, NEW q \in Pages, Spill(c, q) PROVE IInv'
<1> DEFINE pc == IF NeedSync(q) \/ pager[c].eState = "WRITER_CACHEMOD" THEN "lock" ELSE "write"
           p == [[[pager[c] EXCEPT !.todo = {q}] EXCEPT !.committing = FALSE] EXCEPT !.pc = pc]
<1>1. pager[c].eState \in Writing /\ pager[c].pc = "idle"
  BY DEF Spill, InTransaction, At
<1>2. pager' = [pager EXCEPT ![c].todo = {q}, ![c].committing = FALSE, ![c].pc = pc] /\ lock' = lock
  BY DEF Spill
<1>3. \/ pc = "lock"
      \/ pc = "write" /\ pager[c].eState # "WRITER_CACHEMOD"
  OBVIOUS
<1>6. pager[c].eState # "WRITER_LOCKED"
  BY IsReady DEF Spill, Ready
<1> HIDE DEF pc
<1>4. DOMAIN p = Fields /\ p.eState = pager[c].eState /\ p.pc = pc /\ pager' = [pager EXCEPT ![c] = p]
  BY <1>2, IsReady DEF Fields
<1> HIDE DEF p
<1>5. Ready(p, lock[c])
  BY <1>1, <1>3, <1>4, <1>6, WriterState DEF Ready, Writing, WritingFile
<1> QED
  BY <1>2, <1>4, <1>5, SameLock

LEMMA LockForWritingInv == ASSUME IInv, NEW c \in Conns, LockForWriting(c) PROVE IInv'
<1>1. pager[c].eState \in Writing /\ pager[c].pc = "lock" /\ lock[c] >= 2
  BY IsReady DEF LockForWriting, Ready, At, Checking, Undoing, Writing, WritingFile
<1>2. CASE lock' = [lock EXCEPT ![c] = 4] /\ lock'[c] = 4 /\ \A o \in Others(c) : lock[o] = 0
  <2> DEFINE p == [pager[c] EXCEPT !.pc = "mark"]
  <2>1. pager' = [pager EXCEPT ![c].pc = "mark"]
    BY <1>2, LockNumbers DEF LockForWriting
  <2>2. DOMAIN p = Fields /\ p.pc = "mark" /\ p.eState = pager[c].eState /\ p.dirty = pager[c].dirty
        /\ pager' = [pager EXCEPT ![c] = p]
    BY <2>1, PCChange
  <2> HIDE DEF p
  <2>3. Ready(p, 4) /\ 4 \in 0 .. 4
    BY <1>1, <2>2, IsReady DEF Ready, WritingFile
  <2> QED
    BY <1>2, <2>2, <2>3, Effect
<1>3. CASE lock' = [lock EXCEPT ![c] = 3] /\ lock'[c] = 3 /\ lock[c] # 4
  <2>1. pager' = [pager EXCEPT ![c] = pager[c]]
    BY <1>3, LockNumbers DEF LockForWriting, IInv, ShapeInv
  <2>2. Ready(pager[c], 3) /\ DOMAIN pager[c] = Fields /\ 3 \in 0 .. 4
    BY <1>1, <1>3, IsReady DEF Ready, Writing, WritingFile
  <2> QED
    BY <1>1, <1>3, <2>1, <2>2, Effect
<1> QED
  BY <1>1, <1>2, <1>3, Trying DEF LockForWriting

(* A step that changes nothing of its pager but what it is doing. *)
LEMMA Going ==
    ASSUME IInv, NEW c \in Conns, NEW pc, Goto(c, pc), lock' = lock,
           \/ pager[c].eState \in Writing /\ pc \in {"idle", "mustRollback"} \cup Undoing
           \/ pager[c].eState \in Writing /\ pc \in WritingFile /\ lock[c] = 4
           \/ pager[c].eState = "OPEN" /\ pc \in Undoing /\ lock[c] = 4
    PROVE  IInv'
<1> DEFINE p == [pager[c] EXCEPT !.pc = pc]
<1>1. DOMAIN p = Fields /\ p.pc = pc /\ p.eState = pager[c].eState /\ p.dirty = pager[c].dirty
      /\ pager' = [pager EXCEPT ![c] = p]
  BY PCChange DEF Goto
<1> HIDE DEF p
<1>2. Clean(p)
  BY <1>1, IsReady DEF Ready
<1>3. Ready(p, lock[c])
  BY <1>1, <1>2, WriterState DEF Ready
<1> QED
  BY <1>1, <1>3, SameLock

LEMMA LockGivesUpInv == ASSUME IInv, NEW c \in Conns, LockGivesUp(c) PROVE IInv'
<1>1. pager[c].eState \in Writing
  BY IsReady DEF LockGivesUp, Ready, At, Checking, Undoing, Writing, WritingFile
<1> QED
  BY <1>1, Going DEF LockGivesUp

LEMMA WritingFileState ==
    ASSUME IInv, NEW c \in Conns, pager[c].pc \in WritingFile
    PROVE  pager[c].eState \in Writing /\ lock[c] = 4
  BY IsReady DEF Ready, Checking, Undoing, Writing, WritingFile

LEMMA MarkRecordsInv == ASSUME IInv, NEW c \in Conns, MarkRecords(c) PROVE IInv'
<1>1. pager[c].pc \in WritingFile /\ "sync" \in WritingFile
  BY DEF MarkRecords, At, WritingFile
<1> QED
  BY <1>1, WritingFileState, Going DEF MarkRecords

LEMMA SyncJournalInv == ASSUME IInv, NEW c \in Conns, SyncJournal(c) PROVE IInv'
<1> DEFINE p == [[pager[c] EXCEPT !.pc = "write"] EXCEPT !.eState = "WRITER_DBMOD"]
<1>1. pager[c].pc \in WritingFile
  BY DEF SyncJournal, At, WritingFile
<1>2. DOMAIN p = Fields /\ p.eState = "WRITER_DBMOD" /\ p.pc = "write"
  BY IsReady DEF Fields
<1>3. pager' = [pager EXCEPT ![c] = p] /\ lock' = lock
  BY IsReady DEF SyncJournal, Fields
<1> HIDE DEF p
<1> QED
  BY <1>1, <1>2, <1>3, WritingFileState, SameLock DEF Ready, Writing, WritingFile

LEMMA WriteDirtyPageInv ==
    ASSUME IInv, NEW c \in Conns, NEW q \in Pages, WriteDirtyPage(c, q)
    PROVE  IInv'
<1> DEFINE rest == pager[c].todo \ {q}
           commit == pager[c].committing
           dirty == IF commit THEN pager[c].dirty ELSE pager[c].dirty \ {q}
           vers == IF q = 1 THEN pager[c].cache[1] ELSE pager[c].dbFileVers
           cache == IF commit THEN pager[c].cache
                    ELSE [x \in DOMAIN pager[c].cache \ {q} |-> pager[c].cache[x]]
           pc == IF rest # {} THEN pager[c].pc ELSE IF commit THEN "syncFile" ELSE "idle"
           p == [pager[c] EXCEPT !.todo = rest, !.dirty = dirty, !.dbFileVers = vers,
                                 !.cache = cache, !.pc = pc]
<1>1. pager[c].pc = "write" /\ pager[c].pc \in WritingFile
  BY DEF WriteDirtyPage, At, WritingFile
<1>2. pager' = [pager EXCEPT ![c] = p] /\ lock' = lock
  BY DEF WriteDirtyPage
<1>3. pc \in {"idle", "syncFile", "write"}
  BY <1>1
<1>4. pager[c].eState = "WRITER_LOCKED" => dirty = {}
  BY IsReady DEF Ready
<1> HIDE DEF rest, commit, dirty, vers, cache, pc
<1>5. DOMAIN p = Fields /\ p.eState = pager[c].eState /\ p.pc = pc /\ p.dirty = dirty
  BY IsReady DEF Fields
<1> HIDE DEF p
<1>6. Ready(p, lock[c])
  BY <1>1, <1>3, <1>4, <1>5, WritingFileState DEF Ready, Writing, WritingFile
<1> QED
  BY <1>2, <1>5, <1>6, SameLock

LEMMA SyncDatabaseInv == ASSUME IInv, NEW c \in Conns, SyncDatabase(c) PROVE IInv'
<1> DEFINE p == [[[pager[c] EXCEPT !.eState = "WRITER_FINISHED"] EXCEPT !.pc = "idle"] EXCEPT !.dirty = {}]
<1>1. pager[c].pc \in WritingFile
  BY DEF SyncDatabase, At, WritingFile
<1>2. DOMAIN p = Fields /\ p.eState = "WRITER_FINISHED" /\ p.pc = "idle"
  BY IsReady DEF Fields
<1>3. pager' = [pager EXCEPT ![c] = p] /\ lock' = lock
  BY IsReady DEF SyncDatabase, Fields
<1> HIDE DEF p
<1>4. Ready(p, lock[c])
  BY <1>1, <1>2, WritingFileState DEF Ready, Writing
<1> QED
  BY <1>2, <1>3, <1>4, SameLock

(* The end of a transaction leaves a reader behind. *)
LEMMA Ending ==
    ASSUME IInv, NEW c \in Conns, NEW n, lock[c] >= 1,
           pager' = [pager EXCEPT ![c] = Ended(c, "READER", "idle", n)],
           SetLock(c, SHARED_LOCK)
    PROVE  IInv'
<1> DEFINE p == Ended(c, "READER", "idle", n)
<1>1. DOMAIN p = Fields /\ p.eState = "READER" /\ p.pc = "idle" /\ p.dirty = {}
  BY DEF Ended, NewPager, Fields
<1>2. lock' = [lock EXCEPT ![c] = 1] /\ 1 \in 0 .. 4 /\ 1 <= lock[c]
  BY IsReady, LockNumbers DEF SetLock
<1>3. pager' = [pager EXCEPT ![c] = p]
  OBVIOUS
<1> HIDE DEF p
<1>4. Ready(p, 1)
  BY <1>1 DEF Ready
<1> QED
  BY <1>1, <1>2, <1>3, <1>4, Effect

LEMMA CommitPhaseTwoInv == ASSUME IInv, NEW c \in Conns, CommitPhaseTwo(c) PROVE IInv'
<1>1. lock[c] >= 2 /\ lock[c] \in 0 .. 4
  BY WriterState, IsReady DEF CommitPhaseTwo, InTransaction
<1>2. lock[c] >= 1
  BY <1>1
<1> QED
  BY <1>2, Ending DEF CommitPhaseTwo

LEMMA RollbackInv == ASSUME IInv, NEW c \in Conns, Rollback(c) PROVE IInv'
<1>1. pager[c].eState \in Writing /\ lock[c] >= 1
  <2>1. lock[c] >= 2 /\ lock[c] \in 0 .. 4
    BY WriterState, IsReady DEF Rollback
  <2> QED
    BY <2>1 DEF Rollback
<1>2. CASE pager[c].eState = "WRITER_LOCKED"
  BY <1>1, <1>2, Ending DEF Rollback
<1>3. CASE pager[c].eState # "WRITER_LOCKED"
  <2> DEFINE todo == DOMAIN journal.records
             p == [[pager[c] EXCEPT !.pc = "truncate"] EXCEPT !.todo = todo]
  <2>1. pager' = [pager EXCEPT ![c].pc = "truncate", ![c].todo = todo] /\ lock' = lock
    BY <1>3 DEF Rollback
  <2> HIDE DEF todo
  <2>2. DOMAIN p = Fields /\ p.eState = pager[c].eState /\ p.pc = "truncate"
        /\ pager' = [pager EXCEPT ![c] = p]
    BY <2>1, IsReady DEF Fields
  <2> HIDE DEF p
  <2>3. Ready(p, lock[c])
    BY <1>1, <1>3, <2>2, WriterState DEF Ready, Undoing, Writing
  <2> QED
    BY <2>1, <2>2, <2>3, SameLock
<1> QED
  BY <1>2, <1>3

(* Whoever plays a journal back writes the file, unless it need not. *)
LEMMA UndoingState ==
    ASSUME IInv, NEW c \in Conns, pager[c].pc \in Undoing
    PROVE  /\ lock[c] >= 2 /\ lock[c] \in 0 .. 4
           /\ \/ pager[c].eState = "OPEN" /\ pager[c].dirty = {} /\ lock[c] = 4
              \/ pager[c].eState \in Writing
<1>1. lock[c] \in 0 .. 4 /\ Ready(pager[c], lock[c])
  BY IsReady
<1>2. \/ pager[c].eState = "OPEN" /\ pager[c].dirty = {} /\ lock[c] = 4
      \/ pager[c].eState \in Writing
  BY <1>1 DEF Ready, Checking, Undoing, WritingFile
<1> QED
  BY <1>1, <1>2, WriterState

LEMMA TruncateFileInv == ASSUME IInv, NEW c \in Conns, TruncateFile(c) PROVE IInv'
<1>1. pager[c].pc \in Undoing /\ "playback" \in Undoing
  BY DEF TruncateFile, At, Undoing
<1> QED
  BY <1>1, UndoingState, Going DEF TruncateFile

LEMMA SyncPlaybackInv == ASSUME IInv, NEW c \in Conns, SyncPlayback(c) PROVE IInv'
<1>1. pager[c].pc \in Undoing /\ "finalize" \in Undoing
  BY DEF SyncPlayback, At, Undoing
<1> QED
  BY <1>1, UndoingState, Going DEF SyncPlayback

LEMMA PlaybackOnePageInv ==
    ASSUME IInv, NEW c \in Conns, NEW q \in Pages, PlaybackOnePage(c, q)
    PROVE  IInv'
<1> DEFINE hot == pager[c].eState = "OPEN"
           old == journal.records[q]
           cached == ~hot /\ q \in DOMAIN pager[c].cache
           cache == IF hot THEN <<>>
                    ELSE IF cached THEN Put(pager[c].cache, q, old) ELSE pager[c].cache
           vers == IF q = 1 /\ cached THEN old ELSE pager[c].dbFileVers
           todo == pager[c].todo \ {q}
           p == [pager[c] EXCEPT !.todo = todo, !.cache = cache, !.dbFileVers = vers]
<1>1. pager[c].pc \in Undoing
  BY DEF PlaybackOnePage, At, Undoing
<1>2. pager' = [pager EXCEPT ![c] = p] /\ lock' = lock
  BY DEF PlaybackOnePage
<1> HIDE DEF hot, old, cached, cache, vers, todo
<1>3. DOMAIN p = Fields /\ p.eState = pager[c].eState /\ p.pc = pager[c].pc
      /\ p.dirty = pager[c].dirty
  BY IsReady DEF Fields
<1> HIDE DEF p
<1>4. Ready(p, lock[c])
  BY <1>3, IsReady DEF Ready
<1> QED
  BY <1>2, <1>3, <1>4, SameLock

LEMMA EndPlaybackInv == ASSUME IInv, NEW c \in Conns, EndPlayback(c) PROVE IInv'
<1>1. pager[c].pc \in Undoing
  BY DEF EndPlayback, At, Undoing
<1>2. lock[c] >= 1
  BY <1>1, UndoingState
<1>3. CASE pager[c].eState = "OPEN"
  <2> DEFINE p == [pager[c] EXCEPT !.pc = "validate"]
  <2>1. DOMAIN p = Fields /\ p.eState = "OPEN" /\ p.pc = "validate" /\ p.dirty = {}
    BY <1>1, <1>3, IsReady DEF Fields, Ready
  <2>2. pager' = [pager EXCEPT ![c] = p]
    BY <1>3 DEF EndPlayback
  <2>3. lock' = [lock EXCEPT ![c] = 1] /\ 1 \in 0 .. 4 /\ 1 <= lock[c]
    BY <1>2, IsReady, LockNumbers DEF EndPlayback, SetLock
  <2> HIDE DEF p
  <2>4. Ready(p, 1)
    BY <2>1 DEF Ready, Checking
  <2> QED
    BY <2>1, <2>2, <2>3, <2>4, Effect
<1>4. CASE pager[c].eState # "OPEN"
  BY <1>2, <1>4, Ending DEF EndPlayback
<1> QED
  BY <1>3, <1>4

-----------------------------------------------------------------------------
(* The failures. *)

LEMMA Failing ==
    ASSUME IInv, NEW c \in Conns, pager' = [pager EXCEPT ![c] = Failed(c)],
           lock' = lock \/ (SetLock(c, SHARED_LOCK) /\ lock[c] >= 1)
    PROVE  IInv'
<1> DEFINE p == Failed(c)
<1>1. DOMAIN p = Fields /\ p.eState = "ERROR" /\ p.pc = "idle"
  BY IsReady DEF Failed, Fields
<1>2. pager' = [pager EXCEPT ![c] = p]
  OBVIOUS
<1> HIDE DEF p
<1>3. Ready(p, 1) /\ Ready(p, lock[c])
  BY <1>1 DEF Ready
<1>4. CASE lock' = lock
  BY <1>1, <1>2, <1>3, <1>4, SameLock
<1>5. CASE SetLock(c, SHARED_LOCK) /\ lock[c] >= 1
  <2>1. lock' = [lock EXCEPT ![c] = 1] /\ 1 \in 0 .. 4 /\ 1 <= lock[c]
    BY <1>5, IsReady, LockNumbers DEF SetLock
  <2> QED
    BY <1>1, <1>2, <1>3, <2>1, Effect
<1> QED
  BY <1>4, <1>5

LEMMA IOErrorInv == ASSUME IInv, NEW c \in Conns, IOError(c) PROVE IInv'
<1>1. CASE /\ pager[c].pc \in WritingFile
           /\ IF pager[c].committing THEN Goto(c, "mustRollback")
              ELSE pager' = [pager EXCEPT ![c] = Failed(c)]
           /\ UNCHANGED lock
  BY <1>1, WritingFileState, Going, Failing
<1>2. CASE /\ InTransaction(c) /\ pager[c].eState = "WRITER_FINISHED"
           /\ pager' = [pager EXCEPT ![c] = Failed(c)]
           /\ SetLock(c, SHARED_LOCK)
  <2>1. lock[c] >= 1
    <3>1. lock[c] = 4
      BY <1>2, WriterState DEF InTransaction
    <3> QED
      BY <3>1
  <2> QED
    BY <1>2, <2>1, Failing
<1>3. CASE /\ pager[c].pc \in Undoing
           /\ IF pager[c].eState = "OPEN" THEN pager_unlock(c, TRUE)
              ELSE /\ pager' = [pager EXCEPT ![c] = Failed(c)]
                   /\ SetLock(c, IF At(c, "finalize") THEN SHARED_LOCK ELSE lock[c])
  <2>1. lock[c] >= 1
    BY <1>3, UndoingState
  <2>2. lock' = lock \/ SetLock(c, SHARED_LOCK) \/ pager_unlock(c, TRUE)
    BY <1>3 DEF SetLock, IInv, ShapeInv
  <2> QED
    BY <1>3, <2>1, <2>2, Failing, Unlocking
<1> QED
  BY <1>1, <1>2, <1>3 DEF IOError, WritingFile, Undoing

(* Pagers that begin anew hold no lock. *)
LEMMA Renewing ==
    ASSUME IInv, NEW P,
           pager' = [c \in Conns |-> IF c \in P THEN NewPager ELSE pager[c]],
           lock' = [c \in Conns |-> IF c \in P THEN NO_LOCK ELSE lock[c]]
    PROVE  IInv'
<1>1. DOMAIN NewPager = Fields /\ NewPager.eState = "OPEN" /\ NewPager.pc = "idle"
      /\ NewPager.dirty = {}
  BY DEF NewPager, Fields
<1>2. lock \in [Conns -> 0 .. 4] /\ \A c \in Conns : DOMAIN pager[c] = Fields
  BY LockNumbers DEF IInv, ShapeInv
<1>3. \A c \in Conns : lock'[c] = IF c \in P THEN 0 ELSE lock[c]
  BY LockNumbers
<1>4. \A c \in Conns : pager'[c] = IF c \in P THEN NewPager ELSE pager[c]
  OBVIOUS
<1>5. ShapeInv'
  BY <1>1, <1>2, LockNumbers DEF ShapeInv
<1>6. StateInv'
  BY <1>1, <1>4 DEF IInv, StateInv
<1>7. \A c \in Conns : lock'[c] >= NeededLock(c)'
  <2> TAKE c \in Conns
  <2>1. CASE c \in P
    <3>1. NeededLock(c)' = 0
      BY <1>1, <1>4, <2>1, LockNumbers
         DEF NeededLock, At, Writing, Undoing, WritingFile, Checking
    <3> QED
      BY <1>3, <2>1, <3>1
  <2>2. CASE c \notin P
    <3>1. NeededLock(c)' = NeededLock(c)
      BY <1>4, <2>2 DEF NeededLock, At
    <3> QED
      BY <1>3, <2>2, <3>1 DEF IInv, LockedAsNeeded
  <2> QED
    BY <2>1, <2>2
<1>8. /\ \A c \in Conns : lock'[c] = 4 => \A o \in Others(c) : lock'[o] = 0
      /\ \A c, o \in Conns : lock'[c] >= 2 /\ lock'[o] >= 2 => c = o
  BY <1>2, <1>3, LockNumbers DEF IInv, LockedAsNeeded, Others
<1> QED
  BY <1>5, <1>6, <1>7, <1>8, LockNumbers DEF IInv, LockedAsNeeded, Others

LEMMA NextIInv == IInv /\ [Next]_vars => IInv'
<1> SUFFICES ASSUME IInv, [Next]_vars PROVE IInv'
  OBVIOUS
<1>1. ASSUME NEW c \in Conns, Step(c) PROVE IInv'
  <2>1. CASE JournalExists(c) \/ JournalInUse(c) \/ DiscardJournal(c) \/ JournalFirstByte(c)
    BY <2>1, CheckingInv
  <2>2. CASE LockHotJournal(c) \/ SyncHotJournal(c) \/ Validate(c)
    BY <2>2, LockHotJournalInv, SyncHotJournalInv, ValidateInv
  <2>3. CASE BeginExclusive(c) \/ NewDatabase(c)
    BY <2>3, BeginExclusiveInv, WritingInv
  <2>4. CASE LockForWriting(c) \/ MarkRecords(c) \/ SyncJournal(c) \/ SyncDatabase(c)
    BY <2>4, LockForWritingInv, MarkRecordsInv, SyncJournalInv, SyncDatabaseInv
  <2>5. CASE \E q \in Pages : WriteDirtyPage(c, q) \/ PlaybackOnePage(c, q)
    BY <2>5, WriteDirtyPageInv, PlaybackOnePageInv
  <2>6. CASE TruncateFile(c) \/ SyncPlayback(c) \/ EndPlayback(c)
    BY <2>6, TruncateFileInv, SyncPlaybackInv, EndPlaybackInv
  <2>7. CASE ErrorUnlock(c)
    BY <2>7, Unlocking DEF ErrorUnlock
  <2> QED
    BY <1>1, <2>1, <2>2, <2>3, <2>4, <2>5, <2>6, <2>7 DEF Step
<1>2. ASSUME NEW c \in Conns, Request(c) PROVE IInv'
  <2>1. CASE SharedLock(c) \/ EndRead(c) \/ BeginGivesUp(c) \/ LockGivesUp(c)
    BY <2>1, SharedLockInv, Unlocking, LockGivesUpInv DEF EndRead, BeginGivesUp
  <2>2. CASE \E exFlag \in BOOLEAN : Begin(c, exFlag)
    BY <2>2, BeginInv
  <2>3. CASE \E q \in Pages : ReadPage(c, q) \/ WritePage(c, q) \/ Spill(c, q)
    BY <2>3, ReadPageInv, WritingInv, SpillInv
  <2>4. CASE CommitPhaseOne(c) \/ CommitPhaseTwo(c) \/ Rollback(c)
    BY <2>4, CommitPhaseOneInv, CommitPhaseTwoInv, RollbackInv
  <2> QED
    BY <1>2, <2>1, <2>2, <2>3, <2>4 DEF Request
<1>3. ASSUME NEW c \in Conns, IOError(c) PROVE IInv'
  BY <1>3, IOErrorInv
<1>4. ASSUME NEW P \in Processes, ProcessCrash(P) PROVE IInv'
  BY <1>4, Renewing DEF ProcessCrash
<1>5. CASE PowerFailure
  <2>1. /\ pager' = [c \in Conns |-> IF c \in Conns THEN NewPager ELSE pager[c]]
        /\ lock' = [c \in Conns |-> IF c \in Conns THEN NO_LOCK ELSE lock[c]]
    BY <1>5 DEF PowerFailure
  <2> QED
    BY <2>1, Renewing
<1>6. CASE UNCHANGED vars
  BY <1>6 DEF vars, IInv, ShapeInv, StateInv, LockedAsNeeded, NeededLock, At
<1> QED
  BY <1>1, <1>2, <1>3, <1>4, <1>5, <1>6 DEF Next

(* Whatever fails and whoever ends, the file is read under a SHARED lock    *)
(* and written under an EXCLUSIVE one, and the locks exclude each other.    *)
THEOREM Locking == Spec => []LockedAsNeeded
<1>1. IInv => LockedAsNeeded
  BY DEF IInv
<1> QED
  BY <1>1, InitIInv, NextIInv, PTL DEF Spec

-----------------------------------------------------------------------------
(* What a pager in state p with the lock l may rely on: f is the file, u    *)
(* what a power failure may leave of it, j the journal, C the committed     *)
(* content.                                                                 *)
Resting == {"OPEN", "READER", "WRITER_LOCKED"}
Modifying == {"WRITER_CACHEMOD", "WRITER_DBMOD", "WRITER_FINISHED"}
GivenUp == Undoing \cup {"mustRollback"}

PagerType(p) ==
    /\ DOMAIN p.cache \subseteq Pages /\ \A q \in DOMAIN p.cache : p.cache[q] \in Nat
    /\ p.dirty \subseteq Pages /\ p.dbSize \in 0 .. PageCount /\ p.dbFileVers \in Nat

(* A cache with the version of the file holds its pages. *)
RestingOK(p, C) ==
    p.eState \in Resting =>
        /\ p.dirty = {} /\ ~p.changeCountDone /\ ~p.committing
        /\ \A q \in DOMAIN p.cache :
               p.dbFileVers <= C[1] /\ (p.dbFileVers = C[1] => p.cache[q] = C[q])

ReadingOK(p, C) ==
    p.eState \in {"READER", "WRITER_LOCKED"} =>
        /\ p.dbFileVers = C[1]
        /\ \A q \in Pages : q > p.dbSize => C[q] = 0
        /\ p.dbSize = 0 <=> C[1] = 0
        /\ p.eState = "WRITER_LOCKED" => p.pc = "newDatabase" \/ (p.pc = "idle" /\ p.dbSize # 0)

(* Nobody has to play back what these have seen. *)
Trusting(p, l) ==
    \/ p.eState \in {"READER", "WRITER_LOCKED"}
    \/ p.pc = "validate"
    \/ l \in {2, 3}

QuietOK(p, l, j) == Trusting(p, l) => j.header = "blank"

Concluding(p) ==
    /\ p.eState \in {"WRITER_DBMOD", "WRITER_FINISHED"}
    /\ p.committing /\ p.pc \in {"write", "syncFile", "idle"}

VersionOK(p, C) == C[1] = 0 => p.dbFileVers = 0 \/ Concluding(p)

HotOK(p, f, u, j, C) ==
    /\ p.pc = "discard" => \A q \in Pages : f[q] = 0
    /\ p.pc = "syncHot" => j.exists
    /\ p.eState = "OPEN" /\ p.pc \in Undoing =>
         /\ j.exists /\ j.header # "written"
         /\ j.synced = j.marked /\ p.todo \subseteq j.marked
         /\ p.pc = "truncate" => p.todo = j.marked
         /\ p.pc # "truncate" => \A q \in Pages : q \notin p.todo => f[q] = C[q]
         /\ p.pc = "finalize" => p.todo = {} /\ \A q \in Pages : u[q] = {}

(* The journal of a transaction holds the committed content. *)
JournalOK(p, j, C) ==
    p.eState \in Modifying =>
        /\ j.exists
        /\ p.pc \in {"idle", "lock"} \cup WritingFile \cup GivenUp
        /\ p.eState = "WRITER_CACHEMOD" => j.header # "synced" /\ p.pc \notin {"write", "syncFile"}
        /\ p.eState = "WRITER_CACHEMOD" /\ p.pc \in {"idle", "lock", "mark"} => j.header = "blank"
        /\ p.eState # "WRITER_CACHEMOD" => j.header = "synced"
        /\ p.eState = "WRITER_FINISHED" => p.pc \in {"idle"} \cup Undoing
        /\ p.pc = "sync" => j.header # "blank" /\ j.marked = DOMAIN j.records
        /\ \A q \in DOMAIN j.records : j.records[q] = C[q]
        /\ \A q \in Pages : q > j.size => C[q] = 0
        /\ j.size = 0 <=> C[1] = 0
        /\ \A q \in DOMAIN p.cache : q <= j.size /\ q \notin DOMAIN j.records => p.cache[q] = C[q]

Active(p) == p.eState \in Modifying /\ p.pc \notin GivenUp

(* What is dirty is in the cache and in the journal, what is not is in the file. *)
DirtyOK(p, f, j) ==
    Active(p) =>
        /\ p.dirty \subseteq DOMAIN p.cache
        /\ \A q \in p.dirty : q <= p.dbSize /\ (q \in DOMAIN j.records \/ q > j.size)
        /\ \A q \in Pages : q > p.dbSize => f[q] = 0
        /\ p.dbSize > 0
        /\ \A q \in DOMAIN p.cache : q \notin p.dirty => p.cache[q] = f[q]

(* What is about to be written. *)
TodoOK(p, f, j) ==
    Active(p) =>
        /\ p.pc \in {"lock", "mark", "sync", "write"} =>
             /\ p.todo \subseteq p.dirty
             /\ ~p.committing => 1 \notin p.todo
        /\ p.committing /\ p.pc \in {"lock", "mark", "sync"} => p.todo = p.dirty
        /\ p.pc = "write" => \A q \in p.todo : q \in j.synced \/ q > j.size
        /\ p.committing /\ p.pc \in {"write", "syncFile"} =>
             \A q \in DOMAIN p.cache : q \notin p.todo => p.cache[q] = f[q]
        /\ p.pc = "syncFile" => p.todo = {} /\ p.committing

VersionWritten(p) == p.committing /\ p.pc \in {"write", "syncFile"} /\ 1 \notin p.todo

(* The change counter is one more once the commit has written page 1. *)
CountOK(p, C) ==
    Active(p) /\ p.eState # "WRITER_FINISHED" =>
        /\ p.changeCountDone => 1 \in p.dirty /\ p.cache[1] = C[1] + 1
        /\ p.committing => p.changeCountDone
        /\ VersionWritten(p) => p.dbFileVers = C[1] + 1
        /\ ~VersionWritten(p) => p.dbFileVers = C[1]

FinishedOK(p, f, u, j, C) ==
    p.eState = "WRITER_FINISHED" /\ Active(p) =>
        /\ p.dirty = {} /\ p.committing
        /\ p.dbFileVers = C[1] + 1 /\ f[1] = C[1] + 1
        /\ \A q \in Pages : u[q] = {}
        /\ 1 \in DOMAIN p.cache /\ (1 \in DOMAIN j.records \/ j.size = 0)

UndoneOK(p, f, u, j, C) ==
    p.eState \in Modifying /\ p.pc \in GivenUp =>
        /\ p.pc \in Undoing => p.todo \subseteq DOMAIN j.records
        /\ p.pc = "truncate" => p.todo = DOMAIN j.records
        /\ \/ p.dbFileVers = C[1]
           \/ /\ 1 \in DOMAIN p.cache /\ 1 \in DOMAIN j.records
              /\ p.pc \in Undoing => 1 \in p.todo
        /\ p.pc \in {"playback", "finalize"} =>
             /\ \A q \in Pages : q \notin p.todo => f[q] = C[q]
             /\ \A q \in DOMAIN p.cache : q \notin p.todo /\ q <= j.size => p.cache[q] = C[q]
        /\ p.pc = "finalize" =>
             /\ p.todo = {}
             /\ p.eState # "WRITER_CACHEMOD" => \A q \in Pages : u[q] = {}

PagerOK(p, l, f, u, j, C) ==
    /\ PagerType(p) /\ RestingOK(p, C) /\ ReadingOK(p, C) /\ QuietOK(p, l, j) /\ VersionOK(p, C)
    /\ HotOK(p, f, u, j, C) /\ JournalOK(p, j, C) /\ DirtyOK(p, f, j) /\ TodoOK(p, f, j)
    /\ CountOK(p, C) /\ FinishedOK(p, f, u, j, C) /\ UndoneOK(p, f, u, j, C)

(* The disk. *)
JournalType(j) ==
    /\ DOMAIN j = {"exists", "header", "size", "records", "marked", "synced"}
    /\ j.header \in {"blank", "written", "synced"} /\ j.size \in 0 .. PageCount
    /\ DOMAIN j.records \subseteq Pages /\ \A q \in DOMAIN j.records : j.records[q] \in Nat
    /\ j.synced \subseteq j.marked /\ j.marked \subseteq DOMAIN j.records
    /\ \A q \in DOMAIN j.records : q <= j.size
    /\ j.header = "blank" => j.marked = {}
    /\ ~j.exists => j.header = "blank"

DiskType(f, u, j, fg) ==
    /\ f \in [Pages -> Nat] /\ u \in [Pages -> SUBSET Nat]
    /\ \A i \in fg \cup {j} : JournalType(i)

(* Page q is in the synced part of the journal, or did not exist. *)
Kept(j, q) == j.header = "synced" /\ (q \in j.synced \/ q > j.size)

(* The first page of a file that is not empty stays. *)
NotEmpty(f, u, j) ==
    j.size > 0 /\ Hot(j) => f[1] # 0 /\ 0 \notin u[1] /\ (1 \in j.marked => j.records[1] # 0)

DiskOK(f, u, j, fg, C) ==
    /\ DiskType(f, u, j, fg)
    /\ \A q \in Pages : Kept(j, q) \/ f[q] = C[q]
    /\ C[1] # 0 => \A q \in Pages : Kept(j, q) \/ u[q] \subseteq {C[q]}
    /\ \A i \in fg \cup {j} : NotEmpty(f, u, i)
    /\ j.header = "synced" => fg = {}
    /\ C[1] = 0 => \A q \in Pages : C[q] = 0

DataInv ==
    /\ DiskOK(file, unsynced, journal, forgotten, Committed)
    /\ \A c \in Conns : PagerOK(pager[c], lock[c], file, unsynced, journal, Committed)

-----------------------------------------------------------------------------
(* Sizes and contents. *)

(* A set of numbers has a least one. *)
LEMMA LeastNumber ==
    ASSUME NEW S, S \subseteq Nat, S # {}
    PROVE  \E k \in S : \A m \in S : k <= m
<1>1. ASSUME NEW R, IsWellFoundedOn(R, Nat), \A x, y \in Nat : x < y => <<x, y>> \in R
      PROVE  \E k \in S : \A m \in S : k <= m
  <2>4. IsWellFoundedOn(R, Nat) /\ S \subseteq Nat /\ S # {}
    BY <1>1
  <2>5. \E x \in S : \A y \in S : ~ (<<y, x>> \in R)
    BY <2>4, WFMin, Zenon
  <2>1. PICK x \in S : \A y \in S : ~ (<<y, x>> \in R)
    BY <2>5
  <2>2. \A y \in S : ~ (y < x) /\ x \in Nat /\ y \in Nat
    BY <1>1, <2>1
  <2>3. \A y \in S : x <= y
    BY <2>2
  <2> QED
    BY <2>3
<1>2. IsWellFoundedOn(OpToRel(<, Nat), Nat)
  BY NatLessThanWellFounded, Zenon
<1>3. \A x, y \in Nat : x < y => <<x, y>> \in OpToRel(<, Nat)
  BY DEF OpToRel
<1> QED
  BY ONLY <1>1, <1>2, <1>3, Zenon

LEMMA SizeOfFile ==
    ASSUME NEW f \in [Pages -> Nat]
    PROVE  /\ Size(f) \in 0 .. PageCount
           /\ \A q \in Pages : q > Size(f) => f[q] = 0
           /\ Size(f) > 0 => f[Size(f)] # 0
<1> DEFINE S == {k \in Nat : k <= PageCount /\ \A q \in Pages : q > k => f[q] = 0}
<1> USE PagerAssumption DEF Pages
<1>1. PageCount \in S
  OBVIOUS
<1>2. S \subseteq Nat /\ S # {}
  BY <1>1
<1>3. PICK k \in S : \A m \in S : k <= m
  <2> HIDE DEF S
  <2> QED
    BY <1>2, LeastNumber
<1>4. k > 0 => f[k] # 0
  <2> SUFFICES ASSUME k > 0, f[k] = 0 PROVE FALSE
    OBVIOUS
  <2>1. k - 1 \in S
    OBVIOUS
  <2>2. k <= k - 1 /\ k \in Nat
    BY <1>3, <2>1
  <2> QED
    BY <2>2
<1>5. \E n \in 0 .. PageCount : (\A q \in Pages : q > n => f[q] = 0) /\ (n > 0 => f[n] # 0)
  BY <1>4
<1> QED
  BY <1>5 DEF Size

LEMMA FirstPage == 1 \in Pages
  BY PagerAssumption DEF Pages

LEMMA Content ==
    ASSUME NEW f \in [Pages -> Nat], NEW j, JournalType(j)
    PROVE  /\ Restore(f, j) \in [Pages -> Nat]
           /\ j.header = "blank" => Restore(f, j) = f
<1>1. \A q \in Pages : q \in j.marked => j.records[q] \in Nat
  BY DEF JournalType
<1>2. Restore(f, j) \in [Pages -> Nat]
  BY <1>1 DEF Restore, Pages
<1>3. j.header = "blank" => Restore(f, j) = f
  BY DEF Restore, Hot
<1> QED
  BY <1>2, <1>3

LEMMA CommittedType == DataInv => Committed \in [Pages -> Nat] /\ Committed[1] \in Nat
  BY Content, FirstPage DEF DataInv, DiskOK, DiskType, Committed

-----------------------------------------------------------------------------
(* The other pagers. *)

LEMMA ReaderKeeps ==
    ASSUME NEW p, NEW l \in 0 .. 4, Ready(p, l), l < 2,
           NEW f, NEW u, NEW j, NEW C, NEW u2, NEW j2, PagerOK(p, l, f, u, j, C),
           j.header = "blank" => j2.header = "blank"
    PROVE  PagerOK(p, l, f, u2, j2, C)
<1>1. \/ p.eState = "OPEN" /\ p.pc \in {"idle"} \cup Checking
      \/ p.eState = "READER" /\ p.pc = "idle"
      \/ p.eState = "ERROR" /\ p.pc = "idle"
  BY DEF Ready
<1> USE <1>1 DEF PagerOK, Checking, Undoing, Modifying, Active
<1>2. QuietOK(p, l, j2) /\ HotOK(p, f, u2, j2, C)
  BY DEF QuietOK, HotOK
<1>3. JournalOK(p, j2, C) /\ DirtyOK(p, f, j2) /\ TodoOK(p, f, j2)
  BY DEF JournalOK, DirtyOK, TodoOK
<1>4. FinishedOK(p, f, u2, j2, C) /\ UndoneOK(p, f, u2, j2, C)
  BY DEF FinishedOK, UndoneOK
<1> QED
  BY <1>2, <1>3, <1>4

LEMMA IdleKeeps ==
    ASSUME NEW p, Ready(p, 0),
           NEW f, NEW u, NEW j, NEW C, NEW f2, NEW u2, NEW j2, NEW C2, PagerOK(p, 0, f, u, j, C),
           C[1] \in Nat, C2[1] \in Nat, C2 = C \/ C2[1] > C[1]
    PROVE  PagerOK(p, 0, f2, u2, j2, C2)
<1>1. \/ p.eState = "OPEN" /\ p.pc = "idle"
      \/ p.eState = "ERROR" /\ p.pc = "idle"
  BY DEF Ready
<1> USE <1>1 DEF PagerOK, Undoing, Modifying, Active
<1>2. QuietOK(p, 0, j2) /\ HotOK(p, f2, u2, j2, C2) /\ ReadingOK(p, C2)
  BY DEF QuietOK, HotOK, ReadingOK, Trusting
<1>3. JournalOK(p, j2, C2) /\ DirtyOK(p, f2, j2) /\ TodoOK(p, f2, j2) /\ CountOK(p, C2)
  BY DEF JournalOK, DirtyOK, TodoOK, CountOK
<1>4. FinishedOK(p, f2, u2, j2, C2) /\ UndoneOK(p, f2, u2, j2, C2)
  BY DEF FinishedOK, UndoneOK
<1>5. RestingOK(p, C2)
  BY DEF RestingOK, PagerType
<1>6. VersionOK(p, C2)
  BY DEF VersionOK, Concluding
<1> QED
  BY <1>2, <1>3, <1>4, <1>5, <1>6

(* What a step of one pager does to the disk leaves the others alone. *)
Undisturbed(c) ==
    \/ UNCHANGED <<file, unsynced, journal>>
    \/ /\ \A o \in Others(c) : lock[o] < 2
       /\ file' = file /\ Committed' = Committed
       /\ journal.header = "blank" => journal'.header = "blank"
    \/ /\ \A o \in Others(c) : lock[o] = 0
       /\ Committed' = Committed \/ Committed'[1] > Committed[1]

LEMMA Moving ==
    ASSUME IInv, DataInv, NEW c \in Conns, NEW p, NEW l,
           pager' = [pager EXCEPT ![c] = p], lock' = [lock EXCEPT ![c] = l],
           Undisturbed(c),
           DiskOK(file, unsynced, journal, forgotten, Committed)',
           PagerOK(p, l, file', unsynced', journal', Committed')
    PROVE  DataInv'
<1>1. pager'[c] = p /\ lock'[c] = l /\ \A o \in Others(c) : pager'[o] = pager[o] /\ lock'[o] = lock[o]
  BY DEF IInv, ShapeInv, Others
<1>2. Committed[1] \in Nat /\ Committed'[1] \in Nat
  <2>1. Committed' \in [Pages -> Nat]
    BY Content DEF DiskOK, DiskType, Committed
  <2> QED
    BY <2>1, CommittedType, FirstPage
<1>3. ASSUME NEW o \in Others(c)
      PROVE  PagerOK(pager[o], lock[o], file', unsynced', journal', Committed')
  <2>1. /\ Ready(pager[o], lock[o]) /\ lock[o] \in 0 .. 4
        /\ PagerOK(pager[o], lock[o], file, unsynced, journal, Committed)
    BY IsReady DEF Others, DataInv
  <2>2. CASE UNCHANGED <<file, unsynced, journal>>
    BY <2>1, <2>2 DEF Committed
  <2>3. CASE /\ \A q \in Others(c) : lock[q] < 2
             /\ file' = file /\ Committed' = Committed
             /\ journal.header = "blank" => journal'.header = "blank"
    <3>1. PagerOK(pager[o], lock[o], file, unsynced', journal', Committed)
      BY <2>1, <2>3, ReaderKeeps
    <3> QED
      BY <2>3, <3>1
  <2>4. CASE /\ \A q \in Others(c) : lock[q] = 0
             /\ Committed' = Committed \/ Committed'[1] > Committed[1]
    <3>1. lock[o] = 0
      BY <2>4
    <3> QED
      BY <1>2, <2>1, <2>4, <3>1, IdleKeeps
  <2> QED
    BY <2>2, <2>3, <2>4 DEF Undisturbed
<1>4. \A o \in Conns : PagerOK(pager'[o], lock'[o], file', unsynced', journal', Committed')
  BY <1>1, <1>3 DEF Others
<1> QED
  BY <1>4 DEF DataInv

(* A step that does not touch the disk. *)
LEMMA MovingOnly ==
    ASSUME IInv, DataInv, NEW c \in Conns, NEW p, NEW l,
           pager' = [pager EXCEPT ![c] = p], lock' = [lock EXCEPT ![c] = l],
           UNCHANGED diskVars,
           PagerOK(p, l, file, unsynced, journal, Committed)
    PROVE  DataInv'
<1>1. file' = file /\ unsynced' = unsynced /\ journal' = journal /\ forgotten' = forgotten
      /\ Committed' = Committed
  BY DEF diskVars, Committed
<1>2. DiskOK(file, unsynced, journal, forgotten, Committed)'
  BY <1>1 DEF DataInv
<1>3. PagerOK(p, l, file', unsynced', journal', Committed')
  BY <1>1
<1> QED
  BY <1>1, <1>2, <1>3, Moving DEF Undisturbed

LEMMA InitDataInv == Init => DataInv
<1> SUFFICES ASSUME Init PROVE DataInv
  OBVIOUS
<1>1. PICK n \in InitialSizes : file = [q \in Pages |-> IF q <= n THEN 1 ELSE 0]
  BY DEF Init
<1>2. n \in 0 .. PageCount
  BY PagerAssumption
<1>3. JournalType(NoJournal) /\ NoJournal.header = "blank" /\ ~NoJournal.exists
  BY PagerAssumption DEF JournalType, NoJournal
<1>4. file \in [Pages -> Nat] /\ journal = NoJournal /\ forgotten = {} /\ unsynced = [q \in Pages |-> {}]
  BY <1>1 DEF Init
<1>5. Committed = file
  BY <1>3, <1>4, Content DEF Committed
<1>6. DiskOK(file, unsynced, journal, forgotten, Committed)
  <2>1. DiskType(file, unsynced, journal, forgotten)
    BY <1>3, <1>4 DEF DiskType
  <2>2. file[1] = 0 => \A q \in Pages : file[q] = 0
    BY <1>1, <1>2, FirstPage DEF Pages
  <2> QED
    BY <1>3, <1>4, <1>5, <2>1, <2>2 DEF DiskOK, NotEmpty, Hot
<1>7. ASSUME NEW C PROVE PagerOK(NewPager, 0, file, unsynced, journal, C)
  <2>1. PagerType(NewPager) /\ RestingOK(NewPager, C)
    BY PagerAssumption DEF PagerType, RestingOK, NewPager
  <2> QED
    BY <2>1 DEF PagerOK, NewPager, ReadingOK, QuietOK, Trusting, VersionOK, HotOK, Undoing, JournalOK,
         Modifying, DirtyOK, TodoOK, CountOK, FinishedOK, UndoneOK, Active
<1> QED
  BY <1>6, <1>7, LockNumbers DEF DataInv, Init

-----------------------------------------------------------------------------
(* The steps that look for a hot journal. *)

(* p differs from q in what it is doing at most. *)
SameData(p, q) ==
    /\ p.eState = q.eState /\ p.cache = q.cache /\ p.dirty = q.dirty /\ p.dbSize = q.dbSize
    /\ p.dbFileVers = q.dbFileVers /\ p.changeCountDone = q.changeCountDone
    /\ p.committing = q.committing

LEMMA PCData ==
    ASSUME IInv, NEW c \in Conns, NEW pc
    PROVE  LET p == [pager[c] EXCEPT !.pc = pc]
           IN  /\ SameData(p, pager[c]) /\ p.todo = pager[c].todo /\ p.pc = pc
               /\ [pager EXCEPT ![c].pc = pc] = [pager EXCEPT ![c] = p]
  BY IsReady DEF SameData, Fields

LEMMA IsOK ==
    ASSUME DataInv, NEW c \in Conns
    PROVE  PagerOK(pager[c], lock[c], file, unsynced, journal, Committed)
  BY DEF DataInv

LEMMA SameLockData ==
    ASSUME IInv, NEW c \in Conns
    PROVE  lock = [lock EXCEPT ![c] = lock[c]] /\ pager = [pager EXCEPT ![c] = pager[c]]
  BY DEF IInv, ShapeInv

(* Under a RESERVED or a PENDING lock of another pager the journal is blank. *)
LEMMA ReservedMeansBlank ==
    ASSUME IInv, DataInv, NEW c \in Conns, lock[c] >= 1, NEW o \in Others(c), lock[o] >= 2
    PROVE  journal.header = "blank"
<1>1. lock[o] # 4
  BY IsReady, LockNumbers DEF IInv, LockedAsNeeded, Others
<1>2. lock[o] \in {2, 3}
  BY <1>1, IsReady DEF Others
<1> QED
  BY <1>2, IsOK DEF PagerOK, QuietOK, Trusting, Others

LEMMA OpenMoves ==
    ASSUME NEW q, NEW p, NEW l, NEW l2, NEW f, NEW u, NEW j, NEW C, NEW j2,
           PagerOK(q, l, f, u, j, C), q.eState = "OPEN", SameData(p, q),
           p.pc \in Checking \cup {"syncHot"},
           p.pc = "validate" => j2.header = "blank",
           p.pc = "discard" => \A x \in Pages : f[x] = 0,
           p.pc = "syncHot" => j2.exists,
           l2 \in {2, 3} => j2.header = "blank"
    PROVE  PagerOK(p, l2, f, u, j2, C)
<1> USE DEF PagerOK, SameData, Checking, Undoing, Modifying, Active
<1>1. PagerType(p) /\ RestingOK(p, C) /\ ReadingOK(p, C)
  BY DEF PagerType, RestingOK, ReadingOK
<1>2. QuietOK(p, l2, j2) /\ HotOK(p, f, u, j2, C)
  BY DEF QuietOK, HotOK, Trusting
<1>3. VersionOK(p, C) /\ JournalOK(p, j2, C) /\ DirtyOK(p, f, j2) /\ TodoOK(p, f, j2)
  BY DEF VersionOK, Concluding, JournalOK, DirtyOK, TodoOK
<1>4. CountOK(p, C) /\ FinishedOK(p, f, u, j2, C) /\ UndoneOK(p, f, u, j2, C)
  BY DEF CountOK, FinishedOK, UndoneOK
<1> QED
  BY <1>1, <1>2, <1>3, <1>4

(* A pager that forgets its cache, or keeps it without a lock. *)
LEMMA Released ==
    ASSUME NEW q, NEW p, NEW l, NEW f, NEW u, NEW j, NEW C, NEW cache,
           PagerOK(q, l, f, u, j, C),
           p = [NewPager EXCEPT !.cache = cache, !.dbFileVers = q.dbFileVers],
           cache = <<>> \/ (cache = q.cache /\ q.eState \in Resting),
           C[1] = 0 => q.dbFileVers = 0
    PROVE  PagerOK(p, 0, f, u, j, C)
<1>1. /\ p.eState = "OPEN" /\ p.pc = "idle" /\ p.cache = cache /\ p.dirty = {} /\ p.dbSize = 0
      /\ p.dbFileVers = q.dbFileVers /\ ~p.changeCountDone /\ ~p.committing
  BY DEF NewPager
<1> USE DEF PagerOK, Undoing, Modifying, Active
<1>2. PagerType(p) /\ RestingOK(p, C)
  <2>1. CASE cache = <<>>
    BY <1>1, <2>1, PagerAssumption DEF PagerType, RestingOK
  <2>2. CASE cache = q.cache /\ q.eState \in Resting
    BY <1>1, <2>2, PagerAssumption DEF PagerType, RestingOK
  <2> QED
    BY <2>1, <2>2
<1>3. VersionOK(p, C) /\ QuietOK(p, 0, j) /\ HotOK(p, f, u, j, C) /\ ReadingOK(p, C)
  BY <1>1 DEF VersionOK, QuietOK, HotOK, Trusting, ReadingOK
<1>4. JournalOK(p, j, C) /\ DirtyOK(p, f, j) /\ TodoOK(p, f, j)
  BY <1>1 DEF JournalOK, DirtyOK, TodoOK
<1>5. CountOK(p, C) /\ FinishedOK(p, f, u, j, C) /\ UndoneOK(p, f, u, j, C)
  BY <1>1 DEF CountOK, FinishedOK, UndoneOK
<1> QED
  BY <1>2, <1>3, <1>4, <1>5

LEMMA UnlockingData ==
    ASSUME IInv, DataInv, NEW c \in Conns, NEW error \in BOOLEAN, pager_unlock(c, error),
           UNCHANGED diskVars,
           error \/ pager[c].eState \in Resting,
           Committed[1] = 0 => pager[c].dbFileVers = 0
    PROVE  DataInv'
<1> DEFINE cache == IF error THEN <<>> ELSE pager[c].cache
           p == [NewPager EXCEPT !.cache = cache, !.dbFileVers = pager[c].dbFileVers]
<1>1. pager' = [pager EXCEPT ![c] = p] /\ lock' = [lock EXCEPT ![c] = 0]
  BY LockNumbers DEF pager_unlock, SetLock
<1>2. cache = <<>> \/ (cache = pager[c].cache /\ pager[c].eState \in Resting)
  OBVIOUS
<1> HIDE DEF cache
<1>3. PagerOK(p, 0, file, unsynced, journal, Committed)
  BY <1>2, IsOK, Released
<1> HIDE DEF p
<1> QED
  BY <1>1, <1>3, MovingOnly

LEMMA SharedLockData == ASSUME IInv, DataInv, NEW c \in Conns, SharedLock(c) PROVE DataInv'
<1> DEFINE p == [pager[c] EXCEPT !.pc = "exists"]
<1>1. pager' = [pager EXCEPT ![c] = p] /\ SameData(p, pager[c]) /\ p.pc = "exists"
  BY PCData DEF SharedLock, Goto
<1>2. lock' = [lock EXCEPT ![c] = 1] /\ UNCHANGED diskVars /\ pager[c].eState = "OPEN"
  BY LockNumbers DEF SharedLock, SetLock
<1> HIDE DEF p
<1>3. PagerOK(p, 1, file, unsynced, journal, Committed)
  BY <1>1, <1>2, IsOK, OpenMoves DEF Checking
<1> QED
  BY <1>1, <1>2, <1>3, MovingOnly

LEMMA CheckingState ==
    ASSUME IInv, NEW c \in Conns, pager[c].pc \in Checking
    PROVE  pager[c].eState = "OPEN" /\ lock[c] >= 1 /\ lock[c] \in 0 .. 4
  BY IsReady DEF Ready, Checking, Undoing, Writing, WritingFile

LEMMA CheckingData ==
    ASSUME IInv, DataInv, NEW c \in Conns,
           JournalExists(c) \/ JournalInUse(c) \/ JournalFirstByte(c)
    PROVE  DataInv'
<1>1. pager[c].pc \in Checking /\ UNCHANGED <<diskVars, lock>>
  BY DEF JournalExists, JournalInUse, JournalFirstByte, At, Checking
<1>2. JournalType(journal) /\ file \in [Pages -> Nat]
  BY DEF DataInv, DiskOK, DiskType
<1>3. PICK pc \in Checking :
        /\ Goto(c, pc)
        /\ pc = "validate" => journal.header = "blank"
        /\ pc = "discard" => \A x \in Pages : file[x] = 0
  <2>1. CASE JournalExists(c)
    BY <1>2, <2>1 DEF JournalExists, JournalType, Checking
  <2>2. CASE JournalInUse(c)
    <3>1. CheckReservedLock(c) => journal.header = "blank"
      BY <1>1, CheckingState, ReservedMeansBlank, LockNumbers DEF CheckReservedLock
    <3>2. Size(file) = 0 => \A x \in Pages : file[x] = 0
      BY <1>2, SizeOfFile, PagerAssumption DEF Pages
    <3> QED
      BY <2>2, <3>1, <3>2 DEF JournalInUse, Checking
  <2>3. CASE JournalFirstByte(c)
    BY <2>3 DEF JournalFirstByte, Checking
  <2> QED
    BY <2>1, <2>2, <2>3
<1> DEFINE p == [pager[c] EXCEPT !.pc = pc]
<1>4. pager' = [pager EXCEPT ![c] = p] /\ SameData(p, pager[c]) /\ p.pc = pc
  BY <1>3, PCData DEF Goto
<1>5. lock' = [lock EXCEPT ![c] = lock[c]]
  BY <1>1, SameLockData
<1>6. lock[c] \in {2, 3} => journal.header = "blank"
  BY IsOK DEF PagerOK, QuietOK, Trusting
<1> HIDE DEF p
<1>7. pager[c].eState = "OPEN"
  BY <1>1, CheckingState
<1>8. PagerOK(p, lock[c], file, unsynced, journal, Committed)
  BY <1>3, <1>4, <1>6, <1>7, IsOK, OpenMoves DEF Checking
<1> QED
  BY <1>1, <1>4, <1>5, <1>8, MovingOnly

LEMMA LockHotJournalData ==
    ASSUME IInv, DataInv, NEW c \in Conns, LockHotJournal(c)
    PROVE  DataInv'
<1>1. pager[c].eState = "OPEN" /\ UNCHANGED diskVars
  BY CheckingState DEF LockHotJournal, At, Checking
<1>2. JournalType(journal)
  BY DEF DataInv, DiskOK, DiskType
<1>3. lock[c] \in {2, 3} => journal.header = "blank"
  BY IsOK DEF PagerOK, QuietOK, Trusting
<1>4. CASE pager_unlock(c, FALSE)
  <2>1. Committed[1] = 0 => pager[c].dbFileVers = 0
    BY <1>1, IsOK DEF PagerOK, VersionOK, Concluding
  <2> QED
    BY <1>1, <1>4, <2>1, UnlockingData DEF Resting
<1>5. ASSUME NEW pc \in {"syncHot", "validate"}, NEW l, Goto(c, pc), lock' = [lock EXCEPT ![c] = l],
             l \in {2, 3} => journal.header = "blank",
             pc = "syncHot" => journal.exists, pc = "validate" => ~journal.exists
      PROVE  DataInv'
  <2> DEFINE p == [pager[c] EXCEPT !.pc = pc]
  <2>1. pager' = [pager EXCEPT ![c] = p] /\ SameData(p, pager[c]) /\ p.pc = pc
    BY <1>5, PCData DEF Goto
  <2> HIDE DEF p
  <2>2. PagerOK(p, l, file, unsynced, journal, Committed)
    BY <1>1, <1>2, <1>5, <2>1, IsOK, OpenMoves DEF Checking, JournalType
  <2> QED
    BY <1>1, <1>5, <2>1, <2>2, MovingOnly
<1>6. \/ pager_unlock(c, FALSE)
      \/ Goto(c, "syncHot") /\ lock' = [lock EXCEPT ![c] = 4] /\ journal.exists
      \/ Goto(c, "validate") /\ lock' = [lock EXCEPT ![c] = lock[c]] /\ ~journal.exists
  BY LockNumbers, SameLockData DEF LockHotJournal, SetLock
<1>7. CASE Goto(c, "syncHot") /\ lock' = [lock EXCEPT ![c] = 4] /\ journal.exists
  <2>1. (4 \in {2, 3} => journal.header = "blank") /\ "syncHot" \in {"syncHot", "validate"}
        /\ ("syncHot" = "validate" => ~journal.exists) /\ ("syncHot" = "syncHot" => journal.exists)
    BY <1>7
  <2> QED
    BY <1>5, <1>7, <2>1, Zenon
<1>8. CASE Goto(c, "validate") /\ lock' = [lock EXCEPT ![c] = lock[c]] /\ ~journal.exists
  <2>1. /\ "validate" \in {"syncHot", "validate"}
        /\ ("validate" = "syncHot" => journal.exists) /\ ("validate" = "validate" => ~journal.exists)
    BY <1>8
  <2> QED
    BY <1>3, <1>5, <1>8, <2>1, Zenon
<1> QED
  BY <1>4, <1>6, <1>7, <1>8

-----------------------------------------------------------------------------
(* Readers. *)

(* Where the journal is blank, the file is what is committed. *)
LEMMA BlankMeansCommitted ==
    ASSUME DataInv, journal.header = "blank"
    PROVE  Committed = file
  BY Content DEF DataInv, DiskOK, DiskType, Committed

LEMMA IsTyped ==
    ASSUME DataInv
    PROVE  /\ file \in [Pages -> Nat] /\ unsynced \in [Pages -> SUBSET Nat] /\ JournalType(journal)
           /\ \A i \in forgotten : JournalType(i)
           /\ Committed \in [Pages -> Nat] /\ Committed[1] \in Nat
           /\ Committed[1] = 0 => \A q \in Pages : Committed[q] = 0
  BY CommittedType DEF DataInv, DiskOK, DiskType

(* A READER, or a pager that has just begun to write. *)
LEMMA ReaderOK ==
    ASSUME NEW p, NEW l, NEW f, NEW u, NEW j, NEW C,
           p.eState \in {"READER", "WRITER_LOCKED"}, p.pc \in {"idle", "exclusive", "newDatabase"},
           PagerType(p), RestingOK(p, C), ReadingOK(p, C), j.header = "blank"
    PROVE  PagerOK(p, l, f, u, j, C)
<1>1. VersionOK(p, C) /\ QuietOK(p, l, j) /\ HotOK(p, f, u, j, C)
  BY DEF ReadingOK, VersionOK, QuietOK, HotOK, Undoing
<1>2. JournalOK(p, j, C) /\ DirtyOK(p, f, j) /\ TodoOK(p, f, j)
  BY DEF JournalOK, DirtyOK, TodoOK, Active, Modifying
<1>3. CountOK(p, C) /\ FinishedOK(p, f, u, j, C) /\ UndoneOK(p, f, u, j, C)
  BY DEF CountOK, FinishedOK, UndoneOK, Active, Modifying
<1> QED
  BY <1>1, <1>2, <1>3 DEF PagerOK

LEMMA ValidateData == ASSUME IInv, DataInv, NEW c \in Conns, Validate(c) PROVE DataInv'
<1> DEFINE kept == KeptCache(c)
           n == Size(file)
           cached == 1 \in DOMAIN kept
           cache == IF cached THEN kept ELSE Put(kept, 1, file[1])
           vers == IF cached \/ n = 0 THEN pager[c].dbFileVers ELSE file[1]
           p == [pager[c] EXCEPT !.eState = "READER", !.pc = "idle", !.dbSize = n, !.cache = cache,
                                 !.dbFileVers = vers]
<1>1. pager[c].eState = "OPEN" /\ pager[c].pc = "validate" /\ UNCHANGED <<diskVars, lock>>
  BY CheckingState DEF Validate, At, Checking
<1>2. pager' = [pager EXCEPT ![c] = p] /\ lock' = [lock EXCEPT ![c] = lock[c]]
  BY SameLockData DEF Validate
<1>3. PagerOK(pager[c], lock[c], file, unsynced, journal, Committed)
  BY IsOK
<1>4. journal.header = "blank"
  BY <1>1, <1>3 DEF PagerOK, QuietOK, Trusting
<1>5. Committed = file /\ file \in [Pages -> Nat] /\ (file[1] = 0 => \A q \in Pages : file[q] = 0)
  BY <1>4, BlankMeansCommitted, IsTyped
<1>6. n \in 0 .. PageCount /\ (\A q \in Pages : q > n => file[q] = 0) /\ (n > 0 => file[n] # 0)
  BY <1>5, SizeOfFile
<1>7. n = 0 <=> file[1] = 0
  BY <1>5, <1>6, PagerAssumption DEF Pages
<1>8. kept = <<>> \/ (kept = pager[c].cache /\ pager[c].dbFileVers = file[1])
  BY DEF KeptCache
<1>9. /\ PagerType(pager[c]) /\ RestingOK(pager[c], file)
      /\ file[1] = 0 => pager[c].dbFileVers = 0
  BY <1>1, <1>3, <1>5 DEF PagerOK, VersionOK, Concluding
<1>10. cached => kept = pager[c].cache /\ pager[c].dbFileVers = file[1]
  BY <1>8
<1>11. vers = file[1]
  BY <1>7, <1>9, <1>10
<1>12. /\ DOMAIN kept \subseteq Pages
       /\ \A q \in DOMAIN kept : kept[q] = file[q]
  <2>1. CASE kept = <<>>
    BY <2>1
  <2>2. CASE kept = pager[c].cache /\ pager[c].dbFileVers = file[1]
    <3> HIDE DEF kept
    <3> QED
      BY <1>1, <1>9, <2>2 DEF PagerType, RestingOK, Resting
  <2> QED
    BY <1>8, <2>1, <2>2
<1>13. /\ DOMAIN cache \subseteq Pages
       /\ \A q \in DOMAIN cache : cache[q] = file[q]
  <2> HIDE DEF kept
  <2>1. /\ DOMAIN Put(kept, 1, file[1]) \subseteq Pages
        /\ \A q \in DOMAIN Put(kept, 1, file[1]) : Put(kept, 1, file[1])[q] = file[q]
    BY <1>12, FirstPage DEF Put
  <2>2. cache = kept \/ cache = Put(kept, 1, file[1])
    OBVIOUS
  <2> HIDE DEF cache
  <2> QED
    BY <1>12, <2>1, <2>2
<1> HIDE DEF kept, n, cached, cache, vers
<1>14. /\ p.eState = "READER" /\ p.pc = "idle" /\ p.dbSize = n /\ p.cache = cache
       /\ p.dbFileVers = vers /\ p.dirty = pager[c].dirty
       /\ p.changeCountDone = pager[c].changeCountDone /\ p.committing = pager[c].committing
  BY IsReady DEF Fields
<1> HIDE DEF p
<1>15. PagerType(p)
  BY <1>5, <1>6, <1>9, <1>11, <1>13, <1>14, FirstPage DEF PagerType
<1>16. RestingOK(p, file)
  BY <1>1, <1>5, <1>9, <1>11, <1>13, <1>14, FirstPage DEF RestingOK, Resting
<1>17. ReadingOK(p, file)
  BY <1>6, <1>7, <1>11, <1>14 DEF ReadingOK
<1>18. PagerOK(p, lock[c], file, unsynced, journal, Committed)
  BY <1>4, <1>5, <1>14, <1>15, <1>16, <1>17, ReaderOK
<1> QED
  BY <1>1, <1>2, <1>18, MovingOnly

LEMMA EndReadData == ASSUME IInv, DataInv, NEW c \in Conns, EndRead(c) \/ BeginGivesUp(c) PROVE DataInv'
<1>1. pager[c].eState = "READER" /\ UNCHANGED diskVars /\ pager_unlock(c, FALSE)
  BY IsReady DEF EndRead, BeginGivesUp, Ready, At, Checking, Undoing, Writing, WritingFile
<1>2. Committed[1] = 0 => pager[c].dbFileVers = 0
  BY <1>1, IsOK DEF PagerOK, ReadingOK
<1> QED
  BY <1>1, <1>2, UnlockingData DEF Resting

LEMMA BeginMoves ==
    ASSUME IInv, DataInv, NEW c \in Conns, pager[c].eState = "READER",
           NEW pc, NEW eState, NEW l, UNCHANGED diskVars,
           \/ eState = "READER" /\ pc = "exclusive"
           \/ eState = "WRITER_LOCKED" /\ pc = Started(c),
           pager' = [pager EXCEPT ![c] = [[pager[c] EXCEPT !.eState = eState] EXCEPT !.pc = pc]],
           lock' = [lock EXCEPT ![c] = l]
    PROVE  DataInv'
<1> DEFINE p == [[pager[c] EXCEPT !.eState = eState] EXCEPT !.pc = pc]
<1>1. /\ p.eState = eState /\ p.pc = pc /\ p.dbSize = pager[c].dbSize /\ p.cache = pager[c].cache
      /\ p.dbFileVers = pager[c].dbFileVers /\ p.dirty = pager[c].dirty
      /\ p.changeCountDone = pager[c].changeCountDone /\ p.committing = pager[c].committing
      /\ pager' = [pager EXCEPT ![c] = p]
  BY IsReady DEF Fields
<1> HIDE DEF p
<1>2. PagerOK(pager[c], lock[c], file, unsynced, journal, Committed)
  BY IsOK
<1>3. PagerType(p) /\ journal.header = "blank"
  BY <1>1, <1>2 DEF PagerOK, PagerType, QuietOK, Trusting
<1>4. RestingOK(p, Committed)
  BY <1>1, <1>2 DEF PagerOK, RestingOK, Resting
<1>5. ReadingOK(p, Committed)
  BY <1>1, <1>2 DEF PagerOK, ReadingOK, Started
<1>6. p.eState \in {"READER", "WRITER_LOCKED"} /\ p.pc \in {"idle", "exclusive", "newDatabase"}
  BY <1>1 DEF Started
<1>7. PagerOK(p, l, file, unsynced, journal, Committed)
  BY <1>3, <1>4, <1>5, <1>6, ReaderOK
<1> QED
  BY <1>1, <1>7, MovingOnly

LEMMA BeginData ==
    ASSUME IInv, DataInv, NEW c \in Conns, NEW exFlag \in BOOLEAN, Begin(c, exFlag)
    PROVE  DataInv'
<1> DEFINE pc == IF exFlag THEN "exclusive" ELSE Started(c)
           eState == IF exFlag THEN "READER" ELSE "WRITER_LOCKED"
<1>1. pager[c].eState = "READER" /\ UNCHANGED diskVars /\ lock' = [lock EXCEPT ![c] = 2]
  BY LockNumbers DEF Begin, SetLock
<1>2. \/ eState = "READER" /\ pc = "exclusive"
      \/ eState = "WRITER_LOCKED" /\ pc = Started(c)
  OBVIOUS
<1>3. pager' = [pager EXCEPT ![c].pc = pc, ![c].eState = eState]
  BY <1>1 DEF Begin
<1> HIDE DEF pc, eState
<1>4. pager' = [pager EXCEPT ![c] = [[pager[c] EXCEPT !.eState = eState] EXCEPT !.pc = pc]]
  BY <1>3, IsReady DEF Fields
<1> QED
  BY <1>1, <1>2, <1>4, BeginMoves

LEMMA BeginExclusiveData ==
    ASSUME IInv, DataInv, NEW c \in Conns, BeginExclusive(c)
    PROVE  DataInv'
<1>1. pager[c].eState = "READER" /\ pager[c].pc = "exclusive" /\ lock[c] >= 2 /\ UNCHANGED diskVars
  BY IsReady DEF BeginExclusive, Ready, At, Checking, Undoing, Writing, WritingFile
<1>2. CASE lock' = [lock EXCEPT ![c] = 4] /\ lock'[c] = 4
  <2> DEFINE pc == Started(c)
  <2>1. pager' = [pager EXCEPT ![c].eState = "WRITER_LOCKED", ![c].pc = pc]
    BY <1>2, LockNumbers DEF BeginExclusive
  <2>2. pager' = [pager EXCEPT ![c] = [[pager[c] EXCEPT !.eState = "WRITER_LOCKED"] EXCEPT !.pc = pc]]
    <3> HIDE DEF pc
    <3> QED
      BY <2>1, IsReady DEF Fields
  <2> QED
    BY <1>1, <1>2, <2>2, BeginMoves
<1>3. CASE lock' = [lock EXCEPT ![c] = 3] /\ lock'[c] = 3
  <2>1. pager' = [pager EXCEPT ![c] = pager[c]]
    BY <1>3, LockNumbers, SameLockData DEF BeginExclusive
  <2>2. PagerOK(pager[c], lock[c], file, unsynced, journal, Committed)
    BY IsOK
  <2>3. PagerOK(pager[c], 3, file, unsynced, journal, Committed)
    BY <1>1, <2>2 DEF PagerOK, QuietOK, Trusting
  <2> QED
    BY <1>1, <1>3, <2>1, <2>3, MovingOnly
<1> QED
  BY <1>1, <1>2, <1>3, Trying DEF BeginExclusive

(* pager_end_transaction() where nothing was written. *)
LEMMA EndingReader ==
    ASSUME NEW c \in Conns, IInv, NEW n \in 0 .. PageCount, NEW C, NEW f, NEW u, NEW j,
           PagerType(pager[c]), C \in [Pages -> Nat],
           j.header = "blank", pager[c].dbFileVers = C[1],
           \A q \in Pages : q > n => C[q] = 0,
           n = 0 <=> C[1] = 0,
           \A q \in DOMAIN pager[c].cache : q <= n => pager[c].cache[q] = C[q]
    PROVE  PagerOK(Ended(c, "READER", "idle", n), 1, f, u, j, C)
<1> DEFINE p == Ended(c, "READER", "idle", n)
           kept == {q \in DOMAIN pager[c].cache : q <= n}
<1>1. /\ p.eState = "READER" /\ p.pc = "idle" /\ p.dbSize = n
      /\ p.cache = [q \in kept |-> pager[c].cache[q]]
      /\ p.dbFileVers = pager[c].dbFileVers /\ p.dirty = {}
      /\ ~p.changeCountDone /\ ~p.committing
  BY DEF Ended, NewPager
<1>2. C[1] \in Nat
  BY FirstPage
<1> HIDE DEF p
<1>3. PagerType(p)
  BY <1>1, <1>2 DEF PagerType
<1>4. RestingOK(p, C)
  BY <1>1, <1>2 DEF RestingOK
<1>5. ReadingOK(p, C)
  BY <1>1 DEF ReadingOK
<1> QED
  BY <1>1, <1>3, <1>4, <1>5, ReaderOK DEF p

LEMMA NothingWritten ==
    ASSUME IInv, DataInv, NEW c \in Conns, pager[c].eState = "WRITER_LOCKED",
           pager' = [pager EXCEPT ![c] = Ended(c, "READER", "idle", pager[c].dbSize)],
           SetLock(c, SHARED_LOCK), UNCHANGED diskVars
    PROVE  DataInv'
<1>1. PagerOK(pager[c], lock[c], file, unsynced, journal, Committed)
  BY IsOK
<1>2. /\ journal.header = "blank" /\ PagerType(pager[c]) /\ pager[c].dbFileVers = Committed[1]
      /\ \A q \in Pages : q > pager[c].dbSize => Committed[q] = 0
      /\ pager[c].dbSize = 0 <=> Committed[1] = 0
      /\ \A q \in DOMAIN pager[c].cache : pager[c].cache[q] = Committed[q]
  BY <1>1 DEF PagerOK, QuietOK, Trusting, ReadingOK, RestingOK, Resting
<1>3. lock' = [lock EXCEPT ![c] = 1] /\ pager[c].dbSize \in 0 .. PageCount /\ Committed \in [Pages -> Nat]
  BY <1>2, LockNumbers, IsTyped DEF SetLock, PagerType
<1>4. PagerOK(Ended(c, "READER", "idle", pager[c].dbSize), 1, file, unsynced, journal, Committed)
  BY <1>2, <1>3, EndingReader
<1> QED
  BY <1>3, <1>4, MovingOnly

(* What is neither in the journal nor new is in the file as committed. *)
LEMMA NotWritten ==
    ASSUME DataInv, NEW q \in Pages, q <= journal.size, q \notin DOMAIN journal.records
    PROVE  file[q] = Committed[q]
<1>1. q \notin journal.synced /\ ~(q > journal.size)
  BY IsTyped DEF JournalType, Pages
<1> QED
  BY <1>1 DEF DataInv, DiskOK, Kept

LEMMA ReadPageData ==
    ASSUME IInv, DataInv, NEW c \in Conns, NEW x \in Pages, ReadPage(c, x)
    PROVE  DataInv'
<1> DEFINE cache == Put(pager[c].cache, x, file[x])
           p == [pager[c] EXCEPT !.cache = cache]
           q == pager[c]
<1>1. pager' = [pager EXCEPT ![c] = p] /\ lock' = [lock EXCEPT ![c] = lock[c]] /\ UNCHANGED diskVars
  BY IsReady, SameLockData DEF ReadPage, Fields
<1>2. /\ q.eState \in Writing \cup {"READER"} /\ q.pc = "idle" /\ x <= q.dbSize
      /\ x \notin DOMAIN q.cache
  BY DEF ReadPage, At
<1>3. PagerOK(q, lock[c], file, unsynced, journal, Committed)
  BY IsOK
<1>4. /\ DOMAIN cache = DOMAIN q.cache \cup {x} /\ cache[x] = file[x]
      /\ \A y \in DOMAIN q.cache : cache[y] = q.cache[y]
  BY <1>2 DEF Put
<1> HIDE DEF cache
<1>5. /\ p.eState = q.eState /\ p.pc = "idle" /\ p.dbSize = q.dbSize /\ p.cache = cache
      /\ p.dbFileVers = q.dbFileVers /\ p.dirty = q.dirty /\ p.todo = q.todo
      /\ p.changeCountDone = q.changeCountDone /\ p.committing = q.committing
  BY <1>2, IsReady DEF Fields
<1>6. file[x] \in Nat
  BY IsTyped
<1> HIDE DEF p
<1>7. PagerType(p)
  BY <1>3, <1>4, <1>5, <1>6 DEF PagerOK, PagerType
<1>8. CASE q.eState \in {"READER", "WRITER_LOCKED"}
  <2>1. journal.header = "blank" /\ Committed = file
    BY <1>3, <1>8, BlankMeansCommitted DEF PagerOK, QuietOK, Trusting
  <2>2. ReadingOK(p, Committed)
    BY <1>2, <1>3, <1>5, <1>8 DEF PagerOK, ReadingOK
  <2>3. RestingOK(p, Committed)
    <3>1. q.dbFileVers = Committed[1] /\ Committed[1] \in Nat
      BY <1>3, <1>8, IsTyped DEF PagerOK, ReadingOK
    <3> QED
      BY <1>3, <1>4, <1>5, <1>8, <2>1, <3>1 DEF PagerOK, RestingOK, Resting
  <2>4. PagerOK(p, lock[c], file, unsynced, journal, Committed)
    BY <1>5, <1>7, <1>8, <2>1, <2>2, <2>3, ReaderOK
  <2> QED
    BY <1>1, <2>4, MovingOnly
<1>9. CASE q.eState \in Modifying
  <2> USE <1>2, <1>3, <1>5, <1>9 DEF PagerOK, Modifying, Active, GivenUp, Undoing
  <2>1. RestingOK(p, Committed) /\ ReadingOK(p, Committed) /\ QuietOK(p, lock[c], journal)
        /\ VersionOK(p, Committed) /\ HotOK(p, file, unsynced, journal, Committed)
    BY DEF RestingOK, Resting, ReadingOK, QuietOK, Trusting, VersionOK, Concluding, HotOK
  <2>2. JournalOK(p, journal, Committed)
    <3>1. x <= journal.size /\ x \notin DOMAIN journal.records => file[x] = Committed[x]
      BY NotWritten
    <3> QED
      BY <1>4, <3>1 DEF JournalOK
  <2>3. DirtyOK(p, file, journal) /\ TodoOK(p, file, journal)
    BY <1>4 DEF DirtyOK, TodoOK
  <2>4. CountOK(p, Committed)
    BY <1>4 DEF CountOK, DirtyOK, VersionWritten
  <2>5. FinishedOK(p, file, unsynced, journal, Committed)
    BY <1>4 DEF FinishedOK
  <2>6. UndoneOK(p, file, unsynced, journal, Committed)
    BY DEF UndoneOK
  <2>7. PagerOK(p, lock[c], file, unsynced, journal, Committed)
    BY <1>7, <2>1, <2>2, <2>3, <2>4, <2>5, <2>6
  <2> QED
    BY <1>1, <2>7, MovingOnly
<1> QED
  BY <1>2, <1>8, <1>9 DEF Writing, Modifying

-----------------------------------------------------------------------------
(* Writers, before they write. *)

(* What such a step leaves as it was. *)
SameWriter(p, q) ==
    /\ p.eState = q.eState /\ p.cache = q.cache /\ p.dirty = q.dirty /\ p.dbSize = q.dbSize
    /\ p.dbFileVers = q.dbFileVers

(* What holds of a writer that only goes on to another step. *)
LEMMA WriterMoves ==
    ASSUME NEW q, NEW p, NEW l, NEW l2, NEW f, NEW u, NEW j, NEW C,
           PagerOK(q, l, f, u, j, C), SameWriter(p, q), q.eState \in Modifying,
           l2 \in {2, 3} => j.header = "blank",
           VersionOK(p, C), JournalOK(p, j, C), DirtyOK(p, f, j), TodoOK(p, f, j), CountOK(p, C),
           FinishedOK(p, f, u, j, C), UndoneOK(p, f, u, j, C)
    PROVE  PagerOK(p, l2, f, u, j, C)
<1>1. PagerType(p)
  BY DEF PagerOK, SameWriter, PagerType
<1>2. RestingOK(p, C) /\ ReadingOK(p, C)
  BY DEF SameWriter, RestingOK, Resting, ReadingOK, Modifying
<1>3. p.pc \in {"idle", "lock"} \cup WritingFile \cup GivenUp
  BY DEF JournalOK, SameWriter
<1>4. QuietOK(p, l2, j) /\ HotOK(p, f, u, j, C)
  BY <1>3 DEF SameWriter, QuietOK, Trusting, HotOK, Modifying, WritingFile, GivenUp, Undoing
<1> QED
  BY <1>1, <1>2, <1>4 DEF PagerOK

LEMMA QuietLock ==
    ASSUME DataInv, NEW c \in Conns
    PROVE  lock[c] \in {2, 3} => journal.header = "blank"
  BY IsOK DEF PagerOK, QuietOK, Trusting

LEMMA SpillData ==
    ASSUME IInv, DataInv, NEW c \in Conns, NEW x \in Pages, Spill(c, x)
    PROVE  DataInv'
<1> DEFINE pc == IF NeedSync(x) \/ pager[c].eState = "WRITER_CACHEMOD" THEN "lock" ELSE "write"
           p == [[[pager[c] EXCEPT !.todo = {x}] EXCEPT !.committing = FALSE] EXCEPT !.pc = pc]
           q == pager[c]
<1>1. /\ q.eState \in Writing /\ q.pc = "idle" /\ x \in q.dirty /\ x # 1 /\ UNCHANGED diskVars
      /\ pager' = [pager EXCEPT ![c].todo = {x}, ![c].committing = FALSE, ![c].pc = pc]
      /\ lock' = [lock EXCEPT ![c] = lock[c]]
  BY SameLockData DEF Spill, InTransaction, At
<1>2. \/ pc = "lock"
      \/ /\ pc = "write" /\ q.eState # "WRITER_CACHEMOD"
         /\ x \notin DOMAIN journal.records \/ x \in journal.synced
  BY DEF NeedSync
<1> HIDE DEF pc
<1>3. /\ SameWriter(p, q) /\ p.changeCountDone = q.changeCountDone /\ p.committing = FALSE
      /\ p.todo = {x} /\ p.pc = pc /\ pager' = [pager EXCEPT ![c] = p]
  BY <1>1, IsReady DEF Fields, SameWriter
<1> HIDE DEF p
<1>4. PagerOK(q, lock[c], file, unsynced, journal, Committed)
  BY IsOK
<1>5. q.eState \in {"WRITER_CACHEMOD", "WRITER_DBMOD"}
  <2>1. q.eState \notin Resting
    BY <1>1, <1>4 DEF PagerOK, RestingOK
  <2>2. q.eState # "WRITER_FINISHED"
    BY <1>1, <1>4 DEF PagerOK, FinishedOK, Active, Modifying, GivenUp, Undoing
  <2> QED
    BY <1>1, <2>1, <2>2 DEF Writing, Resting
<1> USE <1>1, <1>2, <1>3, <1>4, <1>5 DEF PagerOK, Modifying, Active, GivenUp, Undoing, SameWriter
<1>6. q.dbFileVers = Committed[1]
  BY DEF CountOK, VersionWritten
<1>7. JournalOK(p, journal, Committed)
  BY DEF JournalOK, WritingFile
<1>8. DirtyOK(p, file, journal) /\ TodoOK(p, file, journal)
  BY DEF DirtyOK, TodoOK
<1>9. CountOK(p, Committed) /\ VersionOK(p, Committed)
  BY <1>6 DEF CountOK, VersionOK, VersionWritten
<1>10. FinishedOK(p, file, unsynced, journal, Committed) /\ UndoneOK(p, file, unsynced, journal, Committed)
  BY DEF FinishedOK, UndoneOK
<1>11. PagerOK(p, lock[c], file, unsynced, journal, Committed)
  BY <1>7, <1>8, <1>9, <1>10, QuietLock, WriterMoves
<1> QED
  BY <1>11, MovingOnly

(* A commit whose change counter is done already. *)
LEMMA CommitAgainData ==
    ASSUME IInv, DataInv, NEW c \in Conns, CommitPhaseOne(c), pager[c].changeCountDone
    PROVE  DataInv'
<1> DEFINE todo == pager[c].dirty \cup IF pager[c].changeCountDone THEN {} ELSE {1}
           p == [pager[c] EXCEPT !.pc = "lock", !.committing = TRUE, !.changeCountDone = TRUE,
                                 !.todo = todo]
           q == pager[c]
<1>1. /\ q.eState \in {"WRITER_CACHEMOD", "WRITER_DBMOD"} /\ q.pc = "idle" /\ UNCHANGED diskVars
      /\ pager' = [pager EXCEPT ![c] = p] /\ lock' = [lock EXCEPT ![c] = lock[c]]
  BY SameLockData DEF CommitPhaseOne, InTransaction, At, diskVars
<1>2. todo = q.dirty
  OBVIOUS
<1> HIDE DEF todo
<1>3. /\ SameWriter(p, q) /\ p.changeCountDone /\ p.committing /\ p.todo = todo /\ p.pc = "lock"
  BY IsReady DEF Fields, SameWriter
<1> HIDE DEF p
<1>4. PagerOK(q, lock[c], file, unsynced, journal, Committed)
  BY IsOK
<1> USE <1>1, <1>2, <1>3, <1>4 DEF PagerOK, Modifying, Active, GivenUp, Undoing, SameWriter
<1>6. q.dbFileVers = Committed[1]
  BY DEF CountOK, VersionWritten
<1>7. JournalOK(p, journal, Committed)
  BY DEF JournalOK, WritingFile
<1>8. DirtyOK(p, file, journal) /\ TodoOK(p, file, journal)
  BY DEF DirtyOK, TodoOK
<1>9. CountOK(p, Committed) /\ VersionOK(p, Committed)
  BY <1>6 DEF CountOK, VersionOK, VersionWritten
<1>10. FinishedOK(p, file, unsynced, journal, Committed) /\ UndoneOK(p, file, unsynced, journal, Committed)
  BY DEF FinishedOK, UndoneOK
<1>11. PagerOK(p, lock[c], file, unsynced, journal, Committed)
  BY <1>7, <1>8, <1>9, <1>10, QuietLock, WriterMoves
<1> QED
  BY <1>11, MovingOnly

LEMMA LockForWritingState ==
    ASSUME IInv, NEW c \in Conns, At(c, "lock")
    PROVE  pager[c].eState \in Writing /\ lock[c] >= 2 /\ lock[c] \in 0 .. 4
  BY IsReady DEF Ready, At, Checking, Undoing, Writing, WritingFile

(* The lock is there or not, and then the page is not spilled after all. *)
LEMMA LockingData ==
    ASSUME IInv, DataInv, NEW c \in Conns, LockForWriting(c) \/ LockGivesUp(c)
    PROVE  DataInv'
<1> DEFINE q == pager[c]
<1>1. q.pc = "lock" /\ q.eState \in Modifying /\ lock[c] >= 2 /\ UNCHANGED diskVars
  BY IsOK, LockForWritingState
     DEF LockForWriting, LockGivesUp, At, PagerOK, ReadingOK, Writing, Modifying
<1>2. \E p, pc, l :
        /\ SameWriter(p, q) /\ p.changeCountDone = q.changeCountDone /\ p.committing = q.committing
        /\ p.todo = q.todo /\ p.pc = pc /\ pager' = [pager EXCEPT ![c] = p]
        /\ lock' = [lock EXCEPT ![c] = l]
        /\ \/ l = 4 /\ pc = "mark"
           \/ l = 3 /\ pc = "lock" /\ lock[c] # 4
           \/ l = lock[c] /\ pc = "idle"
  <2>1. ASSUME NEW pc, pager' = [pager EXCEPT ![c].pc = pc]
        PROVE  \E p : /\ SameWriter(p, q) /\ p.changeCountDone = q.changeCountDone
                      /\ p.committing = q.committing /\ p.todo = q.todo /\ p.pc = pc
                      /\ pager' = [pager EXCEPT ![c] = p]
    <3> DEFINE p == [pager[c] EXCEPT !.pc = pc]
    <3>1. /\ SameData(p, q) /\ p.todo = q.todo /\ p.pc = pc
          /\ [pager EXCEPT ![c].pc = pc] = [pager EXCEPT ![c] = p]
      BY PCData
    <3> HIDE DEF p
    <3>2. pager' = [pager EXCEPT ![c] = p]
      BY <2>1, <3>1
    <3> QED
      BY <3>1, <3>2 DEF SameData, SameWriter
  <2>2. CASE LockForWriting(c) /\ lock' = [lock EXCEPT ![c] = 4] /\ lock'[c] = 4
    <3>1. pager' = [pager EXCEPT ![c].pc = "mark"]
      BY <2>2, LockNumbers DEF LockForWriting
    <3>2. PICK p : /\ SameWriter(p, q) /\ p.changeCountDone = q.changeCountDone
                   /\ p.committing = q.committing /\ p.todo = q.todo /\ p.pc = "mark"
                   /\ pager' = [pager EXCEPT ![c] = p]
      BY <2>1, <3>1
    <3> QED
      BY <2>2, <3>2
  <2>3. CASE LockForWriting(c) /\ lock' = [lock EXCEPT ![c] = 3] /\ lock'[c] = 3 /\ lock[c] # 4
    <3>1. pager' = [pager EXCEPT ![c] = q]
      BY <2>3, LockNumbers, SameLockData DEF LockForWriting
    <3> QED
      BY <1>1, <2>3, <3>1 DEF SameWriter
  <2>4. CASE LockGivesUp(c)
    <3>1. pager' = [pager EXCEPT ![c].pc = "idle"] /\ lock' = [lock EXCEPT ![c] = lock[c]]
      BY <2>4, SameLockData DEF LockGivesUp, Goto
    <3> QED
      BY <2>1, <3>1
  <2> QED
    BY <1>1, <2>2, <2>3, <2>4, Trying DEF LockForWriting
<1>3. PICK p, pc, l :
        /\ SameWriter(p, q) /\ p.changeCountDone = q.changeCountDone /\ p.committing = q.committing
        /\ p.todo = q.todo /\ p.pc = pc /\ pager' = [pager EXCEPT ![c] = p]
        /\ lock' = [lock EXCEPT ![c] = l]
        /\ \/ l = 4 /\ pc = "mark"
           \/ l = 3 /\ pc = "lock" /\ lock[c] # 4
           \/ l = lock[c] /\ pc = "idle"
  BY <1>2
<1>5. PagerOK(q, lock[c], file, unsynced, journal, Committed)
  BY IsOK
<1>6. l \in {2, 3} => journal.header = "blank"
  <2>1. lock[c] \in {2, 3} \/ lock[c] = 4
    BY <1>1, LockForWritingState DEF At
  <2> QED
    BY <1>3, <2>1, QuietLock
<1>7. pc \in {"mark", "lock", "idle"}
  BY <1>3
<1> USE <1>1, <1>3, <1>5, <1>7 DEF PagerOK, Modifying, Active, GivenUp, Undoing, SameWriter
<1>8. JournalOK(p, journal, Committed)
  BY DEF JournalOK, WritingFile
<1>9. DirtyOK(p, file, journal) /\ TodoOK(p, file, journal)
  BY DEF DirtyOK, TodoOK
<1>10. CountOK(p, Committed) /\ VersionOK(p, Committed)
  BY DEF CountOK, VersionOK, VersionWritten, JournalOK
<1>11. FinishedOK(p, file, unsynced, journal, Committed) /\ UndoneOK(p, file, unsynced, journal, Committed)
  BY DEF FinishedOK, UndoneOK, JournalOK
<1>12. PagerOK(p, l, file, unsynced, journal, Committed)
  BY <1>6, <1>8, <1>9, <1>10, <1>11, WriterMoves
<1> QED
  BY <1>3, <1>12, MovingOnly

-----------------------------------------------------------------------------
(* Rollbacks and failures; FaultsWhenEmpty does not hold. *)

(* Going on to undo, or to give the commit up. *)
LEMMA GivingUp ==
    ASSUME NEW q, NEW p, NEW l, NEW f, NEW u, NEW j, NEW C, JournalType(j),
           PagerOK(q, l, f, u, j, C), SameWriter(p, q), q.eState \in Modifying,
           \/ p.pc = "truncate" /\ p.todo = DOMAIN j.records /\ q.pc \in {"idle", "mustRollback"}
           \/ p.pc = "mustRollback" /\ q.pc \in WritingFile,
           q.eState = "WRITER_FINISHED" \/ q.pc \in WritingFile => C[1] # 0
    PROVE  PagerOK(p, l, f, u, j, C)
<1> USE DEF PagerOK, Modifying, Active, GivenUp, Undoing, SameWriter, WritingFile
<1>1. JournalOK(p, j, C)
  BY DEF JournalOK
<1>2. C[1] # 0 => j.size # 0
  BY DEF JournalOK
<1>3. \/ q.dbFileVers = C[1]
      \/ 1 \in DOMAIN q.cache /\ 1 \in DOMAIN j.records
  <2>1. CASE q.pc = "mustRollback"
    BY <2>1 DEF UndoneOK
  <2>2. CASE q.eState = "WRITER_FINISHED" /\ q.pc = "idle"
    BY <1>2, <2>2 DEF FinishedOK
  <2>3. CASE q.eState # "WRITER_FINISHED" /\ q.pc \in {"idle"} \cup WritingFile
    <3>1. CASE VersionWritten(q)
      <4>1. 1 \in q.dirty /\ C[1] # 0
        BY <2>3, <3>1 DEF CountOK, VersionWritten
      <4>2. ~(1 > j.size) /\ 1 \in DOMAIN q.cache /\ (1 \in DOMAIN j.records \/ 1 > j.size)
        BY <1>2, <2>3, <4>1 DEF DirtyOK, JournalType
      <4> QED
        BY <4>2
    <3>2. CASE ~VersionWritten(q)
      BY <2>3, <3>2 DEF CountOK
    <3> QED
      BY <3>1, <3>2
  <2>4. q.eState = "WRITER_FINISHED" => q.pc \in {"idle"} \cup Undoing
    BY DEF JournalOK
  <2> QED
    BY <2>1, <2>2, <2>3, <2>4
<1>4. UndoneOK(p, f, u, j, C)
  BY <1>3 DEF UndoneOK
<1>5. VersionOK(p, C)
  <2>1. C[1] = 0 => 1 \notin DOMAIN j.records
    BY DEF JournalOK, JournalType
  <2> QED
    BY <1>3, <2>1 DEF VersionOK
<1>6. DirtyOK(p, f, j) /\ TodoOK(p, f, j) /\ CountOK(p, C) /\ FinishedOK(p, f, u, j, C)
  BY DEF DirtyOK, TodoOK, CountOK, FinishedOK
<1>7. l \in {2, 3} => j.header = "blank"
  BY DEF QuietOK, Trusting
<1> QED
  BY <1>1, <1>4, <1>5, <1>6, <1>7, WriterMoves

LEMMA RollbackData ==
    ASSUME IInv, DataInv, ~FaultsWhenEmpty, NEW c \in Conns, Rollback(c)
    PROVE  DataInv'
<1> DEFINE q == pager[c]
<1>1. q.eState \in Writing /\ q.pc \in {"idle", "mustRollback"} /\ UNCHANGED diskVars
  BY DEF Rollback
<1>2. CASE q.eState = "WRITER_LOCKED"
  BY <1>1, <1>2, NothingWritten DEF Rollback
<1>3. CASE q.eState # "WRITER_LOCKED"
  <2> DEFINE todo == DOMAIN journal.records
             p == [[q EXCEPT !.pc = "truncate"] EXCEPT !.todo = todo]
  <2>1. pager' = [pager EXCEPT ![c].pc = "truncate", ![c].todo = todo]
        /\ lock' = [lock EXCEPT ![c] = lock[c]]
    BY <1>3, SameLockData DEF Rollback
  <2> HIDE DEF todo
  <2>2. SameWriter(p, q) /\ p.pc = "truncate" /\ p.todo = todo /\ pager' = [pager EXCEPT ![c] = p]
    BY <2>1, IsReady DEF Fields, SameWriter
  <2> HIDE DEF p
  <2>3. q.eState = "WRITER_FINISHED" \/ q.pc \in WritingFile => Committed[1] # 0
    BY <1>1 DEF Rollback, Fails, WritingFile
  <2>4. q.eState \in Modifying
    BY <1>1, <1>3 DEF Writing, Modifying
  <2>5. PagerOK(p, lock[c], file, unsynced, journal, Committed)
    BY <1>1, <2>2, <2>3, <2>4, IsOK, IsTyped, GivingUp DEF todo
  <2> QED
    BY <1>1, <2>1, <2>2, <2>5, MovingOnly
<1> QED
  BY <1>2, <1>3

(* A pager that failed. *)
LEMMA FailedData ==
    ASSUME IInv, DataInv, NEW c \in Conns, UNCHANGED diskVars, NEW l,
           pager' = [pager EXCEPT ![c] = Failed(c)], lock' = [lock EXCEPT ![c] = l],
           l = 1 \/ l = lock[c], Committed[1] # 0
    PROVE  DataInv'
<1> DEFINE p == Failed(c)
           q == pager[c]
<1>1. /\ p.eState = "ERROR" /\ p.pc = "idle" /\ SameWriter([p EXCEPT !.eState = q.eState], q)
      /\ p.cache = q.cache /\ p.dirty = q.dirty /\ p.dbSize = q.dbSize /\ p.dbFileVers = q.dbFileVers
  BY IsReady DEF Failed, Fields, SameWriter
<1> HIDE DEF p
<1>2. PagerOK(q, lock[c], file, unsynced, journal, Committed)
  BY IsOK
<1> USE <1>1, <1>2 DEF PagerOK, Modifying, Active, GivenUp, Undoing
<1>3. PagerType(p) /\ RestingOK(p, Committed) /\ ReadingOK(p, Committed)
  BY DEF PagerType, RestingOK, Resting, ReadingOK
<1>4. QuietOK(p, l, journal) /\ VersionOK(p, Committed) /\ HotOK(p, file, unsynced, journal, Committed)
  BY DEF QuietOK, Trusting, VersionOK, HotOK
<1>5. JournalOK(p, journal, Committed) /\ DirtyOK(p, file, journal) /\ TodoOK(p, file, journal)
  BY DEF JournalOK, DirtyOK, TodoOK
<1>6. CountOK(p, Committed) /\ FinishedOK(p, file, unsynced, journal, Committed)
      /\ UndoneOK(p, file, unsynced, journal, Committed)
  BY DEF CountOK, FinishedOK, UndoneOK
<1>7. PagerOK(p, l, file, unsynced, journal, Committed)
  BY <1>3, <1>4, <1>5, <1>6
<1>8. pager' = [pager EXCEPT ![c] = p]
  BY DEF p
<1> QED
  BY <1>7, <1>8, MovingOnly

LEMMA IOErrorData ==
    ASSUME IInv, DataInv, ~FaultsWhenEmpty, NEW c \in Conns, IOError(c)
    PROVE  DataInv'
<1> DEFINE q == pager[c]
<1>1. Committed[1] # 0 /\ UNCHANGED diskVars
  BY DEF IOError, Fails
<1>2. lock[c] = lock[c] /\ lock = [lock EXCEPT ![c] = lock[c]]
  BY SameLockData
<1>3. CASE /\ q.pc \in WritingFile
           /\ IF q.committing THEN Goto(c, "mustRollback")
              ELSE pager' = [pager EXCEPT ![c] = Failed(c)]
           /\ UNCHANGED lock
  <2>1. CASE pager' = [pager EXCEPT ![c] = Failed(c)]
    BY <1>1, <1>2, <1>3, <2>1, FailedData
  <2>2. CASE Goto(c, "mustRollback")
    <3> DEFINE p == [pager[c] EXCEPT !.pc = "mustRollback"]
    <3>1. pager' = [pager EXCEPT ![c] = p] /\ SameWriter(p, q) /\ p.pc = "mustRollback"
      BY <2>2, PCData DEF Goto, SameData, SameWriter
    <3> HIDE DEF p
    <3>2. q.eState \in Modifying
      <4>1. q.eState \in Writing
        BY <1>3, WritingFileState
      <4>2. q.eState # "WRITER_LOCKED"
        BY <1>3, IsOK DEF PagerOK, ReadingOK, WritingFile
      <4> QED
        BY <4>1, <4>2 DEF Writing, Modifying
    <3>3. PagerOK(p, lock[c], file, unsynced, journal, Committed)
      BY <1>1, <1>3, <3>1, <3>2, IsOK, IsTyped, GivingUp
    <3> QED
      BY <1>1, <1>2, <1>3, <3>1, <3>3, MovingOnly
  <2> QED
    BY <1>3, <2>1, <2>2
<1>4. CASE /\ InTransaction(c) /\ q.eState = "WRITER_FINISHED"
           /\ pager' = [pager EXCEPT ![c] = Failed(c)]
           /\ SetLock(c, SHARED_LOCK)
  BY <1>1, <1>4, FailedData, LockNumbers DEF SetLock
<1>5. CASE /\ q.pc \in Undoing
           /\ IF q.eState = "OPEN" THEN pager_unlock(c, TRUE)
              ELSE /\ pager' = [pager EXCEPT ![c] = Failed(c)]
                   /\ SetLock(c, IF At(c, "finalize") THEN SHARED_LOCK ELSE lock[c])
  <2>1. CASE pager_unlock(c, TRUE)
    BY <1>1, <2>1, UnlockingData
  <2>2. CASE /\ pager' = [pager EXCEPT ![c] = Failed(c)]
             /\ SetLock(c, IF At(c, "finalize") THEN SHARED_LOCK ELSE lock[c])
    BY <1>1, <2>2, FailedData, LockNumbers DEF SetLock
  <2> QED
    BY <1>5, <2>1, <2>2
<1> QED
  BY <1>3, <1>4, <1>5 DEF IOError, WritingFile, Undoing

LEMMA ErrorUnlockData == ASSUME IInv, DataInv, NEW c \in Conns, ErrorUnlock(c) PROVE DataInv'
<1>1. pager[c].eState = "ERROR" /\ pager_unlock(c, TRUE) /\ UNCHANGED diskVars
  BY DEF ErrorUnlock
<1>2. Committed[1] = 0 => pager[c].dbFileVers = 0
  BY <1>1, IsOK DEF PagerOK, VersionOK, Concluding
<1> QED
  BY <1>1, <1>2, UnlockingData

LEMMA NewPagerOK ==
    ASSUME NEW f, NEW u, NEW j, NEW C
    PROVE  PagerOK(NewPager, 0, f, u, j, C)
<1>1. PagerType(NewPager) /\ RestingOK(NewPager, C)
  BY PagerAssumption DEF PagerType, RestingOK, NewPager
<1> QED
  BY <1>1 DEF PagerOK, NewPager, ReadingOK, QuietOK, Trusting, VersionOK, HotOK, Undoing, JournalOK,
       Modifying, DirtyOK, TodoOK, CountOK, FinishedOK, UndoneOK, Active

LEMMA ProcessCrashData ==
    ASSUME IInv, DataInv, NEW P, ProcessCrash(P)
    PROVE  DataInv'
<1>1. file' = file /\ unsynced' = unsynced /\ journal' = journal /\ forgotten' = forgotten
      /\ Committed' = Committed
  BY DEF ProcessCrash, diskVars, Committed
<1>2. \A c \in Conns : IF c \in P THEN pager'[c] = NewPager /\ lock'[c] = 0
                       ELSE pager'[c] = pager[c] /\ lock'[c] = lock[c]
  BY LockNumbers DEF ProcessCrash
<1>3. \A c \in Conns : PagerOK(pager'[c], lock'[c], file, unsynced, journal, Committed)
  BY <1>2, NewPagerOK DEF DataInv
<1> QED
  BY <1>1, <1>3 DEF DataInv

-----------------------------------------------------------------------------
(* What the steps do to the disk. *)

LEMMA NoJournalFacts ==
    /\ JournalType(NoJournal) /\ NoJournal.header = "blank" /\ ~NoJournal.exists
    /\ NoJournal.size = 0 /\ DOMAIN NoJournal.records = {} /\ NoJournal.marked = {}
    /\ NoJournal.synced = {}
  BY PagerAssumption DEF JournalType, NoJournal

(* The journal goes, and the file is what is committed. *)
LEMMA JournalGone ==
    ASSUME NEW f, NEW u, NEW j, NEW fg, NEW C, DiskOK(f, u, j, fg, C),
           NEW fg2, fg2 \subseteq fg \cup {j},
           f[1] # 0 => \A q \in Pages : u[q] \subseteq {f[q]},
           f[1] = 0 => \A q \in Pages : f[q] = 0
    PROVE  Restore(f, NoJournal) = f /\ DiskOK(f, u, NoJournal, fg2, f)
<1>1. DiskType(f, u, NoJournal, fg2) /\ Restore(f, NoJournal) = f
  BY NoJournalFacts, Content DEF DiskOK, DiskType
<1>2. \A i \in fg2 \cup {NoJournal} : NotEmpty(f, u, i)
  BY NoJournalFacts DEF DiskOK, NotEmpty, Hot
<1> QED
  BY <1>1, <1>2, NoJournalFacts DEF DiskOK, Kept

Synced(j) == [j EXCEPT !.synced = j.marked, !.header = IF @ = "blank" THEN @ ELSE "synced"]

LEMMA SyncedFacts ==
    ASSUME NEW j, JournalType(j)
    PROVE  /\ JournalType(Synced(j)) /\ Synced(j).synced = j.marked /\ Synced(j).marked = j.marked
           /\ Synced(j).header = IF j.header = "blank" THEN "blank" ELSE "synced"
           /\ Synced(j).records = j.records /\ Synced(j).size = j.size /\ Synced(j).exists = j.exists
  BY DEF JournalType, Synced

LEMMA JournalSynced ==
    ASSUME NEW f, NEW u, NEW j, NEW fg, NEW C, DiskOK(f, u, j, fg, C)
    PROVE  Restore(f, Synced(j)) = Restore(f, j) /\ DiskOK(f, u, Synced(j), {}, C)
<1>1. JournalType(j)
  BY DEF DiskOK, DiskType
<1>2. Restore(f, Synced(j)) = Restore(f, j)
  BY <1>1, SyncedFacts DEF Restore, Hot
<1>3. \A q \in Pages : Kept(j, q) => Kept(Synced(j), q)
  BY <1>1, SyncedFacts DEF Kept, JournalType
<1>4. NotEmpty(f, u, Synced(j))
  BY <1>1, SyncedFacts DEF DiskOK, NotEmpty, Hot
<1>5. DiskType(f, u, Synced(j), {})
  BY <1>1, SyncedFacts DEF DiskOK, DiskType
<1> QED
  BY <1>2, <1>3, <1>4, <1>5 DEF DiskOK

(* Pages are written that the journal keeps. *)
LEMMA FileWritten ==
    ASSUME NEW f, NEW u, NEW j, NEW fg, NEW C, DiskOK(f, u, j, fg, C),
           j.header = "synced", C = Restore(f, j),
           NEW f2 \in [Pages -> Nat], NEW u2 \in [Pages -> SUBSET Nat],
           \A q \in Pages : Kept(j, q) \/ (f2[q] = f[q] /\ u2[q] = u[q]),
           j.size > 0 => f2[1] # 0 /\ 0 \notin u2[1]
    PROVE  Restore(f2, j) = C /\ DiskOK(f2, u2, j, fg, C)
<1>1. JournalType(j) /\ fg = {}
  BY DEF DiskOK, DiskType
<1>2. \A q \in Pages : Kept(j, q) => q > j.size \/ q \in j.marked
  BY <1>1 DEF Kept, JournalType
<1>3. Restore(f2, j) = C
  BY <1>1, <1>2 DEF Restore, Hot, JournalType
<1>4. DiskType(f2, u2, j, fg)
  BY <1>1 DEF DiskType
<1>5. \A i \in fg \cup {j} : NotEmpty(f2, u2, i)
  BY <1>1 DEF DiskOK, NotEmpty
<1> QED
  BY <1>1, <1>3, <1>4, <1>5 DEF DiskOK

LEMMA FileSynced ==
    ASSUME NEW f, NEW u, NEW j, NEW fg, NEW C, DiskOK(f, u, j, fg, C),
           NEW u2, u2 = [q \in Pages |-> {}]
    PROVE  DiskOK(f, u2, j, fg, C)
<1>1. u2 \in [Pages -> SUBSET Nat] /\ \A q \in Pages : u2[q] = {}
  OBVIOUS
<1>2. \A i \in fg \cup {j} : NotEmpty(f, u2, i)
  BY <1>1, FirstPage DEF DiskOK, NotEmpty
<1> QED
  BY <1>1, <1>2 DEF DiskOK, DiskType

(* Under an EXCLUSIVE lock there is nobody else. *)
LEMMA Alone ==
    ASSUME IInv, NEW c \in Conns, lock[c] = 4
    PROVE  \A o \in Others(c) : lock[o] = 0
  BY LockNumbers DEF IInv, LockedAsNeeded

LEMMA IsDiskOK ==
    ASSUME DataInv
    PROVE  DiskOK(file, unsynced, journal, forgotten, Committed) /\ Committed = Restore(file, journal)
  BY DEF DataInv, Committed

-----------------------------------------------------------------------------
(* A hot journal. *)

LEMMA DiscardJournalData ==
    ASSUME IInv, DataInv, NEW c \in Conns, DiscardJournal(c)
    PROVE  DataInv' /\ Committed' = Committed
<1> DEFINE p == [pager[c] EXCEPT !.pc = "validate"]
           q == pager[c]
<1>1. pager' = [pager EXCEPT ![c] = p] /\ SameData(p, q) /\ p.pc = "validate"
  BY PCData DEF DiscardJournal, Goto
<1>2. /\ q.pc = "discard" /\ file' = file /\ unsynced' = unsynced
      /\ lock' = [lock EXCEPT ![c] = lock[c]]
  BY SameLockData DEF DiscardJournal, At
<1>3. q.eState = "OPEN" /\ lock[c] >= 1
  BY <1>2, CheckingState DEF Checking
<1> HIDE DEF p
<1>4. PagerOK(q, lock[c], file, unsynced, journal, Committed)
  BY IsOK
<1>5. \A x \in Pages : file[x] = 0
  BY <1>2, <1>4 DEF PagerOK, HotOK
<1>6. CASE Grants(c, RESERVED_LOCK)
  <2>1. journal' = NoJournal /\ forgotten' \subseteq forgotten \cup {journal}
    BY <1>6 DEF DiscardJournal, DeleteJournal
  <2>2. \A o \in Others(c) : lock[o] < 2
    BY <1>6, LockNumbers DEF Grants
  <2>3. Committed = file
    <3>1. Hot(journal) => journal.size = 0
      BY <1>5, IsDiskOK, IsTyped, FirstPage DEF DiskOK, NotEmpty, JournalType
    <3>2. \A x \in Pages : Committed[x] = 0
      BY <1>5, <3>1, IsTyped DEF Committed, Restore, Pages
    <3> QED
      BY <1>5, <3>2, IsTyped
  <2>4. Committed' = file /\ DiskOK(file, unsynced, NoJournal, forgotten', file)
    BY <1>2, <1>5, <2>1, IsDiskOK, JournalGone, FirstPage DEF Committed
  <2>5. PagerOK(p, lock[c], file, unsynced, NoJournal, Committed)
    BY <1>1, <1>3, <1>4, NoJournalFacts, OpenMoves DEF Checking
  <2>6. Undisturbed(c)
    BY <1>2, <2>1, <2>2, <2>3, <2>4, NoJournalFacts DEF Undisturbed
  <2>7. DiskOK(file, unsynced, journal, forgotten, Committed)'
    BY <1>2, <2>1, <2>4
  <2>8. PagerOK(p, lock[c], file', unsynced', journal', Committed')
    BY <1>2, <2>1, <2>3, <2>4, <2>5
  <2> QED
    BY <1>1, <1>2, <2>3, <2>4, <2>6, <2>7, <2>8, Moving
<1>7. CASE ~Grants(c, RESERVED_LOCK)
  <2>1. UNCHANGED diskVars
    BY <1>2, <1>7 DEF DiscardJournal, diskVars
  <2>2. PICK o \in Others(c) : ~(lock[o] < 2)
    BY <1>7, LockNumbers DEF Grants
  <2>3. journal.header = "blank"
    <3>1. lock[o] >= 2
      BY <2>2, IsReady DEF Others
    <3> QED
      BY <1>3, <3>1, ReservedMeansBlank
  <2>4. PagerOK(p, lock[c], file, unsynced, journal, Committed)
    BY <1>1, <1>3, <1>4, <2>3, OpenMoves DEF Checking
  <2> QED
    BY <1>1, <1>2, <2>1, <2>4, MovingOnly DEF Committed, diskVars
<1> QED
  BY <1>6, <1>7

LEMMA HotMoves ==
    ASSUME NEW q, NEW p, NEW l, NEW f, NEW u, NEW j, NEW C, NEW f2, NEW u2, NEW j2,
           PagerOK(q, l, f, u, j, C), q.eState = "OPEN", p.eState = "OPEN", p.pc \in Undoing,
           p.cache = q.cache \/ p.cache = <<>>,
           p.dirty = q.dirty, p.dbSize = q.dbSize, p.dbFileVers = q.dbFileVers,
           p.changeCountDone = q.changeCountDone, p.committing = q.committing,
           HotOK(p, f2, u2, j2, C)
    PROVE  PagerOK(p, 4, f2, u2, j2, C)
<1> USE DEF PagerOK, Undoing, Modifying, Active
<1>1. PagerType(p) /\ RestingOK(p, C)
  <2>1. CASE p.cache = q.cache
    BY <2>1 DEF PagerType, RestingOK
  <2>2. CASE p.cache = <<>>
    BY <2>2 DEF PagerType, RestingOK, Resting
  <2> QED
    BY <2>1, <2>2
<1>2. ReadingOK(p, C) /\ QuietOK(p, 4, j2) /\ VersionOK(p, C)
  BY DEF ReadingOK, QuietOK, Trusting, VersionOK, Concluding
<1>3. JournalOK(p, j2, C) /\ DirtyOK(p, f2, j2) /\ TodoOK(p, f2, j2)
  BY DEF JournalOK, DirtyOK, TodoOK
<1>4. CountOK(p, C) /\ FinishedOK(p, f2, u2, j2, C) /\ UndoneOK(p, f2, u2, j2, C)
  BY DEF CountOK, FinishedOK, UndoneOK
<1> QED
  BY <1>1, <1>2, <1>3, <1>4

(* A step under the EXCLUSIVE lock that leaves what is committed. *)
LEMMA MovingAlone ==
    ASSUME IInv, DataInv, NEW c \in Conns, NEW p, NEW l, lock[c] = 4,
           pager' = [pager EXCEPT ![c] = p], lock' = [lock EXCEPT ![c] = l],
           Committed' = Committed,
           DiskOK(file', unsynced', journal', forgotten', Committed),
           PagerOK(p, l, file', unsynced', journal', Committed)
    PROVE  DataInv'
<1>1. Undisturbed(c)
  BY Alone DEF Undisturbed
<1>2. DiskOK(file, unsynced, journal, forgotten, Committed)'
  OBVIOUS
<1>3. PagerOK(p, l, file', unsynced', journal', Committed')
  OBVIOUS
<1> QED
  BY <1>1, <1>2, <1>3, Moving

LEMMA SyncHotJournalData ==
    ASSUME IInv, DataInv, NEW c \in Conns, SyncHotJournal(c)
    PROVE  DataInv' /\ Committed' = Committed
<1> DEFINE todo == IF journal.header = "blank" THEN {} ELSE journal.marked
           p == [[pager[c] EXCEPT !.pc = "truncate"] EXCEPT !.todo = todo]
           q == pager[c]
<1>1. q.pc = "syncHot" /\ q.eState = "OPEN" /\ lock[c] = 4
  BY IsReady DEF SyncHotJournal, Ready, At, Checking, Undoing, Writing, WritingFile
<1>2. /\ journal' = Synced(journal) /\ forgotten' = {} /\ file' = file /\ unsynced' = unsynced
      /\ lock' = [lock EXCEPT ![c] = lock[c]]
  BY SameLockData DEF SyncHotJournal, SyncJournalFile, Synced
<1>3. pager' = [pager EXCEPT ![c].pc = "truncate", ![c].todo = todo]
  BY DEF SyncHotJournal
<1>4. todo = journal.marked
  BY IsTyped DEF JournalType
<1> HIDE DEF todo
<1>5. SameData(p, q) /\ p.pc = "truncate" /\ p.todo = todo /\ pager' = [pager EXCEPT ![c] = p]
  BY <1>3, IsReady DEF Fields, SameData
<1> HIDE DEF p
<1>6. DiskOK(file, unsynced, Synced(journal), {}, Committed) /\ Committed' = Committed
  BY <1>2, IsDiskOK, JournalSynced DEF Committed
<1>7. PagerOK(q, lock[c], file, unsynced, journal, Committed)
  BY IsOK
<1>8. JournalType(Synced(journal)) /\ Synced(journal).synced = journal.marked
      /\ Synced(journal).marked = journal.marked /\ Synced(journal).header \in {"blank", "synced"}
      /\ Synced(journal).exists = journal.exists
  BY IsTyped, SyncedFacts
<1>9. HotOK(p, file, unsynced, Synced(journal), Committed)
  BY <1>1, <1>4, <1>5, <1>7, <1>8 DEF PagerOK, HotOK, SameData
<1>10. PagerOK(p, 4, file, unsynced, Synced(journal), Committed)
  BY <1>1, <1>5, <1>7, <1>9, HotMoves DEF SameData, Undoing
<1> QED
  BY <1>1, <1>2, <1>5, <1>6, <1>10, MovingAlone

-----------------------------------------------------------------------------
(* The playback of a journal, hot or not. *)

(* Whoever plays a journal back is a reader with a hot one or a writer. *)
LEMMA UndoerState ==
    ASSUME IInv, DataInv, NEW c \in Conns, pager[c].pc \in Undoing
    PROVE  \/ pager[c].eState = "OPEN" /\ lock[c] = 4
           \/ pager[c].eState \in Modifying /\ (lock[c] = 4 \/ pager[c].eState = "WRITER_CACHEMOD")
<1>1. lock[c] \in 0 .. 4 /\ Ready(pager[c], lock[c])
  BY IsReady
<1>2. \/ pager[c].eState = "OPEN" /\ lock[c] = 4
      \/ pager[c].eState \in Writing
         /\ (pager[c].eState \in {"WRITER_DBMOD", "WRITER_FINISHED"} => lock[c] = 4)
  BY <1>1 DEF Ready, Checking, Undoing, WritingFile, Writing
<1>3. pager[c].eState # "WRITER_LOCKED"
  BY IsOK DEF PagerOK, ReadingOK, Undoing
<1> QED
  BY <1>2, <1>3 DEF Writing, Modifying

(* What holds of a writer that undoes what it did. *)
LEMMA UndoerMoves ==
    ASSUME NEW q, NEW p, NEW l, NEW f, NEW u, NEW j, NEW C, NEW f2, NEW u2,
           JournalType(j), PagerOK(q, l, f, u, j, C), q.eState \in Modifying, q.pc \in Undoing,
           p.eState = q.eState, p.pc \in Undoing, PagerType(p),
           \A x \in DOMAIN p.cache : p.cache[x] = q.cache[x] \/ x \in DOMAIN j.records,
           DOMAIN p.cache = DOMAIN q.cache,
           UndoneOK(p, f2, u2, j, C)
    PROVE  PagerOK(p, l, f2, u2, j, C)
<1> USE DEF PagerOK, Undoing, Modifying, Active, GivenUp
<1>1. JournalOK(p, j, C)
  BY DEF JournalOK
<1>2. RestingOK(p, C) /\ ReadingOK(p, C) /\ QuietOK(p, l, j) /\ HotOK(p, f2, u2, j, C)
  BY DEF RestingOK, Resting, ReadingOK, QuietOK, Trusting, HotOK
<1>3. VersionOK(p, C)
  <2>1. C[1] = 0 => 1 \notin DOMAIN j.records
    BY DEF JournalOK, JournalType
  <2> QED
    BY <2>1 DEF VersionOK, UndoneOK
<1>4. DirtyOK(p, f2, j) /\ TodoOK(p, f2, j) /\ CountOK(p, C) /\ FinishedOK(p, f2, u2, j, C)
  BY DEF DirtyOK, TodoOK, CountOK, FinishedOK
<1> QED
  BY <1>1, <1>2, <1>3, <1>4

LEMMA WrittenPages ==
    ASSUME DataInv, NEW changes, WriteFile(changes),
           \A x \in DOMAIN changes \cap Pages : changes[x] \in Nat
    PROVE  /\ file' \in [Pages -> Nat] /\ unsynced' \in [Pages -> SUBSET Nat]
           /\ \A x \in Pages : x \in DOMAIN changes =>
                 file'[x] = changes[x] /\ unsynced'[x] = unsynced[x] \cup {file[x]}
           /\ \A x \in Pages : x \notin DOMAIN changes =>
                 file'[x] = file[x] /\ unsynced'[x] = unsynced[x]
<1>1. file \in [Pages -> Nat] /\ unsynced \in [Pages -> SUBSET Nat]
  BY IsTyped
<1>2. file' \in [Pages -> Nat]
  BY <1>1 DEF WriteFile
<1>3. unsynced' \in [Pages -> SUBSET Nat]
  BY <1>1 DEF WriteFile
<1> QED
  BY <1>2, <1>3 DEF WriteFile

LEMMA TruncateFileData ==
    ASSUME IInv, DataInv, NEW c \in Conns, TruncateFile(c)
    PROVE  DataInv' /\ Committed' = Committed
<1> DEFINE p == [pager[c] EXCEPT !.pc = "playback"]
           q == pager[c]
<1>1. /\ pager' = [pager EXCEPT ![c] = p] /\ SameData(p, q) /\ p.pc = "playback"
      /\ p.todo = q.todo
  BY PCData DEF TruncateFile, Goto
<1>2. /\ q.pc = "truncate" /\ journal' = journal /\ forgotten' = forgotten
      /\ lock' = [lock EXCEPT ![c] = lock[c]]
  BY SameLockData DEF TruncateFile, At
<1> HIDE DEF p
<1>3. PagerOK(q, lock[c], file, unsynced, journal, Committed)
  BY IsOK
<1>4. \/ q.eState = "OPEN" /\ lock[c] = 4
      \/ q.eState \in Modifying /\ (lock[c] = 4 \/ q.eState = "WRITER_CACHEMOD")
  BY <1>2, UndoerState DEF Undoing
<1>5. JournalType(journal) /\ file \in [Pages -> Nat] /\ Committed \in [Pages -> Nat]
  BY IsTyped
<1>8. UNCHANGED diskVars => Committed' = Committed
  BY DEF diskVars, Committed
<1>6. CASE q.eState = "WRITER_CACHEMOD" \/ journal.header = "blank"
  <2>1. UNCHANGED diskVars
    BY <1>2, <1>6 DEF TruncateFile, Untouched, diskVars
  <2>2. \A x \in Pages : file[x] = Committed[x]
    <3>1. journal.header # "synced"
      BY <1>3, <1>6 DEF PagerOK, JournalOK, Modifying
    <3> QED
      BY <3>1, IsDiskOK DEF DiskOK, Kept
  <2>3. CASE q.eState = "OPEN"
    <3>1. HotOK(p, file, unsynced, journal, Committed)
      BY <1>1, <1>2, <1>3, <2>2, <2>3 DEF PagerOK, HotOK, SameData, Undoing
    <3>2. PagerOK(p, 4, file, unsynced, journal, Committed)
      BY <1>1, <1>3, <2>3, <3>1, HotMoves DEF SameData, Undoing
    <3>3. lock[c] = 4
      BY <1>4, <2>3 DEF Modifying
    <3> QED
      BY <1>1, <1>2, <1>8, <2>1, <3>2, <3>3, MovingOnly
  <2>4. CASE q.eState \in Modifying
    <3>1. UndoneOK(p, file, unsynced, journal, Committed)
      BY <1>1, <1>2, <1>3, <1>5, <2>2, <2>4
         DEF PagerOK, JournalOK, UndoneOK, SameData, Undoing, GivenUp
    <3>2. PagerOK(p, lock[c], file, unsynced, journal, Committed)
      <4>1. PagerType(p)
        BY <1>1, <1>3 DEF PagerOK, PagerType, SameData
      <4> QED
        BY <1>1, <1>2, <1>3, <1>5, <2>4, <3>1, <4>1, UndoerMoves DEF SameData, Undoing
    <3> QED
      BY <1>1, <1>2, <1>8, <2>1, <3>2, MovingOnly
  <2> QED
    BY <1>4, <2>3, <2>4
<1>7. CASE ~(q.eState = "WRITER_CACHEMOD" \/ journal.header = "blank")
  <2>1. WriteFile(Beyond(journal.size)) /\ lock[c] = 4
    BY <1>4, <1>7 DEF TruncateFile, Untouched
  <2>2. journal.header = "synced" /\ journal.exists
    BY <1>2, <1>3, <1>4, <1>5, <1>7 DEF PagerOK, HotOK, JournalOK, Undoing, JournalType, Modifying
  <2>3. \A x \in Pages : Committed[x] = IF x > journal.size THEN 0
                           ELSE IF x \in journal.marked THEN journal.records[x] ELSE file[x]
    BY <2>2 DEF Committed, Restore, Hot
  <2>4. /\ file' \in [Pages -> Nat] /\ unsynced' \in [Pages -> SUBSET Nat]
        /\ \A x \in Pages : x > journal.size => file'[x] = 0
        /\ \A x \in Pages : ~(x > journal.size) => file'[x] = file[x] /\ unsynced'[x] = unsynced[x]
    <3>1. /\ DOMAIN Beyond(journal.size) = {x \in Pages : x > journal.size}
          /\ \A x \in DOMAIN Beyond(journal.size) : Beyond(journal.size)[x] = 0
      BY DEF Beyond
    <3>2. \A x \in DOMAIN Beyond(journal.size) \cap Pages : Beyond(journal.size)[x] \in Nat
      BY <3>1
    <3> QED
      BY <2>1, <3>1, <3>2, WrittenPages
  <2>5. journal.size > 0 => file'[1] # 0 /\ 0 \notin unsynced'[1]
    <3>1. journal.size > 0 => file[1] # 0 /\ 0 \notin unsynced[1] /\ ~(1 > journal.size)
      BY <1>5, <2>2, IsDiskOK DEF DiskOK, NotEmpty, Hot, JournalType
    <3> QED
      BY <2>4, <3>1, FirstPage
  <2>6. Committed' = Committed /\ DiskOK(file', unsynced', journal', forgotten', Committed)
    <3>1. \A x \in Pages : Kept(journal, x) \/ (file'[x] = file[x] /\ unsynced'[x] = unsynced[x])
      BY <2>2, <2>4 DEF Kept
    <3>2. Restore(file', journal) = Committed
          /\ DiskOK(file', unsynced', journal, forgotten, Committed)
      BY <2>2, <2>4, <2>5, <3>1, IsDiskOK, FileWritten
    <3> QED
      BY <1>2, <3>2 DEF Committed
  <2>7. CASE q.eState = "OPEN"
    <3>1. \A x \in Pages : x \notin journal.marked => file'[x] = Committed[x]
      BY <2>3, <2>4
    <3>2. HotOK(p, file', unsynced', journal, Committed)
      BY <1>1, <1>2, <1>3, <2>7, <3>1 DEF PagerOK, HotOK, SameData, Undoing
    <3>3. PagerOK(p, 4, file', unsynced', journal, Committed)
      BY <1>1, <1>3, <2>7, <3>2, HotMoves DEF SameData, Undoing
    <3> QED
      BY <1>1, <1>2, <2>1, <2>6, <3>3, MovingAlone
  <2>8. CASE q.eState \in Modifying
    <3>1. \A x \in Pages : x \notin DOMAIN journal.records => file'[x] = Committed[x]
      BY <1>5, <2>3, <2>4 DEF JournalType
    <3>2. UndoneOK(p, file', unsynced', journal, Committed)
      BY <1>1, <1>2, <1>3, <1>5, <3>1, <2>8
         DEF PagerOK, JournalOK, UndoneOK, SameData, Undoing, GivenUp
    <3>3. PagerOK(p, lock[c], file', unsynced', journal, Committed)
      <4>1. PagerType(p)
        BY <1>1, <1>3 DEF PagerOK, PagerType, SameData
      <4> QED
        BY <1>1, <1>2, <1>3, <1>5, <2>8, <3>2, <4>1, UndoerMoves DEF SameData, Undoing
    <3> QED
      BY <1>1, <1>2, <2>1, <2>6, <3>3, MovingAlone
  <2> QED
    BY <1>4, <2>7, <2>8
<1> QED
  BY <1>6, <1>7

LEMMA PlaybackOnePageData ==
    ASSUME IInv, DataInv, NEW c \in Conns, NEW x \in Pages, PlaybackOnePage(c, x)
    PROVE  DataInv' /\ Committed' = Committed
<1> DEFINE q == pager[c]
           hot == q.eState = "OPEN"
           old == journal.records[x]
           cached == ~hot /\ x \in DOMAIN q.cache
           cache == IF hot THEN <<>> ELSE IF cached THEN Put(q.cache, x, old) ELSE q.cache
           vers == IF x = 1 /\ cached THEN old ELSE q.dbFileVers
           todo == q.todo \ {x}
           p == [q EXCEPT !.todo = todo, !.cache = cache, !.dbFileVers = vers]
           write == ~Untouched(c) /\ (hot \/ x \in journal.synced)
<1>1. /\ q.pc = "playback" /\ x \in q.todo
      /\ journal' = journal /\ forgotten' = forgotten /\ lock' = [lock EXCEPT ![c] = lock[c]]
      /\ pager' = [pager EXCEPT ![c] = p]
      /\ IF write THEN WriteFile([y \in {x} |-> old]) ELSE UNCHANGED <<file, unsynced>>
  BY SameLockData DEF PlaybackOnePage, At
<1>2. /\ write => ~Untouched(c) /\ (hot \/ x \in journal.synced)
      /\ ~write => q.eState = "WRITER_CACHEMOD" \/ (~hot /\ x \notin journal.synced)
  BY DEF Untouched
<1>3. /\ hot => cache = <<>> /\ vers = q.dbFileVers
      /\ ~hot /\ x \in DOMAIN q.cache =>
            /\ DOMAIN cache = DOMAIN q.cache /\ cache[x] = old
            /\ \A y \in DOMAIN q.cache : y # x => cache[y] = q.cache[y]
            /\ vers = IF x = 1 THEN old ELSE q.dbFileVers
      /\ ~hot /\ x \notin DOMAIN q.cache => cache = q.cache /\ vers = q.dbFileVers
  BY DEF Put
<1> HIDE DEF cache, vers, write
<1>4. /\ p.eState = q.eState /\ p.pc = q.pc /\ p.todo = todo /\ p.cache = cache /\ p.dirty = q.dirty
      /\ p.dbSize = q.dbSize /\ p.dbFileVers = vers /\ p.changeCountDone = q.changeCountDone
      /\ p.committing = q.committing
  BY IsReady DEF Fields
<1> HIDE DEF p
<1>5. PagerOK(q, lock[c], file, unsynced, journal, Committed)
  BY IsOK
<1>6. \/ hot /\ lock[c] = 4
      \/ q.eState \in Modifying /\ (lock[c] = 4 \/ q.eState = "WRITER_CACHEMOD")
  BY <1>1, UndoerState DEF Undoing
<1>7. JournalType(journal) /\ file \in [Pages -> Nat] /\ Committed \in [Pages -> Nat]
  BY IsTyped
<1>8. hot => x \in journal.marked /\ journal.synced = journal.marked /\ journal.header = "synced"
  BY <1>1, <1>5, <1>7 DEF PagerOK, HotOK, Undoing, JournalType
<1>9. ~hot => /\ x \in DOMAIN journal.records /\ journal.records[x] = Committed[x]
              /\ q.eState # "WRITER_CACHEMOD" => journal.header = "synced"
              /\ q.eState = "WRITER_CACHEMOD" => journal.header # "synced"
  BY <1>1, <1>5, <1>6 DEF PagerOK, UndoneOK, JournalOK, GivenUp, Undoing
<1>10. x \in DOMAIN journal.records /\ old \in Nat /\ ~(x > journal.size)
  BY <1>7, <1>8, <1>9 DEF JournalType, Pages
<1>11. old = Committed[x]
  <2>1. CASE hot
    <3>1. Hot(journal)
      BY <1>7, <1>8, <2>1 DEF Hot, JournalType
    <3> QED
      BY <1>8, <1>10, <2>1, <3>1 DEF Committed, Restore
  <2> QED
    BY <1>9, <2>1
<1>12. ASSUME write
       PROVE  /\ lock[c] = 4 /\ journal.header = "synced" /\ x \in journal.synced
              /\ file' \in [Pages -> Nat] /\ unsynced' \in [Pages -> SUBSET Nat]
              /\ file'[x] = old /\ unsynced'[x] = unsynced[x] \cup {file[x]}
              /\ \A y \in Pages : y # x => file'[y] = file[y] /\ unsynced'[y] = unsynced[y]
              /\ Committed' = Committed /\ DiskOK(file', unsynced', journal, forgotten, Committed)
  <2>1. lock[c] = 4 /\ journal.header = "synced" /\ x \in journal.synced
    BY <1>2, <1>6, <1>8, <1>9, <1>12 DEF Untouched
  <2>2. /\ file' \in [Pages -> Nat] /\ unsynced' \in [Pages -> SUBSET Nat]
        /\ file'[x] = old /\ unsynced'[x] = unsynced[x] \cup {file[x]}
        /\ \A y \in Pages : y # x => file'[y] = file[y] /\ unsynced'[y] = unsynced[y]
    <3>1. WriteFile([y \in {x} |-> old])
      BY <1>1, <1>12
    <3> HIDE DEF old
    <3>2. /\ \A y \in DOMAIN [z \in {x} |-> old] \cap Pages : [z \in {x} |-> old][y] \in Nat
          /\ DOMAIN [z \in {x} |-> old] = {x} /\ [z \in {x} |-> old][x] = old
      BY <1>10
    <3> QED
      BY <3>1, <3>2, WrittenPages
  <2>3. \A y \in Pages : Kept(journal, y) \/ (file'[y] = file[y] /\ unsynced'[y] = unsynced[y])
    BY <2>1, <2>2 DEF Kept
  <2>4. journal.size > 0 => file'[1] # 0 /\ 0 \notin unsynced'[1]
    <3>1. journal.size > 0 => file[1] # 0 /\ 0 \notin unsynced[1]
                              /\ (1 \in journal.marked => journal.records[1] # 0)
      BY <1>7, <2>1, IsDiskOK DEF DiskOK, NotEmpty, Hot, JournalType
    <3>2. x \in journal.marked
      BY <1>7, <2>1 DEF JournalType
    <3> QED
      BY <2>2, <3>1, <3>2, FirstPage
  <2>5. Restore(file', journal) = Committed
        /\ DiskOK(file', unsynced', journal, forgotten, Committed)
    BY <2>1, <2>2, <2>3, <2>4, IsDiskOK, FileWritten
  <2> QED
    BY <1>1, <2>1, <2>2, <2>5 DEF Committed
<1>13. ~write => UNCHANGED diskVars /\ file[x] = Committed[x]
  <2>1. ~write => ~Kept(journal, x)
    BY <1>2, <1>9, <1>10 DEF Kept
  <2> QED
    BY <1>1, <2>1, IsDiskOK DEF DiskOK, diskVars
<1>14. file'[x] = Committed[x] /\ \A y \in Pages : y # x => file'[y] = file[y]
  BY <1>11, <1>12, <1>13 DEF diskVars
<1>15. CASE hot
  <2>1. HotOK(p, file', unsynced', journal, Committed)
    BY <1>1, <1>4, <1>5, <1>14, <1>15 DEF PagerOK, HotOK, Undoing
  <2>2. PagerOK(p, 4, file', unsynced', journal, Committed)
    BY <1>1, <1>3, <1>4, <1>5, <1>15, <2>1, HotMoves DEF Undoing
  <2>3. write
    BY <1>15 DEF write, Untouched
  <2> QED
    BY <1>1, <1>12, <2>2, <2>3, MovingAlone, <1>6, <1>15
<1>16. CASE q.eState \in Modifying
  <2>1. /\ DOMAIN cache = DOMAIN q.cache
        /\ \A y \in DOMAIN cache : y # x => cache[y] = q.cache[y]
        /\ x \in DOMAIN cache =>
             cache[x] = Committed[x] /\ vers = IF x = 1 THEN Committed[1] ELSE q.dbFileVers
        /\ x \notin DOMAIN cache => vers = q.dbFileVers
    BY <1>3, <1>11, <1>16 DEF Modifying
  <2>2. PagerType(p)
    <3>1. PagerType(q) /\ Committed[1] \in Nat /\ Committed[x] \in Nat
      BY <1>5, <1>7, FirstPage DEF PagerOK
    <3> QED
      BY <1>4, <2>1, <3>1 DEF PagerType
  <2>3. UndoneOK(p, file', unsynced', journal, Committed)
    <3>1. /\ q.todo \subseteq DOMAIN journal.records
          /\ \/ q.dbFileVers = Committed[1]
             \/ 1 \in DOMAIN q.cache /\ 1 \in DOMAIN journal.records /\ 1 \in q.todo
          /\ \A y \in Pages : y \notin q.todo => file[y] = Committed[y]
          /\ \A y \in DOMAIN q.cache : y \notin q.todo /\ y <= journal.size => q.cache[y] = Committed[y]
      BY <1>1, <1>5, <1>16 DEF PagerOK, UndoneOK, GivenUp, Undoing
    <3>2. \/ vers = Committed[1]
          \/ 1 \in DOMAIN cache /\ 1 \in DOMAIN journal.records /\ 1 \in todo
      BY <2>1, <3>1
    <3>3. \A y \in Pages : y \notin todo => file'[y] = Committed[y]
      BY <1>14, <3>1
    <3>4. \A y \in DOMAIN cache : y \notin todo /\ y <= journal.size => cache[y] = Committed[y]
      BY <2>1, <3>1
    <3> QED
      BY <1>1, <1>4, <3>1, <3>2, <3>3, <3>4 DEF UndoneOK, GivenUp, Undoing
  <2>4. PagerOK(p, lock[c], file', unsynced', journal, Committed)
    BY <1>1, <1>4, <1>5, <1>7, <1>10, <1>16, <2>1, <2>2, <2>3, UndoerMoves DEF Undoing
  <2>5. CASE write
    BY <1>1, <1>12, <2>4, <2>5, MovingAlone
  <2>6. CASE ~write
    <3>1. UNCHANGED diskVars
      BY <1>13, <2>6
    <3>2. PagerOK(p, lock[c], file, unsynced, journal, Committed)
      BY <2>4, <3>1 DEF diskVars
    <3> QED
      BY <1>1, <3>1, <3>2, MovingOnly DEF diskVars, Committed
  <2> QED
    BY <2>5, <2>6
<1> QED
  BY <1>6, <1>15, <1>16

LEMMA SyncPlaybackData ==
    ASSUME IInv, DataInv, NEW c \in Conns, SyncPlayback(c)
    PROVE  DataInv' /\ Committed' = Committed
<1> DEFINE p == [pager[c] EXCEPT !.pc = "finalize"]
           q == pager[c]
<1>1. /\ pager' = [pager EXCEPT ![c] = p] /\ SameData(p, q) /\ p.pc = "finalize"
      /\ p.todo = q.todo
  BY PCData DEF SyncPlayback, Goto
<1>2. /\ q.pc = "playback" /\ q.todo = {} /\ journal' = journal /\ forgotten' = forgotten
      /\ file' = file /\ Committed' = Committed /\ lock' = [lock EXCEPT ![c] = lock[c]]
      /\ IF q.eState = "WRITER_CACHEMOD" THEN unsynced' = unsynced
         ELSE unsynced' = [x \in Pages |-> {}]
  BY SameLockData DEF SyncPlayback, SyncFile, Untouched, At, Committed
<1> HIDE DEF p
<1>3. PagerOK(q, lock[c], file, unsynced, journal, Committed)
  BY IsOK
<1>4. \/ q.eState = "OPEN" /\ lock[c] = 4
      \/ q.eState \in Modifying /\ (lock[c] = 4 \/ q.eState = "WRITER_CACHEMOD")
  BY <1>2, UndoerState DEF Undoing
<1>5. JournalType(journal)
  BY IsTyped
<1>6. CASE q.eState = "OPEN"
  <2>1. \A x \in Pages : unsynced'[x] = {}
    BY <1>2, <1>6
  <2>2. HotOK(p, file, unsynced', journal, Committed)
    BY <1>1, <1>2, <1>3, <1>6, <2>1 DEF PagerOK, HotOK, SameData, Undoing
  <2>3. PagerOK(p, 4, file', unsynced', journal', Committed)
    BY <1>1, <1>2, <1>3, <1>6, <2>2, HotMoves DEF SameData, Undoing
  <2>4. DiskOK(file', unsynced', journal', forgotten', Committed)
    BY <1>2, <1>6, IsDiskOK, FileSynced
  <2> QED
    BY <1>1, <1>2, <1>4, <1>6, <2>3, <2>4, MovingAlone DEF Modifying
<1>7. CASE q.eState \in Modifying
  <2>1. q.eState # "WRITER_CACHEMOD" => \A x \in Pages : unsynced'[x] = {}
    BY <1>2
  <2>2. UndoneOK(p, file, unsynced', journal, Committed)
    BY <1>1, <1>2, <1>3, <1>7, <2>1 DEF PagerOK, UndoneOK, SameData, Undoing, GivenUp
  <2>3. PagerType(p)
    BY <1>1, <1>3 DEF PagerOK, PagerType, SameData
  <2>4. PagerOK(p, lock[c], file, unsynced', journal, Committed)
    BY <1>1, <1>2, <1>3, <1>5, <1>7, <2>2, <2>3, UndoerMoves DEF SameData, Undoing
  <2>5. CASE q.eState = "WRITER_CACHEMOD"
    <3>1. UNCHANGED diskVars
      BY <1>2, <2>5 DEF diskVars
    <3>2. PagerOK(p, lock[c], file, unsynced, journal, Committed)
      BY <2>4, <3>1 DEF diskVars
    <3> QED
      BY <1>1, <1>2, <3>1, <3>2, MovingOnly
  <2>6. CASE q.eState # "WRITER_CACHEMOD"
    <3>1. DiskOK(file', unsynced', journal', forgotten', Committed)
      BY <1>2, <2>6, IsDiskOK, FileSynced
    <3>2. PagerOK(p, lock[c], file', unsynced', journal', Committed) /\ lock[c] = 4
      BY <1>2, <1>4, <1>7, <2>4, <2>6 DEF Modifying
    <3> QED
      BY <1>1, <1>2, <3>1, <3>2, MovingAlone
  <2> QED
    BY <2>5, <2>6
<1> QED
  BY <1>4, <1>6, <1>7

(* Under a RESERVED lock the others have a SHARED one at most. *)
LEMMA AloneToWrite ==
    ASSUME IInv, NEW c \in Conns, lock[c] >= 2
    PROVE  \A o \in Others(c) : lock[o] < 2
<1> SUFFICES ASSUME NEW o \in Others(c) PROVE lock[o] < 2
  OBVIOUS
<1>1. lock[o] \in 0 .. 4 /\ ~(lock[o] >= 2)
  BY IsReady, LockNumbers DEF IInv, LockedAsNeeded, Others
<1> QED
  BY <1>1

LEMMA EndPlaybackData ==
    ASSUME IInv, DataInv, NEW c \in Conns, EndPlayback(c)
    PROVE  DataInv' /\ Committed' = Committed
<1> DEFINE q == pager[c]
           p == IF q.eState = "OPEN" THEN [q EXCEPT !.pc = "validate"]
                ELSE Ended(c, "READER", "idle", journal.size)
<1>1. /\ q.pc = "finalize" /\ journal' = NoJournal /\ forgotten' \subseteq forgotten \cup {journal}
      /\ file' = file /\ unsynced' = unsynced /\ lock' = [lock EXCEPT ![c] = 1]
      /\ pager' = [pager EXCEPT ![c] = p]
  BY LockNumbers DEF EndPlayback, DeleteJournal, SetLock, At
<1>2. PagerOK(q, lock[c], file, unsynced, journal, Committed)
  BY IsOK
<1>3. lock[c] >= 2 /\ (q.eState = "OPEN" \/ q.eState \in Modifying)
  BY <1>1, UndoerState, UndoingState DEF Undoing
<1>4. JournalType(journal) /\ file \in [Pages -> Nat] /\ Committed \in [Pages -> Nat]
      /\ (Committed[1] = 0 => \A x \in Pages : Committed[x] = 0)
  BY IsTyped
<1>5. Committed = file
  <2>1. \A x \in Pages : file[x] = Committed[x]
    BY <1>1, <1>2, <1>3 DEF PagerOK, HotOK, UndoneOK, GivenUp, Undoing
  <2> QED
    BY <1>4, <2>1
<1>6. file[1] # 0 => \A x \in Pages : unsynced[x] \subseteq {file[x]}
  <2>1. CASE q.eState = "WRITER_CACHEMOD"
    <3>1. journal.header # "synced"
      BY <1>2, <2>1 DEF PagerOK, JournalOK, Modifying
    <3> QED
      BY <1>5, <3>1, IsDiskOK DEF DiskOK, Kept
  <2>2. CASE q.eState # "WRITER_CACHEMOD"
    <3>1. \A x \in Pages : unsynced[x] = {}
      BY <1>1, <1>2, <1>3, <2>2 DEF PagerOK, HotOK, UndoneOK, GivenUp, Undoing
    <3> QED
      BY <3>1
  <2> QED
    BY <2>1, <2>2
<1>7. Committed' = file /\ DiskOK(file, unsynced, NoJournal, forgotten', file)
  BY <1>1, <1>4, <1>5, <1>6, IsDiskOK, JournalGone DEF Committed
<1>8. Undisturbed(c)
  BY <1>1, <1>3, <1>5, <1>7, AloneToWrite, NoJournalFacts DEF Undisturbed
<1>9. PagerOK(p, 1, file, unsynced, NoJournal, Committed)
  <2>1. CASE q.eState = "OPEN"
    <3>1. SameData(p, q) /\ p.pc = "validate"
      BY <2>1, PCData
    <3> HIDE DEF p
    <3> QED
      BY <1>2, <2>1, <3>1, NoJournalFacts, OpenMoves DEF Checking
  <2>2. CASE q.eState \in Modifying
    <3>1. /\ PagerType(q) /\ q.dbFileVers = Committed[1]
          /\ \A x \in DOMAIN q.cache : x <= journal.size => q.cache[x] = Committed[x]
      BY <1>1, <1>2, <2>2 DEF PagerOK, UndoneOK, GivenUp, Undoing
    <3>2. /\ \A x \in Pages : x > journal.size => Committed[x] = 0
          /\ journal.size = 0 <=> Committed[1] = 0
      BY <1>2, <2>2 DEF PagerOK, JournalOK
    <3>3. journal.size \in 0 .. PageCount
      BY <1>4 DEF JournalType
    <3>4. PagerOK(Ended(c, "READER", "idle", journal.size), 1, file, unsynced, NoJournal, Committed)
      BY <1>4, <3>1, <3>2, <3>3, NoJournalFacts, EndingReader
    <3> QED
      BY <2>2, <3>4 DEF Modifying
  <2> QED
    BY <1>3, <2>1, <2>2
<1> HIDE DEF p
<1>10. DiskOK(file, unsynced, journal, forgotten, Committed)'
       /\ PagerOK(p, 1, file', unsynced', journal', Committed')
  BY <1>1, <1>5, <1>7, <1>9
<1> QED
  BY <1>1, <1>5, <1>7, <1>8, <1>10, Moving

-----------------------------------------------------------------------------
(* The commit. *)

LEMMA CommitPhaseTwoData ==
    ASSUME IInv, DataInv, NEW c \in Conns, CommitPhaseTwo(c)
    PROVE  DataInv'
<1> DEFINE q == pager[c]
           p == Ended(c, "READER", "idle", q.dbSize)
<1>1. /\ q.pc = "idle" /\ q.eState \in {"WRITER_LOCKED", "WRITER_FINISHED"}
      /\ file' = file /\ unsynced' = unsynced /\ lock' = [lock EXCEPT ![c] = 1]
      /\ pager' = [pager EXCEPT ![c] = p]
  BY LockNumbers DEF CommitPhaseTwo, InTransaction, SetLock, At
<1>2. CASE q.eState = "WRITER_LOCKED"
  BY <1>2, NothingWritten DEF CommitPhaseTwo, diskVars
<1>3. CASE q.eState = "WRITER_FINISHED"
  <2>1. journal' = NoJournal /\ forgotten' \subseteq forgotten \cup {journal}
    BY <1>3 DEF CommitPhaseTwo, DeleteJournal
  <2>2. PagerOK(q, lock[c], file, unsynced, journal, Committed)
    BY IsOK
  <2>3. lock[c] = 4
    BY <1>3, WriterState DEF Writing
  <2>4. file \in [Pages -> Nat] /\ Committed[1] \in Nat
    BY IsTyped
  <2>5. /\ q.dirty = {} /\ q.dbFileVers = Committed[1] + 1 /\ file[1] = Committed[1] + 1
        /\ \A x \in Pages : unsynced[x] = {}
    BY <1>1, <1>3, <2>2 DEF PagerOK, FinishedOK, Active, Modifying, GivenUp, Undoing
  <2>6. /\ \A x \in Pages : x > q.dbSize => file[x] = 0
        /\ q.dbSize > 0
        /\ \A x \in DOMAIN q.cache : q.cache[x] = file[x]
    BY <1>1, <1>3, <2>2, <2>5 DEF PagerOK, DirtyOK, Active, Modifying, GivenUp, Undoing
  <2>7. Committed' = file /\ DiskOK(file, unsynced, NoJournal, forgotten', file)
    BY <1>1, <2>1, <2>4, <2>5, IsDiskOK, JournalGone DEF Committed
  <2>8. Undisturbed(c)
    BY <2>3, <2>4, <2>5, <2>7, Alone DEF Undisturbed
  <2>9. PagerOK(p, 1, file, unsynced, NoJournal, file)
    <3>1. PagerType(q) /\ q.dbSize \in 0 .. PageCount /\ ~(q.dbSize = 0) /\ ~(file[1] = 0)
      BY <2>2, <2>4, <2>5, <2>6 DEF PagerOK, PagerType
    <3> QED
      BY <2>4, <2>5, <2>6, <3>1, NoJournalFacts, EndingReader
  <2> HIDE DEF p
  <2>10. DiskOK(file, unsynced, journal, forgotten, Committed)'
         /\ PagerOK(p, 1, file', unsynced', journal', Committed')
    BY <1>1, <2>1, <2>7, <2>9
  <2> QED
    BY <1>1, <2>8, <2>10, Moving
<1> QED
  BY <1>1, <1>2, <1>3

-----------------------------------------------------------------------------
(* Writers, when they write. *)

(* What has to hold of a writer that goes on. *)
LEMMA ActiveOK ==
    ASSUME NEW p, NEW l, NEW f, NEW u, NEW j, NEW C,
           PagerType(p), p.eState \in Modifying, p.pc \in {"idle", "lock"} \cup WritingFile,
           l \in {2, 3} => j.header = "blank",
           JournalOK(p, j, C), DirtyOK(p, f, j), TodoOK(p, f, j), CountOK(p, C),
           FinishedOK(p, f, u, j, C), VersionOK(p, C)
    PROVE  PagerOK(p, l, f, u, j, C)
<1>1. RestingOK(p, C) /\ ReadingOK(p, C)
  BY DEF RestingOK, Resting, ReadingOK, Modifying
<1>2. QuietOK(p, l, j) /\ HotOK(p, f, u, j, C)
  BY DEF QuietOK, Trusting, HotOK, Modifying, WritingFile, Undoing
<1>3. UndoneOK(p, f, u, j, C)
  BY DEF UndoneOK, GivenUp, Undoing, WritingFile
<1> QED
  BY <1>1, <1>2, <1>3 DEF PagerOK

(* Whoever writes to a file has an EXCLUSIVE lock. *)
LEMMA WritingState ==
    ASSUME IInv, DataInv, NEW c \in Conns, pager[c].pc \in WritingFile
    PROVE  /\ pager[c].eState \in {"WRITER_CACHEMOD", "WRITER_DBMOD"} /\ lock[c] = 4
           /\ pager[c].pc \in {"write", "syncFile"} => pager[c].eState = "WRITER_DBMOD"
<1>1. pager[c].eState \in Writing /\ lock[c] = 4
  BY IsReady DEF Ready, Checking, Undoing, Writing, WritingFile
<1>2. pager[c].eState # "WRITER_LOCKED"
  BY IsOK DEF PagerOK, ReadingOK, WritingFile
<1>3. JournalOK(pager[c], journal, Committed)
  BY IsOK DEF PagerOK
<1> QED
  BY <1>1, <1>2, <1>3 DEF JournalOK, Modifying, Writing, WritingFile, Undoing

LEMMA MarkRecordsData ==
    ASSUME IInv, DataInv, NEW c \in Conns, MarkRecords(c)
    PROVE  DataInv' /\ Committed' = Committed
<1> DEFINE p == [pager[c] EXCEPT !.pc = "sync"]
           q == pager[c]
           header == IF journal.header = "blank" THEN "written" ELSE journal.header
           j == [journal EXCEPT !.header = header, !.marked = DOMAIN journal.records]
<1>1. /\ pager' = [pager EXCEPT ![c] = p] /\ SameData(p, q) /\ p.pc = "sync"
      /\ p.todo = q.todo
  BY PCData DEF MarkRecords, Goto
<1>2. /\ q.pc = "mark" /\ file' = file /\ unsynced' = unsynced /\ forgotten' = forgotten
      /\ lock' = [lock EXCEPT ![c] = lock[c]] /\ journal' = j
  BY SameLockData DEF MarkRecords, At
<1> HIDE DEF p
<1>3. PagerOK(q, lock[c], file, unsynced, journal, Committed)
  BY IsOK
<1>4. q.eState \in {"WRITER_CACHEMOD", "WRITER_DBMOD"} /\ lock[c] = 4
  BY <1>2, WritingState DEF WritingFile
<1>5. JournalType(journal) /\ file \in [Pages -> Nat] /\ Committed \in [Pages -> Nat]
  BY IsTyped
<1>6. /\ j.exists = journal.exists /\ j.size = journal.size /\ j.records = journal.records
      /\ j.marked = DOMAIN journal.records /\ j.synced = journal.synced
      /\ j.header = header /\ DOMAIN j = DOMAIN journal
  BY <1>5 DEF JournalType
<1> HIDE DEF j
<1>7. /\ header # "blank" /\ header \in {"written", "synced"}
      /\ header = "synced" <=> journal.header = "synced"
      /\ q.eState = "WRITER_CACHEMOD" => journal.header = "blank" /\ header = "written"
      /\ q.eState = "WRITER_DBMOD" => header = "synced"
  BY <1>2, <1>3, <1>4, <1>5 DEF PagerOK, JournalOK, Modifying, JournalType
<1> HIDE DEF header
<1>8. /\ journal.exists /\ \A x \in DOMAIN journal.records : journal.records[x] = Committed[x]
      /\ \A x \in Pages : x > journal.size => Committed[x] = 0
      /\ journal.size = 0 <=> Committed[1] = 0
  BY <1>3, <1>4 DEF PagerOK, JournalOK, Modifying
<1>9. JournalType(j)
  BY <1>5, <1>6, <1>7, <1>8 DEF JournalType
<1>10. Restore(file, j) = Committed
  <2>1. Hot(j)
    BY <1>6, <1>7, <1>8 DEF Hot
  <2>2. \A x \in Pages : ~(x > j.size) /\ x \notin j.marked => file[x] = Committed[x]
    BY <1>6, <1>5, NotWritten DEF Pages, JournalType
  <2>3. \A x \in Pages : Restore(file, j)[x] = Committed[x]
    BY <1>6, <1>8, <2>1, <2>2 DEF Restore
  <2> QED
    BY <1>5, <2>3 DEF Restore
<1>11. DiskOK(file, unsynced, j, forgotten, Committed)
  <2>1. DiskType(file, unsynced, j, forgotten)
    BY <1>9, IsDiskOK DEF DiskOK, DiskType
  <2>2. \A x \in Pages : Kept(journal, x) => Kept(j, x)
    BY <1>6, <1>7 DEF Kept
  <2>3. NotEmpty(file, unsynced, j)
    <3>1. ASSUME journal.size > 0 PROVE file[1] # 0 /\ 0 \notin unsynced[1]
      <4>1. Committed[1] # 0 /\ 1 \in Pages
        BY <1>5, <1>8, <3>1, FirstPage DEF JournalType
      <4>2. CASE Kept(journal, 1)
        <5>1. Hot(journal)
          BY <1>8, <4>2 DEF Hot, Kept
        <5> QED
          BY <3>1, <5>1, IsDiskOK DEF DiskOK, NotEmpty
      <4>3. CASE ~Kept(journal, 1)
        BY <4>1, <4>3, IsDiskOK DEF DiskOK
      <4> QED
        BY <4>2, <4>3
    <3>2. 1 \in DOMAIN journal.records /\ journal.size > 0 => journal.records[1] # 0
      BY <1>5, <1>8 DEF JournalType
    <3> QED
      BY <1>6, <3>1, <3>2 DEF NotEmpty
  <2>4. j.header = "synced" => forgotten = {}
    BY <1>6, <1>7, IsDiskOK DEF DiskOK
  <2> QED
    BY <2>1, <2>2, <2>3, <2>4, IsDiskOK DEF DiskOK
<1>12. PagerOK(p, 4, file, unsynced, j, Committed)
  <2> USE <1>1, <1>2, <1>3, <1>4, <1>6, <1>7 DEF PagerOK, Modifying, Active, GivenUp, Undoing, SameData
  <2>1. PagerType(p) /\ VersionOK(p, Committed)
    BY DEF PagerType, VersionOK, Concluding, CountOK, VersionWritten
  <2>2. JournalOK(p, j, Committed)
    BY DEF JournalOK, WritingFile
  <2>3. DirtyOK(p, file, j) /\ TodoOK(p, file, j)
    BY DEF DirtyOK, TodoOK
  <2>4. CountOK(p, Committed) /\ FinishedOK(p, file, unsynced, j, Committed)
    BY DEF CountOK, FinishedOK, VersionWritten
  <2> QED
    BY <2>1, <2>2, <2>3, <2>4, ActiveOK DEF WritingFile
<1>13. Committed' = Committed
  BY <1>2, <1>10 DEF Committed
<1> QED
  BY <1>1, <1>2, <1>4, <1>11, <1>12, <1>13, MovingAlone

LEMMA SyncJournalData ==
    ASSUME IInv, DataInv, NEW c \in Conns, SyncJournal(c)
    PROVE  DataInv' /\ Committed' = Committed
<1> DEFINE p == [[pager[c] EXCEPT !.pc = "write"] EXCEPT !.eState = "WRITER_DBMOD"]
           q == pager[c]
           j == Synced(journal)
<1>1. /\ q.pc = "sync" /\ journal' = j /\ forgotten' = {} /\ file' = file /\ unsynced' = unsynced
      /\ lock' = [lock EXCEPT ![c] = lock[c]]
  BY SameLockData DEF SyncJournal, SyncJournalFile, Synced, At
<1>2. pager' = [pager EXCEPT ![c].pc = "write", ![c].eState = "WRITER_DBMOD"]
  BY DEF SyncJournal
<1>3. /\ p.eState = "WRITER_DBMOD" /\ p.pc = "write" /\ p.cache = q.cache /\ p.dirty = q.dirty
      /\ p.dbSize = q.dbSize /\ p.dbFileVers = q.dbFileVers /\ p.todo = q.todo
      /\ p.changeCountDone = q.changeCountDone /\ p.committing = q.committing
      /\ pager' = [pager EXCEPT ![c] = p]
  BY <1>2, IsReady DEF Fields
<1> HIDE DEF p
<1>4. PagerOK(q, lock[c], file, unsynced, journal, Committed)
  BY IsOK
<1>5. q.eState \in {"WRITER_CACHEMOD", "WRITER_DBMOD"} /\ lock[c] = 4
  BY <1>1, WritingState DEF WritingFile
<1>6. JournalType(journal) /\ journal.header # "blank" /\ journal.marked = DOMAIN journal.records
  BY <1>1, <1>4, <1>5, IsTyped DEF PagerOK, JournalOK, Modifying
<1>7. /\ j.synced = DOMAIN journal.records /\ j.marked = DOMAIN journal.records
      /\ j.header = "synced" /\ j.records = journal.records /\ j.size = journal.size
      /\ j.exists = journal.exists
  BY <1>6, SyncedFacts
<1>8. DiskOK(file, unsynced, j, {}, Committed) /\ Committed' = Committed
  BY <1>1, IsDiskOK, JournalSynced DEF Committed
<1> HIDE DEF j
<1>9. PagerOK(p, 4, file, unsynced, j, Committed)
  <2> USE <1>1, <1>3, <1>4, <1>5, <1>7 DEF PagerOK, Modifying, Active, GivenUp, Undoing
  <2>1. PagerType(p) /\ VersionOK(p, Committed)
    BY DEF PagerType, VersionOK, Concluding, CountOK, VersionWritten
  <2>2. JournalOK(p, j, Committed)
    BY DEF JournalOK, WritingFile
  <2>3. DirtyOK(p, file, j)
    BY DEF DirtyOK
  <2>4. TodoOK(p, file, j)
    BY DEF TodoOK, DirtyOK
  <2>5. CountOK(p, Committed)
    BY DEF CountOK, TodoOK, VersionWritten
  <2>6. FinishedOK(p, file, unsynced, j, Committed)
    BY DEF FinishedOK
  <2> QED
    BY <2>1, <2>2, <2>3, <2>4, <2>5, <2>6, ActiveOK DEF WritingFile
<1> QED
  BY <1>1, <1>3, <1>5, <1>8, <1>9, MovingAlone

LEMMA WriteDirtyPageData ==
    ASSUME IInv, DataInv, NEW c \in Conns, NEW x \in Pages, WriteDirtyPage(c, x)
    PROVE  DataInv' /\ Committed' = Committed
<1> DEFINE q == pager[c]
           rest == q.todo \ {x}
           dirty == IF q.committing THEN q.dirty ELSE q.dirty \ {x}
           vers == IF x = 1 THEN q.cache[1] ELSE q.dbFileVers
           cache == IF q.committing THEN q.cache ELSE [y \in DOMAIN q.cache \ {x} |-> q.cache[y]]
           pc == IF rest # {} THEN q.pc ELSE IF q.committing THEN "syncFile" ELSE "idle"
           p == [q EXCEPT !.todo = rest, !.dirty = dirty, !.dbFileVers = vers, !.cache = cache, !.pc = pc]
<1>1. /\ q.pc = "write" /\ x \in q.todo
      /\ journal' = journal /\ forgotten' = forgotten /\ lock' = [lock EXCEPT ![c] = lock[c]]
      /\ pager' = [pager EXCEPT ![c] = p]
      /\ WriteFile([y \in {x} |-> q.cache[x]])
  BY SameLockData DEF WriteDirtyPage, At
<1>2. /\ q.committing => dirty = q.dirty /\ cache = q.cache
      /\ ~q.committing => /\ dirty = q.dirty \ {x} /\ DOMAIN cache = DOMAIN q.cache \ {x}
                          /\ \A y \in DOMAIN cache : cache[y] = q.cache[y]
      /\ pc \in {"write", "syncFile", "idle"}
      /\ pc = "syncFile" => rest = {} /\ q.committing
      /\ q.committing => pc \in {"write", "syncFile"}
      /\ x = 1 => vers = q.cache[1]
      /\ x # 1 => vers = q.dbFileVers
  BY <1>1
<1> HIDE DEF dirty, cache, pc, vers
<1>3. /\ p.eState = q.eState /\ p.pc = pc /\ p.todo = rest /\ p.cache = cache /\ p.dirty = dirty
      /\ p.dbSize = q.dbSize /\ p.dbFileVers = vers /\ p.changeCountDone = q.changeCountDone
      /\ p.committing = q.committing
  BY IsReady DEF Fields
<1> HIDE DEF p
<1>4. PagerOK(q, lock[c], file, unsynced, journal, Committed)
  BY IsOK
<1>5. q.eState = "WRITER_DBMOD" /\ lock[c] = 4
  BY <1>1, WritingState DEF WritingFile
<1>6. JournalType(journal) /\ file \in [Pages -> Nat] /\ Committed[1] \in Nat
  BY IsTyped
<1>7. /\ journal.header = "synced" /\ journal.exists
      /\ x \in q.dirty /\ x \in DOMAIN q.cache /\ x <= q.dbSize /\ q.cache[x] \in Nat
      /\ x \in journal.synced \/ x > journal.size
      /\ ~q.committing => x # 1
  BY <1>1, <1>4, <1>5
     DEF PagerOK, PagerType, JournalOK, DirtyOK, TodoOK, Active, Modifying, GivenUp, Undoing
<1>8. /\ file' \in [Pages -> Nat] /\ unsynced' \in [Pages -> SUBSET Nat]
      /\ file'[x] = q.cache[x] /\ unsynced'[x] = unsynced[x] \cup {file[x]}
      /\ \A y \in Pages : y # x => file'[y] = file[y] /\ unsynced'[y] = unsynced[y]
  <2> DEFINE v == q.cache[x]
  <2>1. WriteFile([y \in {x} |-> v]) /\ v \in Nat
    BY <1>1, <1>7
  <2> HIDE DEF v
  <2>2. /\ \A y \in DOMAIN [z \in {x} |-> v] \cap Pages : [z \in {x} |-> v][y] \in Nat
        /\ DOMAIN [z \in {x} |-> v] = {x} /\ [z \in {x} |-> v][x] = v
    BY <2>1
  <2>3. /\ file' \in [Pages -> Nat] /\ unsynced' \in [Pages -> SUBSET Nat]
        /\ file'[x] = v /\ unsynced'[x] = unsynced[x] \cup {file[x]}
        /\ \A y \in Pages : y # x => file'[y] = file[y] /\ unsynced'[y] = unsynced[y]
    BY <2>1, <2>2, WrittenPages
  <2> QED
    BY <2>3 DEF v
<1>9. x = 1 => q.committing /\ q.changeCountDone /\ q.cache[1] = Committed[1] + 1 /\ q.cache[1] # 0
  BY <1>1, <1>4, <1>5, <1>6, <1>7 DEF PagerOK, CountOK, Active, Modifying, GivenUp, Undoing
<1>10. Committed' = Committed /\ DiskOK(file', unsynced', journal', forgotten', Committed)
  <2>1. \A y \in Pages : Kept(journal, y) \/ (file'[y] = file[y] /\ unsynced'[y] = unsynced[y])
    BY <1>7, <1>8 DEF Kept
  <2>2. journal.size > 0 => file'[1] # 0 /\ 0 \notin unsynced'[1]
    <3>1. journal.size > 0 => file[1] # 0 /\ 0 \notin unsynced[1]
      BY <1>6, <1>7, IsDiskOK DEF DiskOK, NotEmpty, Hot, JournalType
    <3> QED
      BY <1>8, <1>9, <3>1, FirstPage
  <2>3. Restore(file', journal) = Committed
        /\ DiskOK(file', unsynced', journal, forgotten, Committed)
    BY <1>7, <1>8, <2>1, <2>2, IsDiskOK, FileWritten
  <2> QED
    BY <1>1, <2>3 DEF Committed
<1>11. PagerOK(p, 4, file', unsynced', journal, Committed)
  <2> USE <1>1, <1>2, <1>3, <1>4, <1>5, <1>7 DEF PagerOK, Modifying, Active, GivenUp, Undoing
  <2>1. PagerType(p)
    BY DEF PagerType, TodoOK, DirtyOK
  <2>2. VersionOK(p, Committed)
    BY <1>9 DEF VersionOK, Concluding, CountOK
  <2>3. JournalOK(p, journal, Committed)
    BY DEF JournalOK, WritingFile
  <2>4. DirtyOK(p, file', journal)
    <3>1. \A y \in Pages : y > q.dbSize => file'[y] = 0
      <4>1. q.dbSize \in 0 .. PageCount
        BY DEF PagerType
      <4> QED
        BY <1>8, <4>1 DEF DirtyOK, Pages
    <3>2. \A y \in DOMAIN cache : y \notin dirty => cache[y] = file'[y]
      BY <1>8 DEF DirtyOK, PagerType
    <3> QED
      BY <3>1, <3>2 DEF DirtyOK
  <2>5. TodoOK(p, file', journal)
    <3>1. q.committing => \A y \in DOMAIN cache : y \notin rest => cache[y] = file'[y]
      BY <1>8 DEF TodoOK, PagerType
    <3> QED
      BY <3>1 DEF TodoOK
  <2>6. CountOK(p, Committed)
    <3>1. /\ q.changeCountDone => 1 \in q.dirty /\ q.cache[1] = Committed[1] + 1 /\ 1 \in DOMAIN q.cache
          /\ q.committing => q.changeCountDone
          /\ VersionWritten(q) => q.dbFileVers = Committed[1] + 1
          /\ ~VersionWritten(q) => q.dbFileVers = Committed[1]
      BY DEF CountOK, DirtyOK
    <3>2. q.changeCountDone => 1 \in dirty /\ cache[1] = Committed[1] + 1
      BY <3>1
    <3>3. CASE x = 1
      <4>1. VersionWritten(p) /\ vers = Committed[1] + 1
        BY <1>9, <3>3 DEF VersionWritten
      <4> QED
        BY <3>1, <3>2, <4>1 DEF CountOK
    <3>4. CASE x # 1
      <4>1. VersionWritten(p) <=> VersionWritten(q)
        BY <3>4 DEF VersionWritten
      <4> QED
        BY <3>1, <3>2, <3>4, <4>1 DEF CountOK
    <3> QED
      BY <3>3, <3>4
  <2>7. FinishedOK(p, file', unsynced', journal, Committed)
    BY DEF FinishedOK
  <2> QED
    BY <2>1, <2>2, <2>3, <2>4, <2>5, <2>6, <2>7, ActiveOK DEF WritingFile
<1> QED
  BY <1>1, <1>5, <1>10, <1>11, MovingAlone

LEMMA SyncDatabaseData ==
    ASSUME IInv, DataInv, NEW c \in Conns, SyncDatabase(c)
    PROVE  DataInv' /\ Committed' = Committed
<1> DEFINE p == [[[pager[c] EXCEPT !.eState = "WRITER_FINISHED"] EXCEPT !.pc = "idle"] EXCEPT !.dirty = {}]
           q == pager[c]
<1>1. /\ q.pc = "syncFile" /\ journal' = journal /\ forgotten' = forgotten /\ file' = file
      /\ unsynced' = [y \in Pages |-> {}] /\ lock' = [lock EXCEPT ![c] = lock[c]]
      /\ Committed' = Committed
  BY SameLockData DEF SyncDatabase, SyncFile, At, Committed
<1>2. pager' = [pager EXCEPT ![c].eState = "WRITER_FINISHED", ![c].pc = "idle", ![c].dirty = {}]
  BY DEF SyncDatabase
<1>3. /\ p.eState = "WRITER_FINISHED" /\ p.pc = "idle" /\ p.cache = q.cache /\ p.dirty = {}
      /\ p.dbSize = q.dbSize /\ p.dbFileVers = q.dbFileVers /\ p.todo = q.todo
      /\ p.changeCountDone = q.changeCountDone /\ p.committing = q.committing
      /\ pager' = [pager EXCEPT ![c] = p]
  BY <1>2, IsReady DEF Fields
<1> HIDE DEF p
<1>4. PagerOK(q, lock[c], file, unsynced, journal, Committed)
  BY IsOK
<1>5. q.eState = "WRITER_DBMOD" /\ lock[c] = 4
  BY <1>1, WritingState DEF WritingFile
<1>6. /\ q.todo = {} /\ q.committing /\ \A y \in DOMAIN q.cache : q.cache[y] = file[y]
      /\ 1 \in q.dirty /\ 1 \in DOMAIN q.cache /\ q.cache[1] = Committed[1] + 1
      /\ q.dbFileVers = Committed[1] + 1 /\ (1 \in DOMAIN journal.records \/ 1 > journal.size)
  BY <1>1, <1>4, <1>5
     DEF PagerOK, TodoOK, DirtyOK, CountOK, VersionWritten, Active, Modifying, GivenUp, Undoing
<1>7. 1 > journal.size => journal.size = 0
  BY IsTyped DEF JournalType
<1>8. DiskOK(file', unsynced', journal', forgotten', Committed)
  BY <1>1, IsDiskOK, FileSynced
<1>9. \A y \in Pages : unsynced'[y] = {}
  BY <1>1
<1>10. PagerOK(p, 4, file, unsynced', journal, Committed)
  <2> USE <1>1, <1>3, <1>4, <1>5, <1>6 DEF PagerOK, Modifying, Active, GivenUp, Undoing
  <2>1. PagerType(p) /\ VersionOK(p, Committed)
    BY DEF PagerType, VersionOK, Concluding
  <2>2. JournalOK(p, journal, Committed)
    BY DEF JournalOK, WritingFile
  <2>3. DirtyOK(p, file, journal) /\ TodoOK(p, file, journal)
    BY DEF DirtyOK, TodoOK
  <2>4. CountOK(p, Committed)
    BY DEF CountOK
  <2>5. FinishedOK(p, file, unsynced', journal, Committed)
    BY <1>7, <1>9 DEF FinishedOK
  <2> QED
    BY <2>1, <2>2, <2>3, <2>4, <2>5, ActiveOK DEF WritingFile
<1> QED
  BY <1>1, <1>3, <1>5, <1>8, <1>10, MovingAlone

-----------------------------------------------------------------------------
(* Pages change in the cache. *)

(* What a writer may rely on before and after its first write, with the     *)
(* journal that it has or opens.                                            *)
Ground(q, j, C) ==
    /\ JournalType(j) /\ j.exists
    /\ j.header = journal.header /\ j.marked = journal.marked /\ j.synced = journal.synced
    /\ j.header # "blank" => j = journal
    /\ \A y \in DOMAIN j.records : j.records[y] = C[y]
    /\ \A y \in Pages : y > j.size => C[y] = 0
    /\ j.size = 0 <=> C[1] = 0
    /\ \A y \in DOMAIN q.cache : y <= j.size /\ y \notin DOMAIN j.records => q.cache[y] = C[y]
    /\ \A y \in Pages : y <= j.size /\ y \notin DOMAIN j.records => file[y] = C[y]
    /\ q.dirty \subseteq DOMAIN q.cache
    /\ \A y \in q.dirty : y <= q.dbSize /\ (y \in DOMAIN j.records \/ y > j.size)
    /\ \A y \in Pages : y > q.dbSize => file[y] = 0
    /\ \A y \in DOMAIN q.cache : y \notin q.dirty => q.cache[y] = file[y]
    /\ q.dbFileVers = C[1]
    /\ q.changeCountDone => 1 \in q.dirty /\ q.cache[1] = C[1] + 1
    /\ q.committing => q.changeCountDone

LEMMA OpeningGround ==
    ASSUME IInv, DataInv, NEW c \in Conns, pager[c].eState = "WRITER_LOCKED"
    PROVE  /\ Ground(pager[c], OpenJournal(c), Committed) /\ journal.header = "blank"
           /\ ~pager[c].changeCountDone /\ ~pager[c].committing /\ pager[c].dirty = {}
<1> DEFINE q == pager[c]
           j == OpenJournal(c)
<1>1. PagerOK(q, lock[c], file, unsynced, journal, Committed)
  BY IsOK
<1>2. journal.header = "blank" /\ Committed = file
  BY <1>1, BlankMeansCommitted DEF PagerOK, QuietOK, Trusting
<1>3. journal.marked = {} /\ journal.synced = {}
  BY <1>2, IsTyped DEF JournalType
<1>4. PagerType(q)
  BY <1>1 DEF PagerOK
<1>5. /\ j.exists = TRUE /\ j.header = "blank" /\ j.size = q.dbSize /\ DOMAIN j.records = {}
      /\ j.marked = {} /\ j.synced = {} /\ JournalType(j)
  BY <1>4 DEF OpenJournal, NoJournal, JournalType, PagerType
<1> HIDE DEF j
<1>6. /\ q.dbFileVers = Committed[1]
      /\ \A y \in Pages : y > q.dbSize => Committed[y] = 0
      /\ q.dbSize = 0 <=> Committed[1] = 0
      /\ q.dirty = {} /\ ~q.changeCountDone /\ ~q.committing
      /\ \A y \in DOMAIN q.cache : q.cache[y] = Committed[y]
  BY <1>1 DEF PagerOK, ReadingOK, RestingOK, Resting
<1>7. Ground(q, j, Committed)
  BY <1>2, <1>3, <1>5, <1>6 DEF Ground
<1> QED
  BY <1>2, <1>6, <1>7 DEF j

LEMMA ModifyingGround ==
    ASSUME IInv, DataInv, NEW c \in Conns, pager[c].eState \in {"WRITER_CACHEMOD", "WRITER_DBMOD"},
           pager[c].pc = "idle"
    PROVE  Ground(pager[c], journal, Committed)
<1> DEFINE q == pager[c]
<1>1. PagerOK(q, lock[c], file, unsynced, journal, Committed)
  BY IsOK
<1> USE <1>1 DEF PagerOK, Modifying, Active, GivenUp, Undoing
<1>2. JournalType(journal)
  BY IsTyped
<1>3. /\ journal.exists /\ \A y \in DOMAIN journal.records : journal.records[y] = Committed[y]
      /\ \A y \in Pages : y > journal.size => Committed[y] = 0
      /\ journal.size = 0 <=> Committed[1] = 0
      /\ \A y \in DOMAIN q.cache : y <= journal.size /\ y \notin DOMAIN journal.records =>
             q.cache[y] = Committed[y]
  BY DEF JournalOK
<1>4. \A y \in Pages : y <= journal.size /\ y \notin DOMAIN journal.records => file[y] = Committed[y]
  BY NotWritten
<1>5. /\ q.dirty \subseteq DOMAIN q.cache
      /\ \A y \in q.dirty : y <= q.dbSize /\ (y \in DOMAIN journal.records \/ y > journal.size)
      /\ \A y \in Pages : y > q.dbSize => file[y] = 0
      /\ \A y \in DOMAIN q.cache : y \notin q.dirty => q.cache[y] = file[y]
  BY DEF DirtyOK
<1>6. /\ q.dbFileVers = Committed[1]
      /\ q.changeCountDone => 1 \in q.dirty /\ q.cache[1] = Committed[1] + 1
      /\ q.committing => q.changeCountDone
  BY DEF CountOK, VersionWritten
<1> QED
  BY <1>2, <1>3, <1>4, <1>5, <1>6 DEF Ground

(* The journal with the old content of page x, if there is any. *)
Before(q, x) == IF x \in DOMAIN q.cache THEN q.cache[x] ELSE file[x]

Recorded(q, j, x) ==
    IF x > j.size \/ x \in DOMAIN j.records THEN j
    ELSE [j EXCEPT !.records = Put(j.records, x, Before(q, x))]

LEMMA AddedRecord ==
    ASSUME DataInv, NEW q, NEW j, Ground(q, j, Committed), PagerType(q), NEW x \in Pages,
           NEW j2, j2 = Recorded(q, j, x)
    PROVE  /\ JournalType(j2) /\ j2.exists = j.exists /\ j2.header = j.header /\ j2.size = j.size
           /\ j2.marked = j.marked /\ j2.synced = j.synced
           /\ \A y \in DOMAIN j2.records : j2.records[y] = Committed[y]
           /\ DOMAIN j.records \subseteq DOMAIN j2.records
           /\ x \in DOMAIN j2.records \/ x > j.size
<1> DEFINE old == Before(q, x)
<1>1. JournalType(j)
  BY DEF Ground
<1>2. CASE x > j.size \/ x \in DOMAIN j.records
  BY <1>1, <1>2 DEF Ground, Recorded
<1>3. CASE ~(x > j.size \/ x \in DOMAIN j.records)
  <2>1. x <= j.size /\ x \notin DOMAIN j.records
    BY <1>1, <1>3 DEF JournalType, Pages
  <2>2. old = Committed[x] /\ old \in Nat
    BY <2>1, IsTyped DEF Ground, Before
  <2>3. /\ DOMAIN Put(j.records, x, old) = DOMAIN j.records \cup {x}
        /\ Put(j.records, x, old)[x] = old
        /\ \A y \in DOMAIN j.records : Put(j.records, x, old)[y] = j.records[y]
    BY <2>1 DEF Put
  <2>4. /\ j2.records = Put(j.records, x, old) /\ j2.exists = j.exists /\ j2.header = j.header
        /\ j2.size = j.size /\ j2.marked = j.marked /\ j2.synced = j.synced
        /\ DOMAIN j2 = DOMAIN j
    BY <1>1, <1>3 DEF JournalType, Recorded
  <2>5. JournalType(j2)
    BY <1>1, <2>1, <2>2, <2>3, <2>4 DEF JournalType
  <2>6. /\ DOMAIN j2.records = DOMAIN j.records \cup {x} /\ j2.records[x] = old
        /\ \A y \in DOMAIN j.records : j2.records[y] = j.records[y]
    BY <2>3, <2>4
  <2>7. \A y \in DOMAIN j2.records : j2.records[y] = Committed[y]
    BY <2>2, <2>6 DEF Ground
  <2> QED
    BY <2>4, <2>5, <2>6, <2>7
<1> QED
  BY <1>2, <1>3

(* The disk after that. *)
LEMMA DiskWithRecord ==
    ASSUME DataInv, NEW j, JournalType(j), NEW j2, JournalType(j2),
           NEW fg, fg \subseteq forgotten \cup {NoJournal}, journal.header = "synced" => fg = forgotten,
           j.header = journal.header, j.marked = journal.marked, j.synced = journal.synced,
           j.header # "blank" => j = journal,
           j2.exists = j.exists, j2.header = j.header, j2.size = j.size,
           j2.marked = j.marked, j2.synced = j.synced,
           DOMAIN j.records \subseteq DOMAIN j2.records,
           \A y \in DOMAIN j2.records : j2.records[y] = Committed[y],
           \A y \in DOMAIN j.records : j.records[y] = Committed[y]
    PROVE  Restore(file, j2) = Committed /\ DiskOK(file, unsynced, j2, fg, Committed)
<1>1. JournalType(journal) /\ file \in [Pages -> Nat]
  BY IsTyped
<1>2. CASE j.header = "blank"
  <2>1. Restore(file, j2) = Committed
    BY <1>1, <1>2, Content, BlankMeansCommitted
  <2>2. DiskType(file, unsynced, j2, fg)
    BY NoJournalFacts, IsDiskOK DEF DiskOK, DiskType
  <2>3. \A i \in fg \cup {j2} : NotEmpty(file, unsynced, i)
    BY <1>2, NoJournalFacts, IsDiskOK DEF DiskOK, NotEmpty, Hot
  <2>4. \A y \in Pages : ~Kept(journal, y)
    BY <1>2 DEF Kept
  <2> QED
    BY <1>2, <2>1, <2>2, <2>3, <2>4, IsDiskOK DEF DiskOK
<1>3. CASE j.header # "blank"
  <2>1. j = journal /\ (1 \in j.marked => 1 \in DOMAIN j.records)
    BY <1>1, <1>3 DEF JournalType
  <2>2. \A y \in j.marked : y \in DOMAIN j.records /\ j2.records[y] = j.records[y]
    BY <1>1, <2>1 DEF JournalType
  <2>3. Restore(file, j2) = Restore(file, journal)
    BY <2>1, <2>2 DEF Restore, Hot
  <2>4. DiskType(file, unsynced, j2, fg)
    BY NoJournalFacts, IsDiskOK DEF DiskOK, DiskType
  <2>5. \A i \in fg \cup {j2} : NotEmpty(file, unsynced, i)
    <3>1. NotEmpty(file, unsynced, NoJournal)
      BY NoJournalFacts DEF NotEmpty, Hot
    <3>2. NotEmpty(file, unsynced, j2)
      BY <2>1, <2>2, IsDiskOK DEF DiskOK, NotEmpty, Hot
    <3> QED
      BY <3>1, <3>2, IsDiskOK DEF DiskOK
  <2>6. \A y \in Pages : Kept(journal, y) <=> Kept(j2, y)
    BY <2>1 DEF Kept
  <2>7. j2.header = "synced" => fg = {}
    BY <2>1, IsDiskOK DEF DiskOK
  <2> QED
    BY <2>3, <2>4, <2>5, <2>6, <2>7, IsDiskOK DEF DiskOK
<1> QED
  BY <1>2, <1>3

(* A page changes; extra is the pager but for that. *)
LEMMA PuttingData ==
    ASSUME IInv, DataInv, NEW c \in Conns, NEW x \in Pages, NEW v \in Nat, NEW extra,
           PutPage(c, x, v, extra), UNCHANGED <<file, unsynced, lock>>,
           DOMAIN extra = Fields, SameWriter(extra, pager[c]),
           \/ pager[c].eState = "WRITER_LOCKED"
           \/ pager[c].eState \in {"WRITER_CACHEMOD", "WRITER_DBMOD"} /\ pager[c].pc = "idle",
           pager[c].eState = "WRITER_LOCKED" => pager[c].dbSize > 0 \/ x = 1,
           \/ /\ extra.pc = "idle" /\ (x # 1 \/ pager[c].eState = "WRITER_LOCKED")
              /\ extra.changeCountDone = pager[c].changeCountDone
              /\ extra.committing = pager[c].committing
           \/ /\ extra.pc = "lock" /\ x = 1 /\ v = pager[c].dbFileVers + 1
              /\ extra.todo = pager[c].dirty \cup {1}
              /\ extra.changeCountDone /\ extra.committing
    PROVE  DataInv' /\ Committed' = Committed
<1> DEFINE q == pager[c]
           opening == q.eState = "WRITER_LOCKED"
           j == IF opening THEN OpenJournal(c) ELSE journal
           j2 == Recorded(q, j, x)
           eState == IF opening THEN "WRITER_CACHEMOD" ELSE q.eState
           cache == Put(q.cache, x, v)
           dirty == q.dirty \cup {x}
           dbSize == IF x > q.dbSize THEN x ELSE q.dbSize
           p == [extra EXCEPT !.eState = eState, !.cache = cache, !.dirty = dirty, !.dbSize = dbSize]
<1>1. /\ journal' = j2 /\ forgotten' \subseteq forgotten \cup {NoJournal}
      /\ ~opening => forgotten' = forgotten
      /\ pager' = [pager EXCEPT ![c] = p] /\ lock' = [lock EXCEPT ![c] = lock[c]]
      /\ file' = file /\ unsynced' = unsynced
  BY SameLockData DEF PutPage, SameWriter, Recorded, Before
<1>2. PagerOK(q, lock[c], file, unsynced, journal, Committed) /\ PagerType(q)
  BY IsOK DEF PagerOK
<1>3. Ground(q, j, Committed) /\ (opening => journal.header = "blank" /\ ~q.changeCountDone /\ ~q.committing)
  BY OpeningGround, ModifyingGround
<1>4. \/ eState = "WRITER_CACHEMOD" /\ (opening \/ (q.eState = "WRITER_CACHEMOD" /\ q.pc = "idle"))
      \/ eState = "WRITER_DBMOD" /\ q.eState = "WRITER_DBMOD" /\ ~opening /\ q.pc = "idle"
  <2>1. CASE q.eState = "WRITER_LOCKED"
    BY <2>1
  <2>2. CASE q.eState = "WRITER_CACHEMOD" /\ q.pc = "idle"
    BY <2>2
  <2>3. CASE q.eState = "WRITER_DBMOD" /\ q.pc = "idle"
    BY <2>3
  <2> QED
    BY <2>1, <2>2, <2>3
<1> HIDE DEF j
<1>5. /\ JournalType(j2) /\ j2.exists = j.exists /\ j2.header = j.header /\ j2.size = j.size
      /\ j2.marked = j.marked /\ j2.synced = j.synced
      /\ \A y \in DOMAIN j2.records : j2.records[y] = Committed[y]
      /\ DOMAIN j.records \subseteq DOMAIN j2.records
      /\ x \in DOMAIN j2.records \/ x > j.size
  <2> HIDE DEF q
  <2> QED
    BY <1>2, <1>3, AddedRecord
<1> HIDE DEF j2, eState
<1>6. DOMAIN cache = DOMAIN q.cache \cup {x} /\ cache[x] = v
      /\ \A y \in DOMAIN q.cache : y # x => cache[y] = q.cache[y]
  BY DEF Put
<1> HIDE DEF cache
<1>7. q.dbSize \in 0 .. PageCount /\ x \in 1 .. PageCount
  BY <1>2 DEF PagerType, Pages
<1>8. dbSize \in 1 .. PageCount /\ dbSize >= q.dbSize /\ dbSize >= x
  BY <1>7
<1> HIDE DEF dbSize
<1>9. /\ p.eState = eState /\ p.pc = extra.pc /\ p.todo = extra.todo /\ p.cache = cache /\ p.dirty = dirty
      /\ p.dbSize = dbSize /\ p.dbFileVers = q.dbFileVers /\ p.changeCountDone = extra.changeCountDone
      /\ p.committing = extra.committing
  BY DEF Fields, SameWriter
<1> HIDE DEF p
<1>10. Restore(file, j2) = Committed /\ DiskOK(file, unsynced, j2, forgotten', Committed)
  <2>1. journal.header = "synced" => forgotten' = forgotten
    BY <1>1, <1>3
  <2>2. /\ JournalType(j) /\ j.header = journal.header /\ j.marked = journal.marked
        /\ j.synced = journal.synced /\ (j.header # "blank" => j = journal)
        /\ \A y \in DOMAIN j.records : j.records[y] = Committed[y]
    BY <1>3 DEF Ground
  <2> HIDE DEF q, opening
  <2> QED
    BY <1>1, <1>5, <2>1, <2>2, DiskWithRecord
<1>11. Undisturbed(c)
  <2>1. lock[c] >= 2
    BY WriterState DEF Writing
  <2>2. Committed' = Committed
    BY <1>1, <1>10 DEF Committed
  <2>3. journal.header = "blank" => journal'.header = "blank"
    BY <1>1, <1>3, <1>5 DEF Ground
  <2> QED
    BY <1>1, <2>1, <2>2, <2>3, AloneToWrite DEF Undisturbed
<1>12. PagerOK(p, lock[c], file, unsynced, j2, Committed)
  <2> USE <1>2, <1>4, <1>5, <1>6, <1>9
  <2>1. PagerType(p) /\ p.pc \in {"idle", "lock"} /\ p.eState \in Modifying
    BY <1>8 DEF PagerType, Modifying
  <2>2. lock[c] \in {2, 3} => j2.header = "blank"
    BY <1>3, QuietLock DEF Ground
  <2>3. JournalOK(p, j2, Committed)
    <3>1. eState = "WRITER_CACHEMOD" => j2.header = "blank"
      BY <1>3 DEF Ground, PagerOK, JournalOK, Modifying
    <3>2. eState = "WRITER_DBMOD" => j2.header = "synced"
      BY <1>3 DEF Ground, PagerOK, JournalOK, Modifying
    <3>3. \A y \in DOMAIN cache : y <= j2.size /\ y \notin DOMAIN j2.records => cache[y] = Committed[y]
      <4>1. x \in DOMAIN j2.records \/ ~(x <= j2.size)
        BY <1>7 DEF JournalType
      <4> QED
        BY <1>3, <4>1 DEF Ground
    <3> QED
      BY <1>3, <2>1, <3>1, <3>2, <3>3 DEF JournalOK, Ground
  <2>4. DirtyOK(p, file, j2)
    <3>1. dirty \subseteq DOMAIN cache
      BY <1>3 DEF Ground
    <3>2. \A y \in dirty : y <= dbSize /\ (y \in DOMAIN j2.records \/ y > j2.size)
      <4>1. \A y \in q.dirty : y \in 1 .. PageCount
        BY DEF PagerType, Pages
      <4> QED
        BY <1>3, <1>7, <1>8, <4>1 DEF Ground
    <3>3. \A y \in Pages : y > dbSize => file[y] = 0
      BY <1>3, <1>7, <1>8 DEF Ground, Pages
    <3>4. \A y \in DOMAIN cache : y \notin dirty => cache[y] = file[y]
      BY <1>3 DEF Ground
    <3> QED
      BY <1>8, <3>1, <3>2, <3>3, <3>4 DEF DirtyOK
  <2>5. TodoOK(p, file, j2)
    BY DEF TodoOK
  <2>6. CountOK(p, Committed) /\ VersionOK(p, Committed)
    <3>1. q.dbFileVers = Committed[1] /\ ~VersionWritten(p)
      BY <1>3, <2>1 DEF Ground, VersionWritten
    <3>2. p.changeCountDone => 1 \in dirty /\ cache[1] = Committed[1] + 1
      <4>1. q.changeCountDone => 1 \in q.dirty /\ q.cache[1] = Committed[1] + 1 /\ 1 \in DOMAIN q.cache
        BY <1>3 DEF Ground
      <4> QED
        BY <1>3, <3>1, <4>1
    <3>3. p.committing => p.changeCountDone
      BY <1>3 DEF Ground
    <3> QED
      BY <3>1, <3>2, <3>3 DEF CountOK, VersionOK
  <2>7. FinishedOK(p, file, unsynced, j2, Committed)
    BY DEF FinishedOK
  <2> QED
    BY <2>1, <2>2, <2>3, <2>4, <2>5, <2>6, <2>7, ActiveOK
<1>13. Committed' = Committed
  BY <1>1, <1>10 DEF Committed
<1>14. DiskOK(file, unsynced, journal, forgotten, Committed)'
  BY <1>1, <1>10, <1>13
<1>15. PagerOK(p, lock[c], file', unsynced', journal', Committed')
  BY <1>1, <1>12, <1>13
<1> QED
  BY <1>1, <1>11, <1>13, <1>14, <1>15, Moving

LEMMA WritingData ==
    ASSUME IInv, DataInv, txns \in Nat, NEW c \in Conns,
           NewDatabase(c) \/ \E x \in Pages : WritePage(c, x)
    PROVE  DataInv' /\ Committed' = Committed
<1> DEFINE q == pager[c]
           extra == Idle(c)
<1>1. PagerOK(q, lock[c], file, unsynced, journal, Committed)
  BY IsOK
<1>2. /\ DOMAIN extra = Fields /\ SameWriter(extra, q) /\ extra.pc = "idle"
      /\ extra.changeCountDone = q.changeCountDone /\ extra.committing = q.committing
  BY IsReady DEF Idle, Fields, SameWriter
<1> HIDE DEF extra
<1>3. CASE NewDatabase(c)
  <2>1. q.pc = "newDatabase"
    BY <1>3 DEF NewDatabase, At
  <2>2. q.eState \in Writing
    BY <2>1, IsReady DEF Ready, Checking, Undoing, WritingFile
  <2>3. q.eState \notin Modifying
    BY <1>1, <2>1 DEF PagerOK, JournalOK, WritingFile, GivenUp, Undoing
  <2>4. q.eState = "WRITER_LOCKED"
    BY <2>2, <2>3 DEF Writing, Modifying
  <2>5. PutPage(c, 1, 0, extra) /\ UNCHANGED <<file, unsynced, lock>> /\ 0 \in Nat /\ 1 \in Pages
    BY <1>3, FirstPage DEF NewDatabase, extra
  <2> QED
    BY <1>2, <2>4, <2>5, PuttingData
<1>4. CASE \E x \in Pages : WritePage(c, x)
  <2>1. PICK x \in Pages : WritePage(c, x)
    BY <1>4
  <2>2. q.pc = "idle" /\ q.eState \in {"WRITER_LOCKED", "WRITER_CACHEMOD", "WRITER_DBMOD"}
    BY <2>1 DEF WritePage, InTransaction, At, Writing
  <2>3. PutPage(c, x, txns, extra) /\ UNCHANGED <<file, unsynced, lock>> /\ x # 1
    BY <2>1 DEF WritePage, extra
  <2>4. q.eState = "WRITER_LOCKED" => q.dbSize > 0
    BY <1>1, <2>2 DEF PagerOK, ReadingOK, PagerType
  <2> QED
    BY <1>2, <2>2, <2>3, <2>4, PuttingData
<1> QED
  BY <1>3, <1>4

LEMMA CommitPhaseOneData ==
    ASSUME IInv, DataInv, NEW c \in Conns, CommitPhaseOne(c)
    PROVE  DataInv' /\ Committed' = Committed
<1>1. CASE pager[c].changeCountDone
  BY <1>1, CommitAgainData DEF CommitPhaseOne, Committed
<1>2. CASE ~pager[c].changeCountDone
  <2> DEFINE todo == pager[c].dirty \cup IF pager[c].changeCountDone THEN {} ELSE {1}
             extra == [pager[c] EXCEPT !.pc = "lock", !.committing = TRUE, !.changeCountDone = TRUE,
                                       !.todo = todo]
             q == pager[c]
             v == q.dbFileVers + 1
  <2>1. /\ q.eState \in {"WRITER_CACHEMOD", "WRITER_DBMOD"} /\ q.pc = "idle"
        /\ PutPage(c, 1, v, extra) /\ UNCHANGED <<file, unsynced, lock>>
    BY <1>2 DEF CommitPhaseOne, InTransaction, At
  <2>2. todo = q.dirty \cup {1}
    BY <1>2
  <2> HIDE DEF todo
  <2>3. /\ DOMAIN extra = Fields /\ SameWriter(extra, q) /\ extra.pc = "lock"
        /\ extra.todo = todo /\ extra.changeCountDone /\ extra.committing
    BY IsReady DEF Fields, SameWriter
  <2> HIDE DEF extra
  <2>4. v \in Nat /\ 1 \in Pages
    BY IsOK, FirstPage DEF PagerOK, PagerType
  <2>5. v = q.dbFileVers + 1
    OBVIOUS
  <2> HIDE DEF v
  <2> QED
    BY <2>1, <2>2, <2>3, <2>4, <2>5, PuttingData
<1> QED
  BY <1>1, <1>2

-----------------------------------------------------------------------------
(* A power failure. *)

Remains(j, h, M) ==
    [j EXCEPT !.header = h, !.records = [q \in M |-> @[q]], !.marked = M, !.synced = M]

(* What is left of a journal counts what was synced of it. *)
LEMMA Surviving ==
    ASSUME NEW j, JournalType(j), NEW j2 \in Survivors(j)
    PROVE  /\ JournalType(j2) /\ j2.exists = j.exists /\ j2.size = j.size
           /\ j2.header # "written" /\ j2.marked \subseteq j.marked /\ j2.synced = j2.marked
           /\ \A q \in j2.marked : j2.records[q] = j.records[q]
           /\ j2.header = "blank" => j2.marked = {} /\ j.header # "synced"
           /\ j2.header = "synced" => j.header # "blank" /\ j.synced \subseteq j2.marked
<1>1. ASSUME NEW h \in {"blank", "synced"}, NEW M \in SUBSET j.marked, h = "blank" => M = {},
             j2 = Remains(j, h, M),
             ~j.exists => h = "blank"
      PROVE  /\ JournalType(j2) /\ j2.exists = j.exists /\ j2.size = j.size /\ j2.header = h
             /\ j2.marked = M /\ j2.synced = M /\ \A q \in M : j2.records[q] = j.records[q]
  <2> DEFINE r == [q \in M |-> j.records[q]]
  <2>1. DOMAIN r = M /\ \A q \in M : r[q] = j.records[q]
    OBVIOUS
  <2>2. j2 = [j EXCEPT !.header = h, !.records = r, !.marked = M, !.synced = M]
    BY <1>1 DEF Remains
  <2> HIDE DEF r
  <2>3. /\ j2.exists = j.exists /\ j2.size = j.size /\ j2.header = h
        /\ j2.marked = M /\ j2.synced = M /\ j2.records = r /\ DOMAIN j2 = DOMAIN j
    BY <2>2 DEF JournalType
  <2> QED
    BY <1>1, <2>1, <2>3 DEF JournalType
<1>2. CASE j.header # "synced" /\ j2 = Remains(j, "blank", {})
  <2>1. {} \in SUBSET j.marked
    OBVIOUS
  <2>2. /\ JournalType(j2) /\ j2.exists = j.exists /\ j2.size = j.size /\ j2.header = "blank"
        /\ j2.marked = {} /\ j2.synced = {}
    BY <1>1, <1>2, <2>1
  <2> QED
    BY <1>2, <2>2
<1>3. CASE /\ j.header # "blank"
           /\ \E M \in SUBSET j.marked : j.synced \subseteq M /\ j2 = Remains(j, "synced", M)
  <2>1. PICK M \in SUBSET j.marked : j.synced \subseteq M /\ j2 = Remains(j, "synced", M)
    BY <1>3
  <2>2. /\ JournalType(j2) /\ j2.exists = j.exists /\ j2.size = j.size /\ j2.header = "synced"
        /\ j2.marked = M /\ j2.synced = M /\ \A q \in M : j2.records[q] = j.records[q]
    BY <1>1, <1>3, <2>1 DEF JournalType
  <2> QED
    BY <1>3, <2>1, <2>2
<1> QED
  BY <1>2, <1>3 DEF Survivors, Remains

LEMMA PowerFailureData ==
    ASSUME IInv, DataInv, ~FaultsWhenEmpty, PowerFailure
    PROVE  DataInv'
<1>1. Committed[1] # 0
  BY DEF PowerFailure, Fails
<1>2. PICK j \in forgotten \cup {journal} : journal' \in Survivors(j)
  BY DEF PowerFailure
<1>3. /\ \A c \in Conns : pager'[c] = NewPager /\ lock'[c] = 0
      /\ \A q \in Pages : unsynced'[q] = {} /\ file'[q] \in unsynced[q] \cup {file[q]}
      /\ DOMAIN file' = Pages /\ file' = [q \in Pages |-> file'[q]]
      /\ forgotten' = {} /\ unsynced' = [q \in Pages |-> {}]
  BY LockNumbers DEF PowerFailure
<1> DEFINE f == file'
           j2 == journal'
<1>4. JournalType(j) /\ unsynced \in [Pages -> SUBSET Nat] /\ file \in [Pages -> Nat]
  BY IsTyped
<1>5. f \in [Pages -> Nat]
  <2>1. \A q \in Pages : f[q] \in Nat
    BY <1>3, <1>4
  <2> QED
    BY <1>3, <2>1
<1>6. /\ JournalType(j2) /\ j2.exists = j.exists /\ j2.size = j.size
      /\ j2.header # "written" /\ j2.marked \subseteq j.marked /\ j2.synced = j2.marked
      /\ \A q \in j2.marked : j2.records[q] = j.records[q]
      /\ j2.header = "blank" => j2.marked = {} /\ j.header # "synced"
      /\ j2.header = "synced" => j.header # "blank" /\ j.synced \subseteq j2.marked
  <2>1. \A i \in Survivors(j) :
      /\ JournalType(i) /\ i.exists = j.exists /\ i.size = j.size
      /\ i.header # "written" /\ i.marked \subseteq j.marked /\ i.synced = i.marked
      /\ \A q \in i.marked : i.records[q] = j.records[q]
      /\ i.header = "blank" => i.marked = {} /\ j.header # "synced"
      /\ i.header = "synced" => j.header # "blank" /\ j.synced \subseteq i.marked
    BY <1>4, Surviving
  <2> QED
    BY <1>2, <2>1
<1>7. Committed' = Restore(f, j2)
  BY DEF Committed
<1> HIDE DEF f, j2
<1> DEFINE C2 == Restore(f, j2)
           u2 == [q \in Pages |-> {}]
<1>8. C2 \in [Pages -> Nat] /\ (j2.header = "blank" => C2 = f)
  BY <1>5, <1>6, Content
<1>9. j2.header = "synced" => j2.exists /\ Hot(j2) /\ Hot(j)
  BY <1>6 DEF JournalType, Hot
<1>10. j2.header \in {"blank", "synced"}
  BY <1>6 DEF JournalType
<1>11. \A q \in Pages : Kept(j2, q) \/ f[q] = C2[q]
  BY <1>6, <1>8, <1>9, <1>10 DEF Kept, Restore
<1>12. NotEmpty(file, unsynced, j) /\ NotEmpty(f, u2, j2)
  <2>1. NotEmpty(file, unsynced, j)
    BY IsDiskOK DEF DiskOK
  <2>2. Hot(j2) /\ j2.size > 0 => f[1] # 0
    BY <1>3, <1>6, <1>10, <1>9, <2>1, FirstPage DEF NotEmpty, Hot, f
  <2> QED
    BY <1>6, <1>9, <1>10, <2>1, <2>2, FirstPage DEF NotEmpty, Hot
<1>13. C2[1] = 0 => \A q \in Pages : C2[q] = 0
  <2>1. CASE j2.header = "blank"
    <3>1. journal.header # "synced"
      BY <1>2, <1>6, <2>1, IsDiskOK DEF DiskOK
    <3>2. file[1] = Committed[1] /\ unsynced[1] \subseteq {Committed[1]}
      BY <1>1, <3>1, IsDiskOK, FirstPage DEF DiskOK, Kept
    <3>3. f[1] = Committed[1]
      BY <1>3, <3>2, FirstPage DEF f
    <3> QED
      BY <1>1, <1>8, <2>1, <3>3
  <2>2. CASE j2.header = "synced"
    <3>1. Hot(j2) /\ j2.size \in 0 .. PageCount
      BY <1>6, <1>9, <2>2 DEF JournalType
    <3>2. CASE j2.size = 0
      <4>1. \A q \in Pages : q > j2.size
        BY <3>2 DEF Pages
      <4> QED
        BY <3>1, <4>1 DEF Restore
    <3>3. CASE j2.size > 0
      <4>1. ~(1 > j2.size) /\ f[1] # 0 /\ (1 \in j2.marked => j2.records[1] # 0)
        BY <1>12, <3>1, <3>3 DEF NotEmpty
      <4> QED
        BY <3>1, <4>1, FirstPage DEF Restore
    <3> QED
      BY <3>1, <3>2, <3>3
  <2> QED
    BY <1>10, <2>1, <2>2
<1>14. DiskOK(f, u2, j2, {}, C2)
  BY <1>5, <1>6, <1>11, <1>12, <1>13 DEF DiskOK, DiskType
<1>15. DiskOK(file, unsynced, journal, forgotten, Committed)'
  BY <1>3, <1>7, <1>14 DEF f, j2
<1>16. \A c \in Conns : PagerOK(pager'[c], lock'[c], file', unsynced', journal', Committed')
  BY <1>3, NewPagerOK
<1> QED
  BY <1>15, <1>16 DEF DataInv

-----------------------------------------------------------------------------
(* Every step, and what follows. *)

LEMMA NextDataInv ==
    ASSUME ~FaultsWhenEmpty
    PROVE  IInv /\ DataInv /\ txns \in Nat /\ [Next]_vars => DataInv'
<1> SUFFICES ASSUME IInv, DataInv, txns \in Nat, [Next]_vars PROVE DataInv'
  OBVIOUS
<1>1. ASSUME NEW c \in Conns, Step(c) PROVE DataInv'
  <2>1. CASE JournalExists(c) \/ JournalInUse(c) \/ JournalFirstByte(c)
    BY <2>1, CheckingData
  <2>2. CASE DiscardJournal(c)
    BY <2>2, DiscardJournalData
  <2>3. CASE LockHotJournal(c)
    BY <2>3, LockHotJournalData
  <2>4. CASE SyncHotJournal(c)
    BY <2>4, SyncHotJournalData
  <2>5. CASE Validate(c)
    BY <2>5, ValidateData
  <2>6. CASE BeginExclusive(c)
    BY <2>6, BeginExclusiveData
  <2>7. CASE NewDatabase(c)
    BY <2>7, WritingData
  <2>8. CASE LockForWriting(c)
    BY <2>8, LockingData
  <2>9. CASE MarkRecords(c)
    BY <2>9, MarkRecordsData
  <2>10. CASE SyncJournal(c)
    BY <2>10, SyncJournalData
  <2>11. CASE \E x \in Pages : WriteDirtyPage(c, x) \/ PlaybackOnePage(c, x)
    BY <2>11, WriteDirtyPageData, PlaybackOnePageData
  <2>12. CASE SyncDatabase(c)
    BY <2>12, SyncDatabaseData
  <2>13. CASE TruncateFile(c)
    BY <2>13, TruncateFileData
  <2>14. CASE SyncPlayback(c)
    BY <2>14, SyncPlaybackData
  <2>15. CASE EndPlayback(c)
    BY <2>15, EndPlaybackData
  <2>16. CASE ErrorUnlock(c)
    BY <2>16, ErrorUnlockData
  <2> QED
    BY <1>1, <2>1, <2>2, <2>3, <2>4, <2>5, <2>6, <2>7, <2>8, <2>9, <2>10, <2>11, <2>12, <2>13,
       <2>14, <2>15, <2>16 DEF Step
<1>2. ASSUME NEW c \in Conns, Request(c) PROVE DataInv'
  <2>1. CASE SharedLock(c)
    BY <2>1, SharedLockData
  <2>2. CASE EndRead(c) \/ BeginGivesUp(c)
    BY <2>2, EndReadData
  <2>3. CASE \E exFlag \in BOOLEAN : Begin(c, exFlag)
    BY <2>3, BeginData
  <2>4. CASE \E x \in Pages : ReadPage(c, x)
    BY <2>4, ReadPageData
  <2>5. CASE \E x \in Pages : WritePage(c, x)
    BY <2>5, WritingData
  <2>6. CASE \E x \in Pages : Spill(c, x)
    BY <2>6, SpillData
  <2>7. CASE CommitPhaseOne(c)
    BY <2>7, CommitPhaseOneData
  <2>8. CASE CommitPhaseTwo(c)
    BY <2>8, CommitPhaseTwoData
  <2>9. CASE Rollback(c)
    BY <2>9, RollbackData
  <2>10. CASE LockGivesUp(c)
    BY <2>10, LockingData
  <2> QED
    BY <1>2, <2>1, <2>2, <2>3, <2>4, <2>5, <2>6, <2>7, <2>8, <2>9, <2>10 DEF Request
<1>3. ASSUME NEW c \in Conns, IOError(c) PROVE DataInv'
  BY <1>3, IOErrorData
<1>4. ASSUME NEW P \in Processes, ProcessCrash(P) PROVE DataInv'
  BY <1>4, ProcessCrashData
<1>5. CASE PowerFailure
  BY <1>5, PowerFailureData
<1>6. CASE UNCHANGED vars
  BY <1>6 DEF vars, diskVars, DataInv, Committed
<1> QED
  BY <1>1, <1>2, <1>3, <1>4, <1>5, <1>6 DEF Next

LEMMA NextTxns == txns \in Nat /\ [Next]_vars => txns' \in Nat
<1> SUFFICES ASSUME txns \in Nat, [Next]_vars, txns' # txns PROVE txns' \in Nat
  OBVIOUS
<1>1. ~UNCHANGED countVars /\ Next
  BY DEF vars, countVars
<1>3. \A P \in Processes : ~ProcessCrash(P)
  BY DEF ProcessCrash
<1>4. ~PowerFailure
  BY DEF PowerFailure
<1>5. PICK c \in Conns : Step(c) \/ Request(c) \/ IOError(c)
  BY <1>1, <1>3, <1>4 DEF Next
<1>6. ~IOError(c) /\ ~Step(c)
  <2> USE <1>1
  <2>1. ~IOError(c)
    BY DEF IOError
  <2> QED
    BY <2>1 DEF Step, JournalExists, JournalInUse, DiscardJournal, JournalFirstByte, LockHotJournal,
         SyncHotJournal, Validate, BeginExclusive, NewDatabase, LockForWriting, MarkRecords,
         SyncJournal, WriteDirtyPage, PlaybackOnePage, SyncDatabase, TruncateFile, SyncPlayback,
         EndPlayback, ErrorUnlock
<1>7. PICK exFlag \in BOOLEAN : Begin(c, exFlag)
  BY <1>1, <1>5, <1>6
     DEF Request, SharedLock, EndRead, ReadPage, WritePage, Spill, CommitPhaseOne, CommitPhaseTwo,
         Rollback, BeginGivesUp, LockGivesUp
<1> QED
  BY <1>7 DEF Begin

LEMMA DataWriteAhead == DataInv => WriteAhead
<1> SUFFICES ASSUME DataInv, Committed[1] # 0, NEW q \in Pages,
                    unsynced[q] \cup {file[q]} # {Committed[q]}
             PROVE  journal.header = "synced" /\ (q \in journal.synced \/ q > journal.size)
  BY DEF WriteAhead
<1>1. Kept(journal, q) \/ (file[q] = Committed[q] /\ unsynced[q] \subseteq {Committed[q]})
  BY IsDiskOK DEF DiskOK
<1> QED
  BY <1>1 DEF Kept

LEMMA DataCachesFlushed == DataInv => CachesFlushed
  BY DEF DataInv, PagerOK, RestingOK, ReadingOK, Resting, CachesFlushed

(* Whatever fails once something was committed, whoever ends and wherever   *)
(* the power goes: before a page of the file changes, its old content is in *)
(* the synced part of the journal.                                          *)
THEOREM JournalFirst ==
    ASSUME ~FaultsWhenEmpty
    PROVE  Spec => []WriteAhead
<1>1. Init => IInv /\ DataInv /\ txns \in Nat
  BY InitIInv, InitDataInv DEF Init
<1>2. IInv /\ DataInv /\ txns \in Nat /\ [Next]_vars => (IInv /\ DataInv /\ txns \in Nat)'
  BY NextIInv, NextDataInv, NextTxns
<1>3. IInv /\ DataInv /\ txns \in Nat => WriteAhead
  BY DataWriteAhead
<1> QED
  BY <1>1, <1>2, <1>3, PTL DEF Spec

(* Under the same assumption a reader has in its cache nothing that another *)
(* connection, or a rollback of its own, has made stale.                    *)
THEOREM CachesAreFresh ==
    ASSUME ~FaultsWhenEmpty
    PROVE  Spec => []CachesFlushed
<1>1. Init => IInv /\ DataInv /\ txns \in Nat
  BY InitIInv, InitDataInv DEF Init
<1>2. IInv /\ DataInv /\ txns \in Nat /\ [Next]_vars => (IInv /\ DataInv /\ txns \in Nat)'
  BY NextIInv, NextDataInv, NextTxns
<1>3. IInv /\ DataInv /\ txns \in Nat => CachesFlushed
  BY DataCachesFlushed
<1> QED
  BY <1>1, <1>2, <1>3, PTL DEF Spec

-----------------------------------------------------------------------------
(* The pagers implement AtomicDatabase.                                     *)
(* Committed, Older, Views and Writers are functions of the state; what has *)
(* to be shown of the history is that all journals that a power failure may *)
(* bring back play back the same content.                                   *)

(* A journal that comes back shows one content, whatever is left of it. *)
Steady(j, f) == Hot(j) => \A q \in j.marked \ j.synced : j.records[q] = f[q]

(* Apart from a sync that is under way, a journal in use has no record that *)
(* is counted and not synced.                                               *)
Counted(p, j) == Active(p) /\ p.pc # "sync" => j.marked = j.synced

Olds(f, fg, C) == {Restore(f, j) : j \in {i \in fg : Hot(i)}} \ {C}

HistoryInv ==
    /\ \A c \in Conns : Counted(pager[c], journal)
    /\ \A j \in forgotten : Steady(j, file)
    /\ \A a, b \in Older : a = b

(* What a pager in state p shows of the file f, if it shows anything. *)
Shows(p) == p.eState \in Writing \cup {"READER"} /\ p.pc \notin Undoing

Shown(p, f) == [q \in Pages |-> IF q \in DOMAIN p.cache THEN p.cache[q] ELSE f[q]]

ViewOf(p, f) == IF Shows(p) THEN Shown(p, f) ELSE NoView

IsWriter(p) == Shows(p) /\ p.eState \in Writing

Mapped == [Database!Next]_(Database!vars)

LEMMA Mapping ==
    /\ Views = [c \in Conns |-> ViewOf(pager[c], file)]
    /\ Writers = {c \in Conns : IsWriter(pager[c])}
    /\ Views' = [c \in Conns |-> ViewOf(pager'[c], file')]
    /\ Writers' = {c \in Conns : IsWriter(pager'[c])}
  BY DEF Views, Writers, Sees, Seen, ViewOf, Shows, Shown, IsWriter

(* Who shows anything has a lock. *)
LEMMA ShownUnderLock ==
    ASSUME IInv, NEW c \in Conns
    PROVE  /\ Shows(pager[c]) => lock[c] >= 1
           /\ IsWriter(pager[c]) => lock[c] >= 2
  BY IsReady DEF Ready, Shows, IsWriter, Writing, Undoing, Checking, WritingFile

(* One pager goes to the state p. *)
LEMMA OneView ==
    ASSUME IInv, NEW c \in Conns, NEW p, pager' = [pager EXCEPT ![c] = p],
           file' = file \/ lock[c] = 4
    PROVE  /\ Views' = [Views EXCEPT ![c] = ViewOf(p, file')]
           /\ Writers' = IF IsWriter(p) THEN Writers \cup {c} ELSE Writers \ {c}
<1>1. pager'[c] = p /\ \A o \in Others(c) : pager'[o] = pager[o]
  BY DEF IInv, ShapeInv, Others
<1>2. \A o \in Others(c) : ViewOf(pager'[o], file') = ViewOf(pager[o], file)
  <2>1. CASE file' = file
    BY <1>1, <2>1
  <2>2. CASE lock[c] = 4
    <3>1. \A o \in Others(c) : ~Shows(pager[o])
      BY <2>2, Alone, ShownUnderLock DEF Others
    <3> QED
      BY <1>1, <3>1 DEF ViewOf
  <2> QED
    BY <2>1, <2>2
<1>3. Views' = [Views EXCEPT ![c] = ViewOf(p, file')]
  BY <1>1, <1>2, Mapping DEF Others
<1>4. Writers' = IF IsWriter(p) THEN Writers \cup {c} ELSE Writers \ {c}
  BY <1>1, Mapping DEF Others
<1> QED
  BY <1>3, <1>4

LEMMA OneWriter ==
    ASSUME IInv, NEW c \in Conns
    PROVE  /\ IsWriter(pager[c]) => Writers = {c}
           /\ ~IsWriter(pager[c]) /\ (\A o \in Others(c) : lock[o] < 2) => Writers = {}
<1>1. \A o \in Conns : o \in Writers => lock[o] >= 2
  BY Mapping, ShownUnderLock
<1>2. \A o \in Conns : lock[o] \in 0 .. 4
  BY IsReady
<1>3. IsWriter(pager[c]) => Writers = {c}
  BY <1>1, Mapping, LockNumbers DEF IInv, LockedAsNeeded
<1>4. ~IsWriter(pager[c]) /\ (\A o \in Others(c) : lock[o] < 2) => Writers = {}
  BY <1>1, <1>2, Mapping DEF Others
<1> QED
  BY <1>3, <1>4

LEMMA TheOnly ==
    ASSUME NEW x, NEW none
    PROVE  The({x}, none) = x /\ The({}, none) = none
  BY DEF The

LEMMA WriterChosen ==
    /\ \A c : Writers = {c} => Writer = c
    /\ \A c : Writers' = {c} => Writer' = c
    /\ Writers = {} => Writer = Nobody
    /\ Writers' = {} => Writer' = Nobody
    /\ Writers' = Writers => Writer' = Writer
<1>1. Writer = The(Writers, Nobody) /\ Writer' = The(Writers', Nobody)
  BY DEF Writer
<1> QED
  BY <1>1, TheOnly

LEMMA WriterWrites ==
    Writer \in Writers \/ (Writer = Nobody /\ Writers = {})
  BY DEF Writer, The

LEMMA EarlierChosen ==
    /\ \A content : Older' = {content} => Earlier' = content
    /\ Older' = {} => Earlier' = Committed'
    /\ Older' = Older /\ Committed' = Committed => Earlier' = Earlier
<1>1. Earlier = The(Older, Committed) /\ Earlier' = The(Older', Committed')
  BY DEF Earlier
<1> QED
  BY <1>1, TheOnly

LEMMA ReaderShows ==
    ASSUME NEW p, NEW l, NEW f \in [Pages -> Nat], NEW u, NEW j, JournalType(j),
           PagerOK(p, l, f, u, j, Restore(f, j)), p.eState \in {"READER", "WRITER_LOCKED"}
    PROVE  Shown(p, f) = Restore(f, j)
<1>1. Restore(f, j) = f
  BY Content DEF PagerOK, QuietOK, Trusting
<1>2. \A q \in DOMAIN p.cache : p.cache[q] = f[q]
  BY <1>1 DEF PagerOK, ReadingOK, RestingOK, Resting
<1> QED
  BY <1>1, <1>2 DEF Shown

LEMMA ReaderSees ==
    ASSUME IInv, DataInv, NEW c \in Conns, pager[c].eState \in {"READER", "WRITER_LOCKED"}
    PROVE  ViewOf(pager[c], file) = Committed /\ Shows(pager[c])
<1>1. Shown(pager[c], file) = Committed
  BY IsOK, IsTyped, ReaderShows DEF Committed
<1>2. Shows(pager[c])
  BY IsReady, IsOK DEF Ready, PagerOK, ReadingOK, Shows, Writing, Undoing
<1> QED
  BY <1>1, <1>2 DEF ViewOf

(* A state that a reader goes to. *)
LEMMA ReaderWillSee ==
    ASSUME DataInv', NEW c \in Conns, NEW p, pager'[c] = p, p.eState \in {"READER", "WRITER_LOCKED"},
           p.pc \notin Undoing
    PROVE  ViewOf(p, file') = Committed' /\ Shows(p)
<1>1. /\ PagerOK(p, lock'[c], file', unsynced', journal', Restore(file', journal'))
      /\ JournalType(journal') /\ file' \in [Pages -> Nat]
  BY DEF DataInv, DiskOK, DiskType, Committed
<1>2. Shown(p, file') = Restore(file', journal')
  BY <1>1, ReaderShows
<1> QED
  BY <1>2 DEF ViewOf, Shows, Writing, Committed

-----------------------------------------------------------------------------
(* The steps of AtomicDatabase. *)

LEMMA Stutters ==
    ASSUME IInv, NEW c \in Conns, NEW p, pager' = [pager EXCEPT ![c] = p],
           file' = file \/ lock[c] = 4, Committed' = Committed, Older' = Older \/ Older' = {},
           ViewOf(p, file') = ViewOf(pager[c], file), IsWriter(p) <=> IsWriter(pager[c])
    PROVE  Mapped
<1>1. Views' = Views /\ Writers' = Writers
  <2>1. Views' = [Views EXCEPT ![c] = ViewOf(p, file')] /\ Views[c] = ViewOf(p, file')
    BY OneView, Mapping
  <2>2. Views' = Views
    BY <2>1, Mapping
  <2>3. c \in Writers <=> IsWriter(p)
    BY Mapping
  <2>4. Writers' = IF IsWriter(p) THEN Writers \cup {c} ELSE Writers \ {c}
    BY OneView
  <2> QED
    BY <2>2, <2>3, <2>4
<1>2. Writer' = Writer
  BY <1>1, WriterChosen
<1>3. CASE Older' = Older
  BY <1>1, <1>2, <1>3, EarlierChosen DEF Mapped, Database!vars
<1>4. CASE Older' = {}
  BY <1>1, <1>2, <1>4, EarlierChosen DEF Mapped, Database!Next, Database!Settle
<1> QED
  BY <1>3, <1>4

LEMMA ReadBegins ==
    ASSUME IInv, DataInv', NEW c \in Conns, NEW p, pager' = [pager EXCEPT ![c] = p],
           file' = file, Committed' = Committed, Older' = Older,
           ~Shows(pager[c]), p.eState = "READER", p.pc = "idle"
    PROVE  Mapped
<1>1. pager'[c] = p
  BY DEF IInv, ShapeInv
<1>2. ViewOf(p, file') = Committed /\ ~IsWriter(p)
  BY <1>1, ReaderWillSee DEF Undoing, IsWriter, Writing
<1>3. Views' = [Views EXCEPT ![c] = Committed] /\ Views[c] = NoView
  BY <1>2, OneView, Mapping DEF ViewOf
<1>4. Writers' = Writers
  BY <1>2, OneView, Mapping DEF IsWriter
<1>5. Writer' = Writer /\ Earlier' = Earlier
  BY <1>4, WriterChosen, EarlierChosen
<1> QED
  BY <1>3, <1>5 DEF Mapped, Database!Next, Database!BeginRead

LEMMA ReadEnds ==
    ASSUME IInv, DataInv, NEW c \in Conns, NEW p, pager' = [pager EXCEPT ![c] = p],
           file' = file, Committed' = Committed, Older' = Older,
           pager[c].eState = "READER", ~Shows(p)
    PROVE  Mapped
<1>1. ViewOf(p, file') = NoView /\ ~IsWriter(p) /\ ~IsWriter(pager[c])
  BY DEF ViewOf, IsWriter, Writing
<1>2. Views' = [Views EXCEPT ![c] = NoView]
  BY <1>1, OneView
<1>3. Views[c] # NoView
  BY ReaderSees, Mapping, MappingAssumption, IsTyped
<1>4. Writers' = Writers /\ c \notin Writers
  BY <1>1, OneView, Mapping
<1>5. Writer' = Writer /\ Earlier' = Earlier
  BY <1>4, WriterChosen, EarlierChosen
<1>6. Writer # c
  BY <1>4, WriterWrites, MappingAssumption
<1> QED
  BY <1>2, <1>3, <1>5, <1>6 DEF Mapped, Database!Next, Database!EndRead

LEMMA WriteBegins ==
    ASSUME IInv, DataInv, DataInv', NEW c \in Conns, NEW p, pager' = [pager EXCEPT ![c] = p],
           file' = file, Committed' = Committed, Older' = Older,
           pager[c].eState = "READER", p.eState = "WRITER_LOCKED", p.pc \notin Undoing,
           \A o \in Others(c) : lock[o] < 2
    PROVE  Mapped
<1>1. pager'[c] = p
  BY DEF IInv, ShapeInv
<1>2. ViewOf(p, file') = Committed /\ IsWriter(p) /\ ~IsWriter(pager[c])
  BY <1>1, ReaderWillSee DEF Undoing, IsWriter, Writing
<1>3. Views[c] = Committed
  BY ReaderSees, Mapping
<1>4. Views' = Views
  BY <1>2, <1>3, OneView, Mapping
<1>5. Writers = {} /\ Writers' = {c}
  BY <1>2, OneView, OneWriter
<1>6. Writer = Nobody /\ Writer' = c /\ Earlier' = Earlier
  BY <1>5, WriterChosen, EarlierChosen
<1> QED
  BY <1>3, <1>4, <1>6 DEF Mapped, Database!Next, Database!BeginWrite

LEMMA PageChanges ==
    ASSUME IInv, DataInv, NEW c \in Conns, NEW p, pager' = [pager EXCEPT ![c] = p],
           file' = file, Committed' = Committed, Older' = Older,
           IsWriter(pager[c]), IsWriter(p), NEW x \in Pages, NEW v \in Nat,
           p.cache = Put(pager[c].cache, x, v)
    PROVE  Mapped
<1>1. Views' = [Views EXCEPT ![c] = Shown(p, file)] /\ Views[c] = Shown(pager[c], file)
  BY OneView, Mapping DEF ViewOf, IsWriter
<1>2. Shown(p, file) = [Shown(pager[c], file) EXCEPT ![x] = v]
  BY DEF Shown, Put
<1>3. Shown(p, file) \in [Pages -> Nat]
  <2>1. \A q \in Pages : q \in DOMAIN pager[c].cache => pager[c].cache[q] \in Nat
    BY IsOK DEF PagerOK, PagerType
  <2>2. file \in [Pages -> Nat]
    BY IsTyped
  <2> QED
    BY <2>1, <2>2 DEF Shown, Put
<1>4. DOMAIN Views = Conns
  BY Mapping
<1>5. Views'[c] = Shown(p, file) /\ Shown(p, file)[x] = v
  BY <1>1, <1>2, <1>4 DEF Shown
<1>6. Views' = [Views EXCEPT ![c][x] = Views'[c][x]]
  BY <1>1, <1>2, <1>4, <1>5
<1>7. Views'[c] # NoView
  BY <1>3, <1>5, MappingAssumption
<1>8. Writers = {c} /\ Writers' = {c}
  BY OneWriter, OneView
<1>9. Writer = c /\ Writer' = Writer /\ Earlier' = Earlier
  BY <1>8, WriterChosen, EarlierChosen
<1> QED
  BY <1>6, <1>7, <1>9 DEF Mapped, Database!Next, Database!Write

-----------------------------------------------------------------------------
(* What may come back. *)

LEMMA OlderContents ==
    /\ Older = Olds(file, forgotten, Committed)
    /\ Older' = Olds(file', forgotten', Committed')
  BY DEF Older, Olds

(* Nothing comes back but what is forgotten. *)
NothingNew(f, fg, fg2, C) ==
    /\ fg \subseteq fg2
    /\ \A j \in fg2 \ fg : Steady(j, f) /\ (Hot(j) => Restore(f, j) = C)

LEMMA NothingNewOlds ==
    ASSUME NEW f, NEW fg, NEW fg2, NEW C, NothingNew(f, fg, fg2, C)
    PROVE  Olds(f, fg2, C) = Olds(f, fg, C)
  BY DEF NothingNew, Olds

LEMMA CountedKept ==
    ASSUME IInv, HistoryInv, NEW c \in Conns, NEW p, pager' = [pager EXCEPT ![c] = p],
           Counted(p, journal'),
           \/ lock[c] >= 2
           \/ journal'.marked = journal'.synced
           \/ journal'.marked = journal.marked /\ journal'.synced = journal.synced
    PROVE  \A o \in Conns : Counted(pager'[o], journal')
<1>1. pager'[c] = p /\ \A o \in Others(c) : pager'[o] = pager[o]
  BY DEF IInv, ShapeInv, Others
<1>2. SUFFICES ASSUME NEW o \in Others(c) PROVE Counted(pager[o], journal')
  BY <1>1 DEF Others
<1>3. Counted(pager[o], journal)
  BY DEF HistoryInv, Others
<1>4. CASE lock[c] >= 2
  <2>1. lock[o] < 2
    BY <1>4, AloneToWrite
  <2>2. pager[o].eState \notin Modifying
    BY <2>1, IsReady DEF Ready, Others, Modifying
  <2> QED
    BY <2>2 DEF Counted, Active
<1>5. CASE journal'.marked = journal'.synced
  BY <1>5 DEF Counted
<1>6. CASE journal'.marked = journal.marked /\ journal'.synced = journal.synced
  BY <1>3, <1>6 DEF Counted
<1> QED
  BY <1>4, <1>5, <1>6

LEMMA HistoryKept ==
    ASSUME IInv, HistoryInv, NEW c \in Conns, NEW p, pager' = [pager EXCEPT ![c] = p],
           file' = file, Committed' = Committed, Counted(p, journal'),
           \/ lock[c] >= 2
           \/ journal'.marked = journal'.synced
           \/ journal'.marked = journal.marked /\ journal'.synced = journal.synced,
           NothingNew(file, forgotten, forgotten', Committed)
    PROVE  HistoryInv' /\ Older' = Older
<1>1. Older' = Older
  BY OlderContents, NothingNewOlds
<1>2. \A o \in Conns : Counted(pager'[o], journal')
  BY CountedKept
<1>3. \A j \in forgotten' : Steady(j, file')
  BY DEF NothingNew, HistoryInv
<1> QED
  BY <1>1, <1>2, <1>3 DEF HistoryInv

LEMMA HistoryForgotten ==
    ASSUME IInv, HistoryInv, NEW c \in Conns, NEW p, pager' = [pager EXCEPT ![c] = p],
           Counted(p, journal'),
           \/ lock[c] >= 2
           \/ journal'.marked = journal'.synced
           \/ journal'.marked = journal.marked /\ journal'.synced = journal.synced,
           forgotten' = {}
    PROVE  HistoryInv' /\ Older' = {}
<1>1. Older' = {}
  BY OlderContents DEF Olds
<1>2. \A o \in Conns : Counted(pager'[o], journal')
  BY CountedKept
<1> QED
  BY <1>1, <1>2 DEF HistoryInv

(* A step that leaves the disk alone. *)
LEMMA DiskUntouched ==
    ASSUME IInv, HistoryInv, NEW c \in Conns, NEW p, pager' = [pager EXCEPT ![c] = p],
           UNCHANGED diskVars, Active(p) /\ p.pc # "sync" => Active(pager[c]) /\ pager[c].pc # "sync"
    PROVE  HistoryInv' /\ Older' = Older /\ Committed' = Committed /\ file' = file
<1>1. file' = file /\ journal' = journal /\ forgotten' = forgotten
  BY DEF diskVars
<1>2. Committed' = Committed
  BY <1>1 DEF Committed
<1>3. Counted(p, journal')
  BY <1>1 DEF HistoryInv, Counted
<1>4. NothingNew(file, forgotten, forgotten', Committed)
  BY <1>1 DEF NothingNew
<1> QED
  BY <1>1, <1>2, <1>3, <1>4, HistoryKept

-----------------------------------------------------------------------------
(* More steps of AtomicDatabase. *)

LEMMA Unseen ==
    ASSUME IInv, NEW c \in Conns, NEW p, pager' = [pager EXCEPT ![c] = p],
           file' = file \/ lock[c] = 4, Committed' = Committed, Older' = Older \/ Older' = {},
           ~Shows(pager[c]), ~Shows(p)
    PROVE  Mapped
<1>1. ViewOf(p, file') = ViewOf(pager[c], file) /\ ~IsWriter(p) /\ ~IsWriter(pager[c])
  BY DEF ViewOf, IsWriter
<1> QED
  BY <1>1, Stutters

LEMMA SeenAlike ==
    ASSUME IInv, NEW c \in Conns, NEW p, pager' = [pager EXCEPT ![c] = p],
           file' = file, Committed' = Committed, Older' = Older \/ Older' = {},
           Shows(pager[c]), Shows(p), p.cache = pager[c].cache,
           p.eState \in Writing <=> pager[c].eState \in Writing
    PROVE  Mapped
<1>1. ViewOf(p, file') = ViewOf(pager[c], file) /\ (IsWriter(p) <=> IsWriter(pager[c]))
  BY DEF ViewOf, IsWriter, Shown
<1> QED
  BY <1>1, Stutters

LEMMA Abandons ==
    ASSUME IInv, NEW c \in Conns, NEW p, pager' = [pager EXCEPT ![c] = p],
           file' = file, Committed' = Committed, Older' = Older,
           IsWriter(pager[c]), ~IsWriter(p), ViewOf(p, file') \in {NoView, Committed}
    PROVE  Mapped
<1>1. Views' = [Views EXCEPT ![c] = ViewOf(p, file')]
  BY OneView
<1>2. Writers = {c} /\ Writers' = {}
  BY OneWriter, OneView
<1>3. Writer = c /\ Writer' = Nobody /\ Earlier' = Earlier
  BY <1>2, WriterChosen, EarlierChosen
<1> QED
  BY <1>1, <1>3 DEF Mapped, Database!Next, Database!Abandon

LEMMA Commits ==
    ASSUME IInv, NEW c \in Conns, NEW p, pager' = [pager EXCEPT ![c] = p],
           file' = file, Older' = {Committed}, IsWriter(pager[c]), ~IsWriter(p),
           Committed' = Shown(pager[c], file), ViewOf(p, file') = Committed'
    PROVE  Mapped
<1>1. Views' = [Views EXCEPT ![c] = Committed'] /\ Views[c] = Committed'
  BY OneView, Mapping DEF ViewOf, IsWriter
<1>2. Views' = Views
  BY <1>1, Mapping
<1>3. Writers = {c} /\ Writers' = {}
  BY OneWriter, OneView
<1>4. Writer = c /\ Writer' = Nobody /\ Earlier' = Committed
  BY <1>3, WriterChosen, EarlierChosen
<1> QED
  BY <1>1, <1>2, <1>4 DEF Mapped, Database!Next, Database!Commit

-----------------------------------------------------------------------------
(* What each action does to the history and to the database. *)

NotReading == {"OPEN", "ERROR"}

LEMMA Blind ==
    ASSUME NEW p, p.eState \in NotReading \/ p.pc \in Undoing
    PROVE  ~Shows(p)
  BY DEF Shows, NotReading, Writing

LEMMA GoesOn ==
    ASSUME IInv, NEW c \in Conns, NEW pc, Goto(c, pc)
    PROVE  \E p : pager' = [pager EXCEPT ![c] = p] /\ SameData(p, pager[c]) /\ p.pc = pc
<1> DEFINE p == [pager[c] EXCEPT !.pc = pc]
<1>1. pager' = [pager EXCEPT ![c] = p] /\ SameData(p, pager[c]) /\ p.pc = pc
  BY PCData DEF Goto
<1> HIDE DEF p
<1> QED
  BY <1>1

LEMMA Unlocks ==
    ASSUME NEW c \in Conns, NEW error, pager_unlock(c, error)
    PROVE  \E p : pager' = [pager EXCEPT ![c] = p] /\ p.eState = "OPEN"
<1> DEFINE p == [NewPager EXCEPT !.cache = IF error THEN <<>> ELSE pager[c].cache,
                                 !.dbFileVers = pager[c].dbFileVers]
<1>1. pager' = [pager EXCEPT ![c] = p] /\ p.eState = "OPEN"
  BY DEF pager_unlock, NewPager
<1> HIDE DEF p
<1> QED
  BY <1>1

(* Pagers that check the journal, or give up before they have begun. *)
LEMMA CheckingStep ==
    ASSUME IInv, HistoryInv, NEW c \in Conns,
           \/ SharedLock(c) \/ JournalExists(c) \/ JournalInUse(c) \/ JournalFirstByte(c)
           \/ LockHotJournal(c) \/ ErrorUnlock(c)
    PROVE  HistoryInv' /\ Mapped
<1>1. /\ pager[c].eState \in NotReading /\ UNCHANGED diskVars
      /\ \E p : pager' = [pager EXCEPT ![c] = p] /\ p.eState \in NotReading
  <2>1. CASE SharedLock(c)
    BY <2>1, GoesOn DEF SharedLock, NotReading, SameData
  <2>2. CASE JournalExists(c) \/ JournalInUse(c) \/ JournalFirstByte(c)
    <3>1. pager[c].eState = "OPEN"
      BY <2>2, CheckingState DEF JournalExists, JournalInUse, JournalFirstByte, At, Checking
    <3>2. UNCHANGED diskVars /\ \E pc : Goto(c, pc)
      BY <2>2 DEF JournalExists, JournalInUse, JournalFirstByte
    <3> QED
      BY <3>1, <3>2, GoesOn DEF NotReading, SameData
  <2>3. CASE LockHotJournal(c)
    <3>1. pager[c].eState = "OPEN"
      BY <2>3, CheckingState DEF LockHotJournal, At, Checking
    <3>2. UNCHANGED diskVars /\ (pager_unlock(c, FALSE) \/ \E pc : Goto(c, pc))
      BY <2>3 DEF LockHotJournal
    <3>3. CASE pager_unlock(c, FALSE)
      BY <3>1, <3>2, <3>3, Unlocks DEF NotReading
    <3>4. CASE \E pc : Goto(c, pc)
      BY <3>1, <3>2, <3>4, GoesOn DEF NotReading, SameData
    <3> QED
      BY <3>2, <3>3, <3>4
  <2>4. CASE ErrorUnlock(c)
    BY <2>4, Unlocks DEF ErrorUnlock, NotReading
  <2> QED
    BY <2>1, <2>2, <2>3, <2>4
<1>2. PICK p : pager' = [pager EXCEPT ![c] = p] /\ p.eState \in NotReading
  BY <1>1
<1>3. HistoryInv' /\ Older' = Older /\ Committed' = Committed /\ file' = file
  BY <1>1, <1>2, DiskUntouched DEF Active, Modifying, NotReading
<1> QED
  BY <1>1, <1>2, <1>3, Unseen, Blind

LEMMA DiscardJournalStep ==
    ASSUME IInv, DataInv, HistoryInv, NEW c \in Conns, DiscardJournal(c)
    PROVE  HistoryInv' /\ Mapped
<1> DEFINE p == [pager[c] EXCEPT !.pc = "validate"]
<1>1. pager' = [pager EXCEPT ![c] = p] /\ SameData(p, pager[c])
  BY PCData DEF DiscardJournal, Goto
<1>2. pager[c].eState = "OPEN"
  BY CheckingState DEF DiscardJournal, At, Checking
<1>3. p.eState = "OPEN"
  BY <1>1, <1>2 DEF SameData
<1>4. file' = file /\ Committed' = Committed
  BY DiscardJournalData DEF DiscardJournal
<1>5. /\ NothingNew(file, forgotten, forgotten', Committed)
      /\ \/ journal'.marked = journal'.synced
         \/ journal'.marked = journal.marked /\ journal'.synced = journal.synced
  <2>1. CASE DeleteJournal
    <3>1. Restore(file, journal) = Committed
      BY DEF Committed
    <3>2. Steady(journal, file)
      <4>1. SUFFICES ASSUME Hot(journal) PROVE journal.marked = {}
        BY DEF Steady
      <4>2. \A q \in Pages : file[q] = 0
        BY IsOK DEF PagerOK, HotOK, DiscardJournal, At
      <4>3. file[1] = 0 /\ journal.size \in Nat
        BY <4>2, FirstPage, IsTyped DEF JournalType
      <4>4. journal.size = 0
        BY <4>1, <4>3 DEF DataInv, DiskOK, NotEmpty
      <4> QED
        BY <4>4, IsTyped DEF JournalType, Pages
    <3>3. NothingNew(file, forgotten, forgotten', Committed)
      BY <2>1, <3>1, <3>2 DEF NothingNew, DeleteJournal
    <3>4. journal'.marked = journal'.synced
      BY <2>1 DEF DeleteJournal, NoJournal
    <3> QED
      BY <3>3, <3>4
  <2>2. CASE UNCHANGED <<journal, forgotten>>
    BY <2>2 DEF NothingNew
  <2> QED
    BY <2>1, <2>2 DEF DiscardJournal
<1>6. Counted(p, journal')
  BY <1>3 DEF Counted, Active, Modifying
<1> HIDE DEF p
<1>7. HistoryInv' /\ Older' = Older
  BY <1>1, <1>4, <1>5, <1>6, HistoryKept
<1> QED
  BY <1>1, <1>2, <1>3, <1>4, <1>7, Unseen, Blind DEF NotReading

LEMMA SyncHotJournalStep ==
    ASSUME IInv, DataInv, HistoryInv, NEW c \in Conns, SyncHotJournal(c)
    PROVE  HistoryInv' /\ Mapped
<1> DEFINE p == [pager[c] EXCEPT !.pc = "truncate",
                                 !.todo = IF journal.header = "blank" THEN {} ELSE journal.marked]
<1>1. pager' = [pager EXCEPT ![c] = p]
  BY IsReady DEF SyncHotJournal, Fields
<1>2. pager[c].eState = "OPEN" /\ lock[c] = 4 /\ lock[c] >= 2
  BY IsReady DEF SyncHotJournal, At, Ready, Checking, Undoing, WritingFile
<1>3. p.eState = "OPEN"
  BY <1>2, IsReady DEF Fields
<1>4. file' = file /\ Committed' = Committed /\ forgotten' = {}
  BY SyncHotJournalData DEF SyncHotJournal, SyncJournalFile
<1>5. Counted(p, journal')
  BY <1>3 DEF Counted, Active, Modifying
<1> HIDE DEF p
<1>6. HistoryInv' /\ Older' = {}
  BY <1>1, <1>2, <1>4, <1>5, HistoryForgotten
<1> QED
  BY <1>1, <1>2, <1>3, <1>4, <1>6, Unseen, Blind DEF NotReading

LEMMA UndoerDisk ==
    ASSUME IInv, DataInv, NEW c \in Conns, pager[c].pc \in Undoing, ~Untouched(c), journal.header # "blank"
    PROVE  forgotten = {} /\ lock[c] = 4
<1>1. journal.header = "synced"
  <2>1. CASE pager[c].eState = "OPEN"
    BY <2>1, IsOK, IsTyped DEF PagerOK, HotOK, JournalType
  <2>2. CASE pager[c].eState \in Modifying
    BY <2>2, IsOK DEF PagerOK, JournalOK, Untouched
  <2> QED
    BY <2>1, <2>2, UndoerState
<1>2. forgotten = {}
  BY <1>1, IsDiskOK DEF DiskOK
<1>3. lock[c] = 4
  BY UndoerState DEF Untouched
<1> QED
  BY <1>2, <1>3

LEMMA Undoes ==
    ASSUME IInv, DataInv, HistoryInv, NEW c \in Conns, NEW p, pager' = [pager EXCEPT ![c] = p],
           pager[c].pc \in Undoing, p.pc \in Undoing, Committed' = Committed,
           journal' = journal, forgotten' = forgotten,
           file' = file \/ (~Untouched(c) /\ journal.header # "blank")
    PROVE  HistoryInv' /\ Mapped
<1>1. Counted(p, journal') /\ ~Shows(p) /\ ~Shows(pager[c])
  BY Blind DEF Counted, Active, GivenUp
<1>2. journal'.marked = journal.marked /\ journal'.synced = journal.synced
  OBVIOUS
<1>3. CASE file' = file
  <2>1. NothingNew(file, forgotten, forgotten', Committed)
    BY DEF NothingNew
  <2>2. HistoryInv' /\ Older' = Older
    BY <1>1, <1>2, <1>3, <2>1, HistoryKept
  <2> QED
    BY <1>1, <1>3, <2>2, Unseen
<1>4. CASE ~Untouched(c) /\ journal.header # "blank"
  <2>1. forgotten' = {} /\ lock[c] = 4
    BY <1>4, UndoerDisk
  <2>2. HistoryInv' /\ Older' = {}
    BY <1>1, <1>2, <2>1, HistoryForgotten
  <2> QED
    BY <1>1, <2>1, <2>2, Unseen
<1> QED
  BY <1>3, <1>4

LEMMA TruncateFileStep ==
    ASSUME IInv, DataInv, HistoryInv, NEW c \in Conns, TruncateFile(c)
    PROVE  HistoryInv' /\ Mapped
<1>1. PICK p : pager' = [pager EXCEPT ![c] = p] /\ p.pc = "playback"
  BY GoesOn DEF TruncateFile
<1>2. pager[c].pc \in Undoing /\ p.pc \in Undoing
  BY <1>1 DEF TruncateFile, At, Undoing
<1>3. Committed' = Committed
  BY TruncateFileData
<1>4. /\ journal' = journal /\ forgotten' = forgotten
      /\ file' = file \/ (~Untouched(c) /\ journal.header # "blank")
  BY DEF TruncateFile
<1> QED
  BY <1>1, <1>2, <1>3, <1>4, Undoes

LEMMA PlaybackOnePageStep ==
    ASSUME IInv, DataInv, HistoryInv, NEW c \in Conns, NEW x \in Pages, PlaybackOnePage(c, x)
    PROVE  HistoryInv' /\ Mapped
<1>1. \E p : pager' = [pager EXCEPT ![c] = p] /\ p.pc = "playback"
  <2> DEFINE hot == pager[c].eState = "OPEN"
             old == journal.records[x]
             cached == ~hot /\ x \in DOMAIN pager[c].cache
             p == [pager[c] EXCEPT !.todo = @ \ {x},
                       !.cache = IF hot THEN <<>> ELSE IF cached THEN Put(@, x, old) ELSE @,
                       !.dbFileVers = IF x = 1 /\ cached THEN old ELSE @]
  <2>1. pager' = [pager EXCEPT ![c] = p]
    BY DEF PlaybackOnePage
  <2>2. p.pc = pager[c].pc
    BY IsReady DEF Fields
  <2> HIDE DEF p
  <2> QED
    BY <2>1, <2>2 DEF PlaybackOnePage, At
<1>2. PICK p : pager' = [pager EXCEPT ![c] = p] /\ p.pc = "playback"
  BY <1>1
<1>3. pager[c].pc \in Undoing /\ p.pc \in Undoing
  BY <1>2 DEF PlaybackOnePage, At, Undoing
<1>4. Committed' = Committed
  BY PlaybackOnePageData
<1>5. journal' = journal /\ forgotten' = forgotten
  BY DEF PlaybackOnePage
<1>6. file' = file \/ (~Untouched(c) /\ journal.header # "blank")
  <2>1. SUFFICES ASSUME file' # file PROVE ~Untouched(c) /\ journal.header # "blank"
    OBVIOUS
  <2>2. ~Untouched(c)
    BY <2>1 DEF PlaybackOnePage
  <2>3. CASE pager[c].eState = "OPEN"
    <3>1. x \in journal.marked
      BY <1>3, <2>3, IsOK DEF PagerOK, HotOK, PlaybackOnePage, At
    <3> QED
      BY <2>2, <3>1, IsTyped DEF JournalType
  <2>4. CASE pager[c].eState \in Modifying
    BY <2>2, <2>4, IsOK DEF PagerOK, JournalOK, Untouched
  <2> QED
    BY <1>3, <2>2, <2>3, <2>4, UndoerState
<1> QED
  BY <1>2, <1>3, <1>4, <1>5, <1>6, Undoes

LEMMA SyncPlaybackStep ==
    ASSUME IInv, DataInv, HistoryInv, NEW c \in Conns, SyncPlayback(c)
    PROVE  HistoryInv' /\ Mapped
<1>1. PICK p : pager' = [pager EXCEPT ![c] = p] /\ p.pc = "finalize"
  BY GoesOn DEF SyncPlayback
<1>2. pager[c].pc \in Undoing /\ p.pc \in Undoing
  BY <1>1 DEF SyncPlayback, At, Undoing
<1>3. Committed' = Committed
  BY SyncPlaybackData
<1>4. journal' = journal /\ forgotten' = forgotten /\ file' = file
  BY DEF SyncPlayback, SyncFile
<1> QED
  BY <1>1, <1>2, <1>3, <1>4, Undoes

LEMMA EndPlaybackStep ==
    ASSUME IInv, DataInv, HistoryInv, NEW c \in Conns, EndPlayback(c), DataInv'
    PROVE  HistoryInv' /\ Mapped
<1>1. \E p : /\ pager' = [pager EXCEPT ![c] = p]
             /\ IF pager[c].eState = "OPEN" THEN p.eState = "OPEN"
                ELSE p.eState = "READER" /\ p.pc = "idle"
  <2>1. CASE pager[c].eState = "OPEN"
    <3> DEFINE p == [pager[c] EXCEPT !.pc = "validate"]
    <3>1. pager' = [pager EXCEPT ![c] = p] /\ p.eState = "OPEN"
      BY <2>1, IsReady DEF EndPlayback, Fields
    <3> HIDE DEF p
    <3> QED
      BY <2>1, <3>1
  <2>2. CASE pager[c].eState # "OPEN"
    <3> DEFINE p == Ended(c, "READER", "idle", journal.size)
    <3>1. pager' = [pager EXCEPT ![c] = p]
      BY <2>2 DEF EndPlayback
    <3>2. p.eState = "READER" /\ p.pc = "idle"
      BY DEF Ended, NewPager
    <3> HIDE DEF p
    <3> QED
      BY <2>2, <3>1, <3>2
  <2> QED
    BY <2>1, <2>2
<1>2. PICK p : /\ pager' = [pager EXCEPT ![c] = p]
               /\ IF pager[c].eState = "OPEN" THEN p.eState = "OPEN"
                  ELSE p.eState = "READER" /\ p.pc = "idle"
  BY <1>1
<1>3. pager[c].pc = "finalize" /\ pager[c].pc \in Undoing
  BY DEF EndPlayback, At, Undoing
<1>4. file' = file /\ Committed' = Committed /\ DeleteJournal
  BY EndPlaybackData DEF EndPlayback
<1>5. Steady(journal, file)
  <2>1. CASE pager[c].eState = "OPEN"
    BY <1>3, <2>1, IsOK DEF PagerOK, HotOK, Steady
  <2>2. CASE pager[c].eState \in Modifying
    <3>1. \A q \in DOMAIN journal.records : journal.records[q] = Committed[q]
      BY <2>2, IsOK DEF PagerOK, JournalOK
    <3>2. \A q \in Pages : file[q] = Committed[q]
      BY <1>3, <2>2, IsOK DEF PagerOK, UndoneOK, GivenUp
    <3>3. journal.marked \subseteq DOMAIN journal.records /\ DOMAIN journal.records \subseteq Pages
      BY IsTyped DEF JournalType
    <3> QED
      BY <3>1, <3>2, <3>3 DEF Steady
  <2> QED
    BY <1>3, <2>1, <2>2, UndoerState
<1>6. NothingNew(file, forgotten, forgotten', Committed)
  <2>1. Restore(file, journal) = Committed
    BY DEF Committed
  <2> QED
    BY <1>4, <1>5, <2>1 DEF NothingNew, DeleteJournal
<1>7. journal'.marked = journal'.synced
  BY <1>4 DEF DeleteJournal, NoJournal
<1>8. Counted(p, journal')
  BY <1>7 DEF Counted
<1>9. HistoryInv' /\ Older' = Older
  BY <1>2, <1>4, <1>6, <1>7, <1>8, HistoryKept
<1>10. ~Shows(pager[c])
  BY <1>3, Blind
<1>11. CASE pager[c].eState = "OPEN"
  <2>1. ~Shows(p)
    BY <1>2, <1>11, Blind DEF NotReading
  <2> QED
    BY <1>2, <1>4, <1>9, <1>10, <2>1, Unseen
<1>12. CASE pager[c].eState # "OPEN"
  BY <1>2, <1>4, <1>9, <1>10, <1>12, ReadBegins
<1> QED
  BY <1>11, <1>12

LEMMA ValidateStep ==
    ASSUME IInv, DataInv, HistoryInv, NEW c \in Conns, Validate(c), DataInv'
    PROVE  HistoryInv' /\ Mapped
<1>1. \E p : pager' = [pager EXCEPT ![c] = p] /\ p.eState = "READER" /\ p.pc = "idle"
  <2> DEFINE kept == KeptCache(c)
             n == Size(file)
             cached == 1 \in DOMAIN kept
             p == [pager[c] EXCEPT !.eState = "READER", !.pc = "idle", !.dbSize = n,
                       !.cache = IF cached THEN kept ELSE Put(kept, 1, file[1]),
                       !.dbFileVers = IF cached \/ n = 0 THEN @ ELSE file[1]]
  <2>1. pager' = [pager EXCEPT ![c] = p]
    BY DEF Validate
  <2>2. p.eState = "READER" /\ p.pc = "idle"
    BY IsReady DEF Fields
  <2> HIDE DEF p
  <2> QED
    BY <2>1, <2>2
<1>2. PICK p : pager' = [pager EXCEPT ![c] = p] /\ p.eState = "READER" /\ p.pc = "idle"
  BY <1>1
<1>3. pager[c].eState = "OPEN"
  BY CheckingState DEF Validate, At, Checking
<1>4. UNCHANGED diskVars
  BY DEF Validate
<1>5. HistoryInv' /\ Older' = Older /\ Committed' = Committed /\ file' = file
  BY <1>2, <1>4, DiskUntouched DEF Active, Modifying
<1>6. ~Shows(pager[c])
  BY <1>3, Blind DEF NotReading
<1> QED
  BY <1>2, <1>5, <1>6, ReadBegins

LEMMA EndReadStep ==
    ASSUME IInv, DataInv, HistoryInv, NEW c \in Conns, EndRead(c) \/ BeginGivesUp(c)
    PROVE  HistoryInv' /\ Mapped
<1>1. PICK p : pager' = [pager EXCEPT ![c] = p] /\ p.eState = "OPEN"
  BY Unlocks DEF EndRead, BeginGivesUp
<1>2. pager[c].eState = "READER"
  BY IsReady DEF EndRead, BeginGivesUp, At, Ready, Checking, Undoing, WritingFile
<1>3. UNCHANGED diskVars
  BY DEF EndRead, BeginGivesUp
<1>4. HistoryInv' /\ Older' = Older /\ Committed' = Committed /\ file' = file
  BY <1>1, <1>3, DiskUntouched DEF Active, Modifying
<1>5. ~Shows(p)
  BY <1>1, Blind DEF NotReading
<1> QED
  BY <1>1, <1>2, <1>4, <1>5, ReadEnds

LEMMA ReadPageStep ==
    ASSUME IInv, DataInv, HistoryInv, NEW c \in Conns, NEW x \in Pages, ReadPage(c, x)
    PROVE  HistoryInv' /\ Mapped
<1> DEFINE p == [pager[c] EXCEPT !.cache = Put(@, x, file[x])]
<1>1. pager' = [pager EXCEPT ![c] = p]
  BY DEF ReadPage
<1>2. /\ p.eState = pager[c].eState /\ p.pc = pager[c].pc
      /\ p.cache = Put(pager[c].cache, x, file[x])
  BY IsReady DEF Fields
<1>3. UNCHANGED diskVars
  BY DEF ReadPage
<1> HIDE DEF p
<1>4. HistoryInv' /\ Older' = Older /\ Committed' = Committed /\ file' = file
  BY <1>1, <1>2, <1>3, DiskUntouched DEF Active
<1>5. Shown(p, file') = Shown(pager[c], file)
  <2>1. x \notin DOMAIN pager[c].cache
    BY DEF ReadPage
  <2>2. Shown(p, file) = Shown(pager[c], file)
    BY <1>2, <2>1 DEF Shown, Put
  <2> QED
    BY <1>4, <2>2
<1>6. ViewOf(p, file') = ViewOf(pager[c], file) /\ (IsWriter(p) <=> IsWriter(pager[c]))
  BY <1>2, <1>5 DEF ViewOf, IsWriter, Shows
<1> QED
  BY <1>1, <1>4, <1>6, Stutters

LEMMA BeginStep ==
    ASSUME IInv, DataInv, HistoryInv, NEW c \in Conns, NEW exFlag \in BOOLEAN, Begin(c, exFlag), DataInv'
    PROVE  HistoryInv' /\ Mapped
<1> DEFINE p == [pager[c] EXCEPT !.pc = IF exFlag THEN "exclusive" ELSE Started(c),
                                 !.eState = IF exFlag THEN @ ELSE "WRITER_LOCKED"]
<1>1. pager' = [pager EXCEPT ![c] = p]
  BY IsReady DEF Begin, Fields
<1>2. /\ p.cache = pager[c].cache /\ p.eState = IF exFlag THEN "READER" ELSE "WRITER_LOCKED"
      /\ p.pc \in {"exclusive", "newDatabase", "idle"}
  BY IsReady, StartedState DEF Begin, Fields
<1>3. UNCHANGED diskVars /\ pager[c].eState = "READER" /\ pager[c].pc = "idle"
  BY DEF Begin, At
<1> HIDE DEF p
<1>4. HistoryInv' /\ Older' = Older /\ Committed' = Committed /\ file' = file
  BY <1>1, <1>2, <1>3, DiskUntouched DEF Active, Modifying
<1>5. p.pc \notin Undoing
  BY <1>2 DEF Undoing
<1>6. CASE exFlag
  <2>1. Shows(p) /\ Shows(pager[c])
    BY <1>2, <1>3, <1>5, <1>6 DEF Shows, Undoing
  <2>2. p.eState \in Writing <=> pager[c].eState \in Writing
    BY <1>2, <1>3, <1>6
  <2> QED
    BY <1>1, <1>2, <1>4, <2>1, <2>2, SeenAlike
<1>7. CASE ~exFlag
  <2>1. \A o \in Others(c) : lock[o] < 2
    BY DEF Begin, Grants, SHARED_LOCK, RESERVED_LOCK, EXCLUSIVE_LOCK
  <2> QED
    BY <1>1, <1>2, <1>3, <1>4, <1>5, <1>7, <2>1, WriteBegins
<1> QED
  BY <1>6, <1>7

LEMMA BeginExclusiveStep ==
    ASSUME IInv, DataInv, HistoryInv, NEW c \in Conns, BeginExclusive(c), DataInv'
    PROVE  HistoryInv' /\ Mapped
<1>1. pager[c].eState = "READER" /\ lock[c] >= 2 /\ pager[c].pc = "exclusive"
  BY IsReady DEF BeginExclusive, At, Ready, Checking, Undoing, WritingFile
<1>2. UNCHANGED diskVars
  BY DEF BeginExclusive
<1>3. CASE lock'[c] = EXCLUSIVE_LOCK
  <2> DEFINE p == [pager[c] EXCEPT !.eState = "WRITER_LOCKED", !.pc = Started(c)]
  <2>1. pager' = [pager EXCEPT ![c] = p]
    BY <1>3, IsReady DEF BeginExclusive, Fields
  <2>2. p.eState = "WRITER_LOCKED" /\ p.pc \in {"newDatabase", "idle"}
    BY IsReady, StartedState DEF Fields
  <2> HIDE DEF p
  <2>3. HistoryInv' /\ Older' = Older /\ Committed' = Committed /\ file' = file
    BY <1>2, <2>1, <2>2, DiskUntouched DEF Active, Modifying
  <2>4. p.pc \notin Undoing
    BY <2>2 DEF Undoing
  <2>5. \A o \in Others(c) : lock[o] < 2
    BY <1>1, AloneToWrite
  <2> QED
    BY <1>1, <2>1, <2>2, <2>3, <2>4, <2>5, WriteBegins
<1>4. CASE lock'[c] # EXCLUSIVE_LOCK
  <2>1. pager' = [pager EXCEPT ![c] = pager[c]]
    BY <1>4, SameLockData DEF BeginExclusive
  <2>2. HistoryInv' /\ Older' = Older /\ Committed' = Committed /\ file' = file
    BY <1>2, <2>1, DiskUntouched
  <2>3. Shows(pager[c])
    BY <1>1 DEF Shows, Undoing
  <2> QED
    BY <2>1, <2>2, <2>3, SeenAlike
<1> QED
  BY <1>3, <1>4

(* A page is put into the cache, recorded in the journal that is opened for it, if need be. *)
LEMMA PutStep ==
    ASSUME IInv, DataInv, HistoryInv, NEW c \in Conns, NEW x \in Pages, NEW v \in Nat, NEW extra,
           PutPage(c, x, v, extra), file' = file, Committed' = Committed,
           DOMAIN extra = Fields, SameWriter(extra, pager[c]), extra.pc \in {"idle", "lock"},
           \/ pager[c].eState = "WRITER_LOCKED"
           \/ pager[c].eState \in {"WRITER_CACHEMOD", "WRITER_DBMOD"} /\ pager[c].pc = "idle"
    PROVE  HistoryInv' /\ Mapped
<1> DEFINE opening == pager[c].eState = "WRITER_LOCKED"
           j == IF opening THEN OpenJournal(c) ELSE journal
           p == [extra EXCEPT !.eState = IF opening THEN "WRITER_CACHEMOD" ELSE @,
                              !.cache = Put(@, x, v), !.dirty = @ \cup {x},
                              !.dbSize = IF x > @ THEN x ELSE @]
<1>1. /\ journal' = Recorded(pager[c], j, x)
      /\ forgotten' = forgotten \/ (opening /\ forgotten' = forgotten \cup {NoJournal})
      /\ pager' = [pager EXCEPT ![c] = p]
  BY DEF PutPage, SameWriter, Recorded, Before
<1>2. /\ p.eState = (IF opening THEN "WRITER_CACHEMOD" ELSE pager[c].eState) /\ p.pc = extra.pc
      /\ p.cache = Put(pager[c].cache, x, v)
  BY DEF Fields, SameWriter
<1>3. /\ DOMAIN j = {"exists", "header", "size", "records", "marked", "synced"}
      /\ opening => j.marked = {} /\ j.synced = {}
      /\ ~opening => j = journal
  BY IsTyped DEF JournalType, OpenJournal, NoJournal
<1> HIDE DEF j, p
<1>4. Recorded(pager[c], j, x).marked = j.marked /\ Recorded(pager[c], j, x).synced = j.synced
  BY <1>3 DEF Recorded
<1>5. opening => journal'.marked = journal'.synced
  BY <1>1, <1>3, <1>4
<1>6. ~opening => journal'.marked = journal.marked /\ journal'.synced = journal.synced
  BY <1>1, <1>3, <1>4
<1>7. Counted(p, journal')
  <2>1. CASE opening
    BY <1>5, <2>1 DEF Counted
  <2>2. CASE ~opening
    <3>1. Active(pager[c]) /\ pager[c].pc # "sync"
      BY <2>2 DEF Active, Modifying, GivenUp, Undoing
    <3>2. journal.marked = journal.synced
      BY <3>1 DEF HistoryInv, Counted
    <3> QED
      BY <1>6, <2>2, <3>2 DEF Counted
  <2> QED
    BY <2>1, <2>2
<1>8. NothingNew(file, forgotten, forgotten', Committed)
  <2>1. ~Hot(NoJournal)
    BY DEF Hot, NoJournal
  <2> QED
    BY <1>1, <2>1 DEF NothingNew, Steady
<1>9. HistoryInv' /\ Older' = Older
  BY <1>1, <1>5, <1>6, <1>7, <1>8, HistoryKept
<1>10. pager[c].pc \notin Undoing
  BY IsOK DEF PagerOK, ReadingOK, Undoing
<1>11. IsWriter(pager[c]) /\ IsWriter(p)
  BY <1>2, <1>10 DEF IsWriter, Shows, Writing, Undoing
<1> QED
  BY <1>1, <1>2, <1>9, <1>11, PageChanges

LEMMA WritingStep ==
    ASSUME IInv, DataInv, HistoryInv, txns \in Nat, NEW c \in Conns,
           NewDatabase(c) \/ \E x \in Pages : WritePage(c, x)
    PROVE  HistoryInv' /\ Mapped
<1> DEFINE extra == Idle(c)
<1>1. DOMAIN extra = Fields /\ SameWriter(extra, pager[c]) /\ extra.pc = "idle"
  BY IsReady DEF Idle, Fields, SameWriter
<1>2. file' = file /\ Committed' = Committed
  BY WritingData DEF NewDatabase, WritePage
<1>3. CASE NewDatabase(c)
  <2>1. pager[c].pc = "newDatabase"
    BY <1>3 DEF NewDatabase, At
  <2>2. pager[c].eState \in Writing
    BY <2>1, IsReady DEF Ready, Checking, Undoing, WritingFile
  <2>3. pager[c].eState \notin Modifying
    BY <2>1, IsOK DEF PagerOK, JournalOK, WritingFile, GivenUp, Undoing
  <2>4. pager[c].eState = "WRITER_LOCKED"
    BY <2>2, <2>3 DEF Writing, Modifying
  <2>5. PutPage(c, 1, 0, extra) /\ 0 \in Nat /\ 1 \in Pages
    BY <1>3, FirstPage DEF NewDatabase
  <2> HIDE DEF extra
  <2> QED
    BY <1>1, <1>2, <2>4, <2>5, PutStep
<1>4. CASE \E x \in Pages : WritePage(c, x)
  <2>1. PICK x \in Pages : WritePage(c, x)
    BY <1>4
  <2>2. \/ pager[c].eState = "WRITER_LOCKED"
        \/ pager[c].eState \in {"WRITER_CACHEMOD", "WRITER_DBMOD"} /\ pager[c].pc = "idle"
    BY <2>1 DEF WritePage, InTransaction, At, Writing
  <2>3. PutPage(c, x, txns, extra)
    BY <2>1 DEF WritePage
  <2> HIDE DEF extra
  <2> QED
    BY <1>1, <1>2, <2>2, <2>3, PutStep
<1> QED
  BY <1>3, <1>4

(* Writers that go on to another step. *)
LEMMA OnlyGoesOn ==
    ASSUME IInv, HistoryInv, NEW c \in Conns, NEW p, pager' = [pager EXCEPT ![c] = p],
           UNCHANGED diskVars, pager[c].eState \in Writing, p.eState = pager[c].eState,
           p.cache = pager[c].cache, pager[c].pc \in {"idle", "lock"},
           p.pc \in {"idle", "lock", "mark", "write"}
    PROVE  HistoryInv' /\ Mapped
<1>1. Active(p) /\ p.pc # "sync" => Active(pager[c]) /\ pager[c].pc # "sync"
  BY DEF Active, GivenUp, Undoing
<1>2. HistoryInv' /\ Older' = Older /\ Committed' = Committed /\ file' = file
  BY <1>1, DiskUntouched
<1>3. Shows(p) /\ Shows(pager[c])
  BY DEF Shows, Undoing
<1> QED
  BY <1>2, <1>3, SeenAlike

LEMMA CommitPhaseOneStep ==
    ASSUME IInv, DataInv, HistoryInv, NEW c \in Conns, CommitPhaseOne(c)
    PROVE  HistoryInv' /\ Mapped
<1> DEFINE todo == pager[c].dirty \cup IF pager[c].changeCountDone THEN {} ELSE {1}
           next == [pager[c] EXCEPT !.pc = "lock", !.committing = TRUE, !.changeCountDone = TRUE,
                                    !.todo = todo]
<1>1. DOMAIN next = Fields /\ SameWriter(next, pager[c]) /\ next.pc = "lock"
  <2> HIDE DEF todo
  <2> QED
    BY IsReady DEF Fields, SameWriter
<1>2. pager[c].eState \in {"WRITER_CACHEMOD", "WRITER_DBMOD"} /\ pager[c].pc = "idle" /\ file' = file
  BY DEF CommitPhaseOne, InTransaction, At
<1>3. CASE pager[c].changeCountDone
  <2>1. pager' = [pager EXCEPT ![c] = next] /\ UNCHANGED diskVars
    BY <1>3 DEF CommitPhaseOne, diskVars
  <2> HIDE DEF next
  <2>2. pager[c].eState \in Writing /\ next.eState = pager[c].eState /\ next.cache = pager[c].cache
    BY <1>1, <1>2 DEF SameWriter, Writing
  <2> QED
    BY <1>1, <1>2, <2>1, <2>2, OnlyGoesOn
<1>4. CASE ~pager[c].changeCountDone
  <2> DEFINE v == pager[c].dbFileVers + 1
  <2>1. PutPage(c, 1, v, next)
    BY <1>4 DEF CommitPhaseOne
  <2>2. v \in Nat /\ 1 \in Pages
    BY IsOK, FirstPage DEF PagerOK, PagerType
  <2>3. Committed' = Committed
    BY CommitPhaseOneData
  <2> HIDE DEF next, v
  <2> QED
    BY <1>1, <1>2, <2>1, <2>2, <2>3, PutStep
<1> QED
  BY <1>3, <1>4

LEMMA SpillStep ==
    ASSUME IInv, HistoryInv, NEW c \in Conns, NEW x \in Pages, Spill(c, x)
    PROVE  HistoryInv' /\ Mapped
<1> DEFINE pc == IF NeedSync(x) \/ pager[c].eState = "WRITER_CACHEMOD" THEN "lock" ELSE "write"
           p == [pager[c] EXCEPT !.todo = {x}, !.committing = FALSE, !.pc = pc]
<1>1. pager' = [pager EXCEPT ![c] = p]
  BY IsReady DEF Spill, Fields
<1>2. p.eState = pager[c].eState /\ p.cache = pager[c].cache /\ p.pc \in {"lock", "write"}
  BY IsReady DEF Fields
<1>3. UNCHANGED diskVars /\ pager[c].eState \in Writing /\ pager[c].pc = "idle"
  BY DEF Spill, InTransaction, At
<1> HIDE DEF p
<1> QED
  BY <1>1, <1>2, <1>3, OnlyGoesOn

LEMMA LockForWritingStep ==
    ASSUME IInv, HistoryInv, NEW c \in Conns, LockForWriting(c) \/ LockGivesUp(c)
    PROVE  HistoryInv' /\ Mapped
<1>1. UNCHANGED diskVars /\ pager[c].eState \in Writing /\ pager[c].pc = "lock"
  BY LockForWritingState DEF LockForWriting, LockGivesUp, At
<1>2. \E p : /\ pager' = [pager EXCEPT ![c] = p] /\ SameData(p, pager[c])
             /\ p.pc \in {"idle", "lock", "mark"}
  <2>1. CASE Goto(c, "mark") \/ Goto(c, "idle")
    BY <2>1, GoesOn
  <2>2. CASE pager' = pager
    BY <1>1, <2>2, SameLockData DEF SameData
  <2>3. Goto(c, "mark") \/ Goto(c, "idle") \/ pager' = pager
    BY DEF LockForWriting, LockGivesUp, Goto
  <2> QED
    BY <2>1, <2>2, <2>3
<1>3. PICK p : /\ pager' = [pager EXCEPT ![c] = p] /\ SameData(p, pager[c])
               /\ p.pc \in {"idle", "lock", "mark"}
  BY <1>2
<1> QED
  BY <1>1, <1>3, OnlyGoesOn DEF SameData

LEMMA MarkRecordsStep ==
    ASSUME IInv, DataInv, HistoryInv, NEW c \in Conns, MarkRecords(c)
    PROVE  HistoryInv' /\ Mapped
<1>1. PICK p : pager' = [pager EXCEPT ![c] = p] /\ SameData(p, pager[c]) /\ p.pc = "sync"
  BY GoesOn DEF MarkRecords
<1>2. pager[c].pc = "mark" /\ pager[c].eState \in Writing /\ lock[c] >= 2
  BY WritingFileState DEF MarkRecords, At, WritingFile
<1>3. file' = file /\ forgotten' = forgotten /\ Committed' = Committed
  BY MarkRecordsData DEF MarkRecords
<1>4. Counted(p, journal')
  BY <1>1 DEF Counted
<1>5. NothingNew(file, forgotten, forgotten', Committed)
  BY <1>3 DEF NothingNew
<1>6. HistoryInv' /\ Older' = Older
  BY <1>1, <1>2, <1>3, <1>4, <1>5, HistoryKept
<1>7. Shows(pager[c]) /\ Shows(p)
  BY <1>1, <1>2 DEF Shows, SameData, Undoing
<1> QED
  BY <1>1, <1>3, <1>6, <1>7, SeenAlike DEF SameData

LEMMA SyncJournalStep ==
    ASSUME IInv, DataInv, HistoryInv, NEW c \in Conns, SyncJournal(c)
    PROVE  HistoryInv' /\ Mapped
<1> DEFINE p == [pager[c] EXCEPT !.pc = "write", !.eState = "WRITER_DBMOD"]
<1>1. pager' = [pager EXCEPT ![c] = p]
  BY IsReady DEF SyncJournal, Fields
<1>2. p.pc = "write" /\ p.eState = "WRITER_DBMOD" /\ p.cache = pager[c].cache
  BY IsReady DEF Fields
<1> HIDE DEF p
<1>3. pager[c].pc = "sync" /\ pager[c].eState \in Writing /\ lock[c] >= 2
  BY WritingFileState DEF SyncJournal, At, WritingFile
<1>4. file' = file /\ forgotten' = {} /\ Committed' = Committed
  BY SyncJournalData DEF SyncJournal, SyncJournalFile
<1>5. Counted(p, journal')
  <2>1. journal'.marked = journal'.synced
    BY IsTyped DEF JournalType, SyncJournal, SyncJournalFile
  <2> QED
    BY <2>1 DEF Counted
<1>6. HistoryInv' /\ Older' = {}
  BY <1>1, <1>3, <1>4, <1>5, HistoryForgotten
<1>7. Shows(pager[c]) /\ Shows(p) /\ p.eState \in Writing
  BY <1>2, <1>3 DEF Shows, Undoing, Writing
<1> QED
  BY <1>1, <1>2, <1>3, <1>4, <1>6, <1>7, SeenAlike

LEMMA WriteDirtyPageStep ==
    ASSUME IInv, DataInv, HistoryInv, NEW c \in Conns, NEW x \in Pages, WriteDirtyPage(c, x)
    PROVE  HistoryInv' /\ Mapped
<1> DEFINE rest == pager[c].todo \ {x}
           commit == pager[c].committing
           p == [pager[c] EXCEPT !.todo = rest,
                     !.dirty = IF commit THEN @ ELSE @ \ {x},
                     !.dbFileVers = IF x = 1 THEN pager[c].cache[1] ELSE @,
                     !.cache = IF commit THEN @ ELSE [q \in DOMAIN @ \ {x} |-> @[q]],
                     !.pc = IF rest # {} THEN @ ELSE IF commit THEN "syncFile" ELSE "idle"]
<1>1. pager' = [pager EXCEPT ![c] = p]
  BY DEF WriteDirtyPage
<1>2. pager[c].pc = "write" /\ x \in pager[c].todo
  BY DEF WriteDirtyPage, At
<1>3. /\ p.eState = pager[c].eState /\ p.pc \in {"write", "syncFile", "idle"}
      /\ p.cache = IF commit THEN pager[c].cache
                   ELSE [q \in DOMAIN pager[c].cache \ {x} |-> pager[c].cache[q]]
  BY <1>2, IsReady DEF Fields
<1> HIDE DEF p
<1>4. pager[c].eState = "WRITER_DBMOD" /\ lock[c] = 4 /\ lock[c] >= 2
  BY <1>2, WritingState DEF WritingFile
<1>5. journal' = journal /\ Committed' = Committed
  BY WriteDirtyPageData DEF WriteDirtyPage
<1>6. forgotten' = {}
  <2>1. journal.header = "synced"
    BY <1>4, IsOK DEF PagerOK, JournalOK, Modifying
  <2>2. forgotten = {}
    BY <2>1, IsDiskOK DEF DiskOK
  <2> QED
    BY <2>2 DEF WriteDirtyPage
<1>7. Active(pager[c])
  BY <1>2, <1>4 DEF Active, Modifying, GivenUp, Undoing
<1>8. Counted(p, journal')
  <2>1. journal.marked = journal.synced
    BY <1>2, <1>7 DEF HistoryInv, Counted
  <2> QED
    BY <1>5, <2>1 DEF Counted
<1>9. HistoryInv' /\ Older' = {}
  BY <1>1, <1>4, <1>6, <1>8, HistoryForgotten
<1>10. Shown(p, file') = Shown(pager[c], file)
  <2>1. x \in DOMAIN pager[c].cache
    BY <1>2, <1>7, IsOK DEF PagerOK, DirtyOK, TodoOK
  <2>2. \A q \in Pages : file'[q] = IF q = x THEN pager[c].cache[x] ELSE file[q]
    BY DEF WriteDirtyPage, WriteFile
  <2>3. \A q \in Pages :
           (IF q \in DOMAIN p.cache THEN p.cache[q] ELSE file'[q])
           = (IF q \in DOMAIN pager[c].cache THEN pager[c].cache[q] ELSE file[q])
    BY <1>3, <2>1, <2>2
  <2> QED
    BY <2>3 DEF Shown
<1>11. Shows(p) /\ Shows(pager[c])
  BY <1>2, <1>3, <1>4 DEF Shows, Writing, Undoing
<1>12. ViewOf(p, file') = ViewOf(pager[c], file) /\ (IsWriter(p) <=> IsWriter(pager[c]))
  BY <1>3, <1>10, <1>11 DEF ViewOf, IsWriter
<1> QED
  BY <1>1, <1>4, <1>5, <1>9, <1>12, Stutters

LEMMA SyncDatabaseStep ==
    ASSUME IInv, DataInv, HistoryInv, NEW c \in Conns, SyncDatabase(c)
    PROVE  HistoryInv' /\ Mapped
<1> DEFINE p == [pager[c] EXCEPT !.eState = "WRITER_FINISHED", !.pc = "idle", !.dirty = {}]
<1>1. pager' = [pager EXCEPT ![c] = p]
  BY IsReady DEF SyncDatabase, Fields
<1>2. p.pc = "idle" /\ p.eState = "WRITER_FINISHED" /\ p.cache = pager[c].cache
  BY IsReady DEF Fields
<1> HIDE DEF p
<1>3. pager[c].pc = "syncFile" /\ pager[c].eState = "WRITER_DBMOD" /\ lock[c] >= 2
  BY WritingState DEF SyncDatabase, At, WritingFile
<1>4. /\ file' = file /\ journal' = journal /\ forgotten' = forgotten /\ Committed' = Committed
  BY SyncDatabaseData DEF SyncDatabase, SyncFile
<1>5. Counted(p, journal')
  <2>1. Active(pager[c])
    BY <1>3 DEF Active, Modifying, GivenUp, Undoing
  <2>2. journal.marked = journal.synced
    BY <1>3, <2>1 DEF HistoryInv, Counted
  <2> QED
    BY <1>4, <2>2 DEF Counted
<1>6. NothingNew(file, forgotten, forgotten', Committed)
  BY <1>4 DEF NothingNew
<1>7. HistoryInv' /\ Older' = Older
  BY <1>1, <1>3, <1>4, <1>5, <1>6, HistoryKept
<1>8. Shows(pager[c]) /\ Shows(p) /\ p.eState \in Writing /\ pager[c].eState \in Writing
  BY <1>2, <1>3 DEF Shows, Undoing, Writing
<1> QED
  BY <1>1, <1>2, <1>4, <1>7, <1>8, SeenAlike

(* Ends of transactions. *)
LEMMA EndedState ==
    ASSUME NEW c \in Conns, NEW eState, NEW pc, NEW n
    PROVE  Ended(c, eState, pc, n).eState = eState /\ Ended(c, eState, pc, n).pc = pc
  BY DEF Ended, NewPager

LEMMA NothingChanged ==
    ASSUME IInv, HistoryInv, NEW c \in Conns, NEW n,
           pager' = [pager EXCEPT ![c] = Ended(c, "READER", "idle", n)],
           UNCHANGED diskVars, pager[c].eState = "WRITER_LOCKED", pager[c].pc = "idle", DataInv'
    PROVE  HistoryInv' /\ Mapped
<1> DEFINE p == Ended(c, "READER", "idle", n)
<1>1. p.eState = "READER" /\ p.pc = "idle"
  BY EndedState
<1>2. pager' = [pager EXCEPT ![c] = p]
  OBVIOUS
<1> HIDE DEF p
<1>3. HistoryInv' /\ Older' = Older /\ Committed' = Committed /\ file' = file
  BY <1>1, <1>2, DiskUntouched DEF Active, Modifying
<1>4. IsWriter(pager[c]) /\ ~IsWriter(p)
  BY <1>1 DEF IsWriter, Shows, Writing, Undoing
<1>5. pager'[c] = p
  BY <1>2 DEF IInv, ShapeInv
<1>6. ViewOf(p, file') = Committed
  BY <1>1, <1>3, <1>5, ReaderWillSee DEF Undoing
<1> QED
  BY <1>2, <1>3, <1>4, <1>6, Abandons

LEMMA CommitPhaseTwoStep ==
    ASSUME IInv, DataInv, HistoryInv, NEW c \in Conns, CommitPhaseTwo(c), DataInv'
    PROVE  HistoryInv' /\ Mapped
<1>1. pager[c].eState \in {"WRITER_LOCKED", "WRITER_FINISHED"} /\ pager[c].pc = "idle"
  BY DEF CommitPhaseTwo, InTransaction, At
<1>2. CASE pager[c].eState = "WRITER_LOCKED"
  <2>1. UNCHANGED diskVars /\ pager' = [pager EXCEPT ![c] = Ended(c, "READER", "idle", pager[c].dbSize)]
    BY <1>2 DEF CommitPhaseTwo, diskVars
  <2> QED
    BY <1>1, <1>2, <2>1, NothingChanged
<1>3. CASE pager[c].eState = "WRITER_FINISHED"
  <2> DEFINE p == Ended(c, "READER", "idle", pager[c].dbSize)
  <2>1. p.eState = "READER" /\ p.pc = "idle"
    BY EndedState
  <2>2. pager' = [pager EXCEPT ![c] = p] /\ file' = file /\ DeleteJournal
    BY <1>3 DEF CommitPhaseTwo
  <2> HIDE DEF p
  <2>3. pager'[c] = p
    BY <2>2 DEF IInv, ShapeInv
  <2>4. Active(pager[c]) /\ pager[c].eState \in Modifying
    BY <1>1, <1>3 DEF Active, Modifying, GivenUp, Undoing
  <2>5. journal.header = "synced" /\ journal.exists
    BY <1>3, <2>4, IsOK DEF PagerOK, JournalOK
  <2>6. forgotten = {}
    BY <2>5, IsDiskOK DEF DiskOK
  <2>7. journal.marked = journal.synced
    BY <1>1, <2>4 DEF HistoryInv, Counted
  <2>8. forgotten' = {journal} /\ journal' = NoJournal
    BY <2>2, <2>5, <2>6 DEF DeleteJournal
  <2>9. Committed' = file
    BY <2>2, <2>8, IsTyped DEF Committed, Restore, Hot, NoJournal
  <2>10. Committed' # Committed
    <3>1. file[1] = Committed[1] + 1 /\ Committed[1] \in Nat
      BY <1>3, <2>4, IsOK, IsTyped DEF PagerOK, FinishedOK
    <3> QED
      BY <2>9, <3>1
  <2>11. Older' = {Committed}
    <3>1. Restore(file, journal) = Committed
      BY DEF Committed
    <3>2. Hot(journal)
      BY <2>5 DEF Hot
    <3>3. {Restore(file', j) : j \in {i \in forgotten' : Hot(i)}} = {Committed}
      BY <2>2, <2>8, <3>1, <3>2
    <3> QED
      BY <2>10, <3>3, OlderContents DEF Olds
  <2>12. HistoryInv'
    <3>1. Counted(p, journal') /\ lock[c] >= 2
      BY <1>1, <1>3, <2>1, WriterState DEF Counted, Active, Modifying, Writing
    <3>2. \A o \in Conns : Counted(pager'[o], journal')
      BY <2>2, <3>1, CountedKept
    <3>3. \A j \in forgotten' : Steady(j, file')
      BY <2>7, <2>8 DEF Steady
    <3> QED
      BY <2>11, <3>2, <3>3 DEF HistoryInv
  <2>13. IsWriter(pager[c]) /\ ~IsWriter(p)
    BY <1>1, <1>3, <2>1 DEF IsWriter, Shows, Writing, Undoing
  <2>14. ViewOf(p, file') = Committed'
    BY <2>1, <2>3, ReaderWillSee DEF Undoing
  <2>15. Shown(pager[c], file) = file
    <3>1. \A q \in DOMAIN pager[c].cache : pager[c].cache[q] = file[q]
      BY <1>3, <2>4, IsOK DEF PagerOK, FinishedOK, DirtyOK
    <3> QED
      BY <3>1, IsTyped DEF Shown
  <2> QED
    BY <2>2, <2>9, <2>11, <2>12, <2>13, <2>14, <2>15, Commits
<1> QED
  BY <1>1, <1>2, <1>3

LEMMA GivesUp ==
    ASSUME IInv, HistoryInv, NEW c \in Conns, NEW p, pager' = [pager EXCEPT ![c] = p],
           UNCHANGED diskVars, IsWriter(pager[c]),
           p.pc \in Undoing \/ p.eState = "ERROR"
    PROVE  HistoryInv' /\ Mapped
<1>1. HistoryInv' /\ Older' = Older /\ Committed' = Committed /\ file' = file
  BY DiskUntouched DEF Active, Modifying, GivenUp
<1>2. ~Shows(p)
  BY Blind DEF NotReading
<1>3. ~IsWriter(p) /\ ViewOf(p, file') = NoView
  BY <1>2 DEF IsWriter, ViewOf
<1> QED
  BY <1>1, <1>3, Abandons

LEMMA RollbackStep ==
    ASSUME IInv, DataInv, HistoryInv, NEW c \in Conns, Rollback(c), DataInv'
    PROVE  HistoryInv' /\ Mapped
<1>1. pager[c].eState \in Writing /\ pager[c].pc \in {"idle", "mustRollback"} /\ UNCHANGED diskVars
  BY DEF Rollback
<1>2. CASE pager[c].eState = "WRITER_LOCKED"
  <2>1. pager' = [pager EXCEPT ![c] = Ended(c, "READER", "idle", pager[c].dbSize)]
    BY <1>2 DEF Rollback
  <2>2. pager[c].pc = "idle"
    BY <1>1, <1>2, IsOK DEF PagerOK, ReadingOK
  <2> QED
    BY <1>1, <1>2, <2>1, <2>2, NothingChanged
<1>3. CASE pager[c].eState # "WRITER_LOCKED"
  <2> DEFINE p == [pager[c] EXCEPT !.pc = "truncate", !.todo = DOMAIN journal.records]
  <2>1. pager' = [pager EXCEPT ![c] = p]
    BY <1>3, IsReady DEF Rollback, Fields
  <2>2. p.pc \in Undoing
    BY IsReady DEF Fields, Undoing
  <2> HIDE DEF p
  <2>3. IsWriter(pager[c])
    BY <1>1 DEF IsWriter, Shows, Undoing
  <2> QED
    BY <1>1, <2>1, <2>2, <2>3, GivesUp
<1> QED
  BY <1>2, <1>3

LEMMA FailedState ==
    ASSUME IInv, NEW c \in Conns
    PROVE  Failed(c).eState = "ERROR" /\ Failed(c).pc = "idle"
  BY IsReady DEF Failed, Fields

LEMMA IOErrorStep ==
    ASSUME IInv, DataInv, HistoryInv, NEW c \in Conns, IOError(c)
    PROVE  HistoryInv' /\ Mapped
<1>1. UNCHANGED diskVars
  BY DEF IOError
<1>2. CASE pager[c].pc \in WritingFile
  <2>1. pager[c].eState \in Writing
    BY <1>2, WritingFileState
  <2>2. Shows(pager[c]) /\ IsWriter(pager[c])
    BY <1>2, <2>1 DEF Shows, IsWriter, WritingFile, Undoing
  <2>3. CASE Goto(c, "mustRollback")
    <3>1. PICK p : /\ pager' = [pager EXCEPT ![c] = p] /\ SameData(p, pager[c])
                   /\ p.pc = "mustRollback"
      BY <2>3, GoesOn
    <3>2. HistoryInv' /\ Older' = Older /\ Committed' = Committed /\ file' = file
      BY <1>1, <3>1, DiskUntouched DEF Active, GivenUp
    <3>3. Shows(p)
      BY <2>1, <3>1 DEF Shows, SameData, Undoing
    <3> QED
      BY <2>2, <3>1, <3>2, <3>3, SeenAlike DEF SameData
  <2>4. CASE pager' = [pager EXCEPT ![c] = Failed(c)]
    BY <1>1, <2>2, <2>4, FailedState, GivesUp
  <2>5. Goto(c, "mustRollback") \/ pager' = [pager EXCEPT ![c] = Failed(c)]
    BY <1>2 DEF IOError, WritingFile, InTransaction, At
  <2> QED
    BY <2>3, <2>4, <2>5
<1>3. CASE pager[c].eState = "WRITER_FINISHED" /\ pager[c].pc = "idle"
  <2>1. IsWriter(pager[c])
    BY <1>3 DEF IsWriter, Shows, Writing, Undoing
  <2>2. pager' = [pager EXCEPT ![c] = Failed(c)]
    BY <1>3 DEF IOError
  <2> QED
    BY <1>1, <2>1, <2>2, FailedState, GivesUp
<1>4. CASE pager[c].pc \in Undoing
  <2>1. (\E error : pager_unlock(c, error)) \/ pager' = [pager EXCEPT ![c] = Failed(c)]
    BY <1>4 DEF IOError, Undoing, InTransaction, At
  <2>2. \E p : pager' = [pager EXCEPT ![c] = p] /\ p.eState \in NotReading
    <3>1. CASE \E error : pager_unlock(c, error)
      BY <3>1, Unlocks DEF NotReading
    <3>2. CASE pager' = [pager EXCEPT ![c] = Failed(c)]
      BY <3>2, FailedState DEF NotReading
    <3> QED
      BY <2>1, <3>1, <3>2
  <2>3. PICK p : pager' = [pager EXCEPT ![c] = p] /\ p.eState \in NotReading
    BY <2>2
  <2>4. HistoryInv' /\ Older' = Older /\ Committed' = Committed /\ file' = file
    BY <1>1, <2>3, DiskUntouched DEF Active, Modifying, NotReading
  <2> QED
    BY <1>4, <2>3, <2>4, Unseen, Blind
<1> QED
  BY <1>2, <1>3, <1>4 DEF IOError, WritingFile, Undoing, InTransaction, At

(* Crashes. *)
LEMMA ProcessCrashStep ==
    ASSUME IInv, HistoryInv, NEW P \in SUBSET Conns, ProcessCrash(P)
    PROVE  HistoryInv' /\ Mapped
<1>1. /\ file' = file /\ journal' = journal /\ forgotten' = forgotten
      /\ pager' = [c \in Conns |-> IF c \in P THEN NewPager ELSE pager[c]]
  BY DEF ProcessCrash, diskVars
<1>2. Committed' = Committed /\ Older' = Older
  BY <1>1 DEF Committed, Older
<1>3. ~Shows(NewPager) /\ ~Active(NewPager)
  BY DEF NewPager, Shows, Active, Writing, Modifying
<1>4. \A c \in Conns : Counted(pager'[c], journal')
  BY <1>1, <1>3 DEF HistoryInv, Counted
<1>5. HistoryInv'
  BY <1>1, <1>2, <1>4 DEF HistoryInv
<1>6. Views' = [c \in Conns |-> IF c \in P THEN NoView ELSE Views[c]]
  <2>1. \A c \in Conns : ViewOf(pager'[c], file') = IF c \in P THEN NoView ELSE Views[c]
    BY <1>1, <1>3, Mapping DEF ViewOf
  <2> QED
    BY <2>1, Mapping
<1>7. Writers' = Writers \ P
  BY <1>1, <1>3, Mapping DEF IsWriter
<1>8. Writer' = IF Writer \in P THEN Nobody ELSE Writer
  <2>1. Writers \subseteq Conns
    BY Mapping
  <2>2. CASE Writer \in Writers
    <3>1. Writers = {Writer}
      BY <2>1, <2>2, OneWriter, Mapping
    <3> QED
      BY <1>7, <3>1, WriterChosen
  <2>3. CASE Writer = Nobody /\ Writers = {}
    <3>1. Nobody \notin P
      BY MappingAssumption
    <3> QED
      BY <1>7, <2>3, <3>1, WriterChosen
  <2> QED
    BY <2>2, <2>3, WriterWrites
<1>9. Earlier' = Earlier
  BY <1>2, EarlierChosen
<1>10. Database!Vanish(P) /\ UNCHANGED <<Committed, Earlier>>
  BY <1>2, <1>6, <1>8, <1>9 DEF Database!Vanish
<1> QED
  BY <1>5, <1>10 DEF Mapped, Database!Next, Database!ProcessCrash

(* A power failure. *)

(* What survives of the journal in use plays back the committed content. *)
LEMMA JournalSurvives ==
    ASSUME DataInv, Committed[1] # 0, NEW j2 \in Survivors(journal), NEW f \in [Pages -> Nat],
           \A q \in Pages : f[q] \in unsynced[q] \cup {file[q]}
    PROVE  Restore(f, j2) = Committed
<1>1. JournalType(journal) /\ Committed \in [Pages -> Nat]
  BY IsTyped
<1>2. /\ JournalType(j2) /\ j2.exists = journal.exists /\ j2.size = journal.size
      /\ j2.header # "written" /\ j2.marked \subseteq journal.marked
      /\ \A q \in j2.marked : j2.records[q] = journal.records[q]
      /\ j2.header = "blank" => journal.header # "synced"
      /\ j2.header = "synced" => journal.header # "blank" /\ journal.synced \subseteq j2.marked
  BY <1>1, Surviving
<1>3. \A q \in Pages : ~Kept(journal, q) => f[q] = Committed[q]
  BY IsDiskOK DEF DiskOK
<1>4. CASE j2.header = "blank"
  <2>1. Restore(f, j2) = f
    BY <1>2, <1>4, Content
  <2>2. \A q \in Pages : f[q] = Committed[q]
    BY <1>2, <1>3, <1>4 DEF Kept
  <2> QED
    BY <1>1, <2>1, <2>2
<1>5. CASE j2.header = "synced"
  <2>1. Hot(j2) /\ Hot(journal)
    BY <1>1, <1>2, <1>5 DEF Hot, JournalType
  <2>2. \A q \in Pages : Committed[q] = IF q > journal.size THEN 0
                                        ELSE IF q \in journal.marked THEN journal.records[q] ELSE file[q]
    BY <2>1 DEF Committed, Restore
  <2>3. \A q \in Pages : Restore(f, j2)[q] = IF q > j2.size THEN 0
                                             ELSE IF q \in j2.marked THEN j2.records[q] ELSE f[q]
    BY <2>1 DEF Restore
  <2>4. ASSUME NEW q \in Pages PROVE Restore(f, j2)[q] = Committed[q]
    <3>1. CASE q > journal.size
      BY <1>2, <2>2, <2>3, <3>1
    <3>2. CASE ~(q > journal.size) /\ q \in j2.marked
      BY <1>2, <2>2, <2>3, <3>2
    <3>3. CASE ~(q > journal.size) /\ q \notin j2.marked
      <4>1. ~Kept(journal, q)
        BY <1>2, <1>5, <3>3 DEF Kept
      <4>2. Restore(f, j2)[q] = f[q]
        BY <1>2, <2>3, <3>3
      <4> QED
        BY <1>3, <4>1, <4>2
    <3> QED
      BY <3>1, <3>2, <3>3
  <2>5. Restore(f, j2) \in [Pages -> Nat]
    BY <1>2, Content
  <2> QED
    BY <1>1, <2>4, <2>5
<1> QED
  BY <1>2, <1>4, <1>5 DEF JournalType

(* What survives of a journal whose deletion is undone plays back the       *)
(* content before the transaction, as a whole, or nothing.                  *)
LEMMA ForgottenSurvives ==
    ASSUME DataInv, HistoryInv, Committed[1] # 0, NEW j \in forgotten, NEW j2 \in Survivors(j),
           NEW f \in [Pages -> Nat], \A q \in Pages : f[q] \in unsynced[q] \cup {file[q]}
    PROVE  Restore(f, j2) = Committed \/ (Hot(j) /\ Restore(f, j2) = Restore(file, j))
<1>1. JournalType(j) /\ Committed \in [Pages -> Nat]
  BY IsTyped
<1>2. /\ JournalType(j2) /\ j2.exists = j.exists /\ j2.size = j.size
      /\ j2.header # "written" /\ j2.marked \subseteq j.marked
      /\ \A q \in j2.marked : j2.records[q] = j.records[q]
      /\ j2.header = "synced" => j.header # "blank" /\ j.synced \subseteq j2.marked
  BY <1>1, Surviving
<1>3. \A q \in Pages : f[q] = Committed[q] /\ file[q] = Committed[q]
  <2>1. journal.header # "synced"
    BY IsDiskOK DEF DiskOK
  <2> QED
    BY <2>1, IsDiskOK DEF DiskOK, Kept
<1>4. f = Committed /\ file = Committed
  BY <1>1, <1>3, IsTyped
<1>5. CASE j2.header = "blank"
  BY <1>2, <1>4, <1>5, Content
<1>6. CASE j2.header = "synced"
  <2>1. Hot(j2) /\ Hot(j)
    BY <1>1, <1>2, <1>6 DEF Hot, JournalType
  <2>2. \A q \in j.marked \ j.synced : j.records[q] = file[q]
    BY <2>1 DEF HistoryInv, Steady
  <2>3. \A q \in Pages : (IF q > j2.size THEN 0 ELSE IF q \in j2.marked THEN j2.records[q] ELSE f[q])
                         = (IF q > j.size THEN 0 ELSE IF q \in j.marked THEN j.records[q] ELSE file[q])
    BY <1>2, <1>4, <1>6, <2>2
  <2>4. Restore(f, j2) = Restore(file, j)
    BY <2>1, <2>3 DEF Restore
  <2> QED
    BY <2>1, <2>4
<1> QED
  BY <1>2, <1>5, <1>6 DEF JournalType

LEMMA PowerFailureStep ==
    ASSUME IInv, DataInv, HistoryInv, ~FaultsWhenEmpty, PowerFailure
    PROVE  HistoryInv' /\ Mapped
<1>1. /\ Committed[1] # 0 /\ forgotten' = {}
      /\ pager' = [c \in Conns |-> NewPager]
      /\ \A q \in Pages : file'[q] \in unsynced[q] \cup {file[q]}
      /\ DOMAIN file' = Pages /\ file' = [q \in Pages |-> file'[q]]
  BY DEF PowerFailure, Fails
<1>2. PICK j \in forgotten \cup {journal} : journal' \in Survivors(j)
  BY DEF PowerFailure
<1>3. ~Shows(NewPager) /\ ~Active(NewPager)
  BY DEF NewPager, Shows, Active, Writing, Modifying
<1>4. Older' = {}
  BY <1>1, OlderContents DEF Olds
<1>5. HistoryInv'
  <2>1. \A c \in Conns : Counted(pager'[c], journal')
    BY <1>1, <1>3 DEF Counted
  <2> QED
    BY <1>1, <1>4, <2>1 DEF HistoryInv
<1>6. Views' = [c \in Conns |-> NoView] /\ Writers' = {}
  BY <1>1, <1>3, Mapping DEF ViewOf, IsWriter
<1>7. Writer' = Nobody /\ Earlier' = Committed'
  BY <1>4, <1>6, WriterChosen, EarlierChosen
<1>8. Writer \in Conns \/ Writer = Nobody
  BY WriterWrites, Mapping
<1>9. file' \in [Pages -> Nat]
  <2>1. \A q \in Pages : file'[q] \in Nat
    BY <1>1, IsTyped
  <2> QED
    BY <1>1, <2>1
<1>10. Committed' \in {Committed, Earlier}
  <2>1. Committed' = Restore(file', journal')
    BY DEF Committed
  <2>2. CASE j = journal
    <3>1. \A i \in Survivors(journal) : Restore(file', i) = Committed
      BY <1>1, <1>9, JournalSurvives
    <3> QED
      BY <1>2, <2>1, <2>2, <3>1
  <2>3. CASE j \in forgotten
    <3>1. \A i \in Survivors(j) :
             Restore(file', i) = Committed \/ (Hot(j) /\ Restore(file', i) = Restore(file, j))
      BY <1>1, <1>9, <2>3, ForgottenSurvives
    <3>2. Committed' = Committed \/ (Hot(j) /\ Committed' = Restore(file, j))
      BY <1>2, <2>1, <3>1
    <3>3. CASE Committed' # Committed
      <4>1. Committed' \in Older
        BY <2>3, <3>2, <3>3 DEF Older
      <4>2. Older = {Committed'}
        BY <4>1 DEF HistoryInv
      <4>3. Earlier = The(Older, Committed)
        BY DEF Earlier
      <4> QED
        BY <4>2, <4>3, TheOnly
    <3> QED
      BY <3>3
  <2> QED
    BY <1>2, <2>2, <2>3
<1>11. Database!PowerFailure
  <2>1. Database!Vanish(Conns)
    BY <1>6, <1>7, <1>8 DEF Database!Vanish
  <2> QED
    BY <1>7, <1>10, <2>1 DEF Database!PowerFailure
<1> QED
  BY <1>5, <1>11 DEF Mapped, Database!Next

-----------------------------------------------------------------------------
(* The refinement. *)

LEMMA InitHistory == Init => HistoryInv /\ Database!Init
<1> SUFFICES ASSUME Init PROVE HistoryInv /\ Database!Init
  OBVIOUS
<1>1. forgotten = {} /\ \A c \in Conns : ~Active(pager[c]) /\ ~Shows(pager[c])
  BY DEF Init, NewPager, Active, Modifying, Shows, Writing
<1>2. Older = {}
  BY <1>1, OlderContents DEF Olds
<1>3. Earlier = Committed
  BY <1>2, TheOnly DEF Earlier
<1>4. Views = [c \in Conns |-> NoView] /\ Writers = {}
  BY <1>1, Mapping DEF ViewOf, IsWriter
<1>5. Writer = Nobody
  BY <1>4, WriterChosen
<1>6. Committed \in [Pages -> Nat]
  BY InitDataInv, IsTyped
<1>7. HistoryInv
  BY <1>1, <1>2 DEF HistoryInv, Counted
<1> QED
  BY <1>3, <1>4, <1>5, <1>6, <1>7 DEF Database!Init, Database!Content

LEMMA NextHistory ==
    ASSUME ~FaultsWhenEmpty
    PROVE  IInv /\ DataInv /\ txns \in Nat /\ HistoryInv /\ [Next]_vars => HistoryInv' /\ Mapped
<1> SUFFICES ASSUME IInv, DataInv, txns \in Nat, HistoryInv, [Next]_vars PROVE HistoryInv' /\ Mapped
  OBVIOUS
<1>0. DataInv'
  BY NextDataInv
<1>1. ASSUME NEW c \in Conns, Step(c) PROVE HistoryInv' /\ Mapped
  <2>1. CASE \/ JournalExists(c) \/ JournalInUse(c) \/ JournalFirstByte(c)
             \/ LockHotJournal(c) \/ ErrorUnlock(c)
    BY <2>1, CheckingStep
  <2>2. CASE DiscardJournal(c)
    BY <2>2, DiscardJournalStep
  <2>3. CASE SyncHotJournal(c)
    BY <2>3, SyncHotJournalStep
  <2>4. CASE Validate(c)
    BY <1>0, <2>4, ValidateStep
  <2>5. CASE BeginExclusive(c)
    BY <1>0, <2>5, BeginExclusiveStep
  <2>6. CASE NewDatabase(c)
    BY <2>6, WritingStep
  <2>7. CASE LockForWriting(c)
    BY <2>7, LockForWritingStep
  <2>8. CASE MarkRecords(c)
    BY <2>8, MarkRecordsStep
  <2>9. CASE SyncJournal(c)
    BY <2>9, SyncJournalStep
  <2>10. CASE \E x \in Pages : WriteDirtyPage(c, x) \/ PlaybackOnePage(c, x)
    BY <2>10, WriteDirtyPageStep, PlaybackOnePageStep
  <2>11. CASE SyncDatabase(c)
    BY <2>11, SyncDatabaseStep
  <2>12. CASE TruncateFile(c)
    BY <2>12, TruncateFileStep
  <2>13. CASE SyncPlayback(c)
    BY <2>13, SyncPlaybackStep
  <2>14. CASE EndPlayback(c)
    BY <1>0, <2>14, EndPlaybackStep
  <2> QED
    BY <1>1, <2>1, <2>2, <2>3, <2>4, <2>5, <2>6, <2>7, <2>8, <2>9, <2>10, <2>11, <2>12, <2>13, <2>14
       DEF Step
<1>2. ASSUME NEW c \in Conns, Request(c) PROVE HistoryInv' /\ Mapped
  <2>1. CASE SharedLock(c)
    BY <2>1, CheckingStep
  <2>2. CASE EndRead(c) \/ BeginGivesUp(c)
    BY <2>2, EndReadStep
  <2>3. CASE \E exFlag \in BOOLEAN : Begin(c, exFlag)
    BY <1>0, <2>3, BeginStep
  <2>4. CASE \E x \in Pages : ReadPage(c, x)
    BY <2>4, ReadPageStep
  <2>5. CASE \E x \in Pages : WritePage(c, x)
    BY <2>5, WritingStep
  <2>6. CASE \E x \in Pages : Spill(c, x)
    BY <2>6, SpillStep
  <2>7. CASE CommitPhaseOne(c)
    BY <2>7, CommitPhaseOneStep
  <2>8. CASE CommitPhaseTwo(c)
    BY <1>0, <2>8, CommitPhaseTwoStep
  <2>9. CASE Rollback(c)
    BY <1>0, <2>9, RollbackStep
  <2>10. CASE LockGivesUp(c)
    BY <2>10, LockForWritingStep
  <2> QED
    BY <1>2, <2>1, <2>2, <2>3, <2>4, <2>5, <2>6, <2>7, <2>8, <2>9, <2>10 DEF Request
<1>3. ASSUME NEW c \in Conns, IOError(c) PROVE HistoryInv' /\ Mapped
  BY <1>3, IOErrorStep
<1>4. ASSUME NEW P \in Processes, ProcessCrash(P) PROVE HistoryInv' /\ Mapped
  BY <1>4, ProcessCrashStep, PagerAssumption
<1>5. CASE PowerFailure
  BY <1>5, PowerFailureStep
<1>6. CASE UNCHANGED vars
  <2>1. UNCHANGED <<file, journal, forgotten, pager>>
    BY <1>6 DEF vars, diskVars
  <2>2. Committed' = Committed
    BY <2>1 DEF Committed
  <2>3. Older' = Older
    BY <2>1, <2>2, OlderContents
  <2>4. Views' = Views /\ Writers' = Writers
    BY <2>1, Mapping
  <2>5. Writer' = Writer /\ Earlier' = Earlier
    BY <2>2, <2>3, <2>4, WriterChosen, EarlierChosen
  <2> QED
    BY <2>1, <2>2, <2>3, <2>4, <2>5 DEF HistoryInv, Mapped, Database!vars
<1> QED
  BY <1>1, <1>2, <1>3, <1>4, <1>5, <1>6 DEF Next

(* The pagers are an atomic database, whatever fails once something was     *)
(* committed, whoever ends and wherever the power goes: a transaction sees  *)
(* one committed content, and takes effect at once or not at all.           *)
THEOREM Refinement ==
    ASSUME ~FaultsWhenEmpty
    PROVE  Spec => IsAtomicDatabase
<1> DEFINE Inv == IInv /\ DataInv /\ txns \in Nat /\ HistoryInv
<1>1. Init => Inv /\ Database!Init
  BY InitIInv, InitDataInv, InitHistory DEF Init
<1>2. Inv /\ [Next]_vars => Inv'
  BY NextIInv, NextDataInv, NextTxns, NextHistory
<1>3. Inv /\ [Next]_vars => [Database!Next]_(Database!vars)
  BY NextHistory DEF Mapped
<1> HIDE DEF Inv
<1> QED
  BY <1>1, <1>2, <1>3, PTL DEF Spec, IsAtomicDatabase, Database!Spec

-----------------------------------------------------------------------------
(* How many steps pager p takes at most to give up its lock, if it asks    *)
(* for nothing else: it finds out that there is nothing to play back, and  *)
(* ends what it reads.                                                     *)
StepsToUnlock(p) ==
    IF p.eState \in {"READER", "ERROR"} THEN 1
    ELSE CASE p.pc = "validate" -> 2 [] p.pc \in {"hot", "discard"} -> 3
           [] p.pc = "firstByte" -> 4 [] p.pc = "reserved" -> 5 [] p.pc = "exists" -> 6
           [] OTHER -> 0

(* While c has the PENDING lock, the others only give theirs up. *)
OthersGiveWay ==
    [][\A c \in Conns : lock[c] >= PENDING_LOCK =>
         \A o \in Others(c) :
             /\ lock'[o] <= lock[o]
             /\ StepsToUnlock(pager'[o]) <= StepsToUnlock(pager[o])
             /\ Step(o) \/ EndRead(o) => StepsToUnlock(pager'[o]) < StepsToUnlock(pager[o])]_vars

(* When they all have, c is granted the EXCLUSIVE lock. *)
NothingElseInTheWay ==
    \A c \in Conns : lock[c] >= PENDING_LOCK =>
        /\ \A o \in Others(c) : lock[o] <= SHARED_LOCK
        /\ (\A o \in Others(c) : StepsToUnlock(pager[o]) = 0) => Grants(c, EXCLUSIVE_LOCK)

LEMMA MeasureType == ASSUME NEW p PROVE StepsToUnlock(p) \in 0 .. 6
  BY DEF StepsToUnlock

(* A pager that is told to do nothing holds no lock. *)
IdleUnlocked ==
    \A c \in Conns : pager[c].eState = "OPEN" /\ At(c, "idle") => lock[c] = NO_LOCK

(* What IInv says of the functions of connections. *)
LEMMA Shape ==
    ASSUME IInv
    PROVE  /\ lock \in [Conns -> 0 .. 4] /\ DOMAIN pager = Conns
           /\ \A c \in Conns : DOMAIN pager[c] = Fields
  BY LockNumbers DEF IInv, ShapeInv

(* A pager that gives its lock up is left with none. *)
LEMMA UnlockLeaves ==
    ASSUME IInv, NEW d \in Conns, NEW error, pager_unlock(d, error)
    PROVE  /\ lock'[d] = 0 /\ pager'[d].eState = "OPEN" /\ pager'[d].pc = "idle"
           /\ \A o \in Conns \ {d} : lock'[o] = lock[o] /\ pager'[o] = pager[o]
  BY Shape, LockNumbers DEF pager_unlock, SetLock, NewPager

(* A step of pager d is nobody else's, and it is idle after it only without *)
(* a lock, or as it was before.                                             *)
StepOf(d) ==
    /\ \A o \in Conns \ {d} : lock'[o] = lock[o] /\ pager'[o] = pager[o]
    /\ pager'[d].eState = "OPEN" /\ pager'[d].pc = "idle" => lock'[d] = 0

LEMMA ValidatedState ==
    ASSUME IInv, NEW d \in Conns, Validate(d)
    PROVE  /\ StepOf(d) /\ pager'[d].eState = "READER" /\ pager'[d].pc = "idle"
           /\ lock' = lock
<1> DEFINE kept == KeptCache(d)
           n == Size(file)
           cached == 1 \in DOMAIN kept
           cache == IF cached THEN kept ELSE Put(kept, 1, file[1])
           p == [pager[d] EXCEPT !.eState = "READER", !.pc = "idle", !.dbSize = n, !.cache = cache,
                                 !.dbFileVers = IF cached \/ n = 0 THEN @ ELSE file[1]]
<1>1. pager' = [pager EXCEPT ![d] = p] /\ lock' = lock
  BY DEF Validate
<1> HIDE DEF kept, n, cached, cache
<1>2. p.eState = "READER" /\ p.pc = "idle"
  BY Shape DEF Fields
<1> HIDE DEF p
<1> QED
  BY <1>1, <1>2, Shape DEF StepOf

(* A page is put into the cache of a pager in state extra. *)
LEMMA PutState ==
    ASSUME IInv, NEW d \in Conns, NEW q, NEW v, NEW extra, PutPage(d, q, v, extra),
           DOMAIN extra = Fields, extra.eState \in Writing, lock' = lock
    PROVE  StepOf(d)
<1> DEFINE p == [extra EXCEPT !.eState = IF pager[d].eState = "WRITER_LOCKED" THEN "WRITER_CACHEMOD" ELSE @,
                              !.cache = Put(@, q, v), !.dirty = @ \cup {q},
                              !.dbSize = IF q > @ THEN q ELSE @]
<1>1. pager' = [pager EXCEPT ![d] = p]
  BY DEF PutPage
<1>2. p.eState # "OPEN"
  BY DEF Fields, Writing
<1> HIDE DEF p
<1> QED
  BY <1>1, <1>2, Shape DEF StepOf

LEMMA HotSteps ==
    ASSUME IInv, NEW d \in Conns,
           \/ SharedLock(d) \/ JournalExists(d) \/ JournalInUse(d) \/ DiscardJournal(d)
           \/ JournalFirstByte(d) \/ LockHotJournal(d) \/ SyncHotJournal(d) \/ Validate(d)
    PROVE  StepOf(d)
<1> USE Shape DEF StepOf, At, Fields
<1>1. CASE SharedLock(d)
  BY <1>1 DEF SharedLock, Goto, SetLock
<1>2. CASE JournalExists(d) \/ JournalInUse(d) \/ DiscardJournal(d) \/ JournalFirstByte(d)
  BY <1>2 DEF JournalExists, JournalInUse, DiscardJournal, JournalFirstByte, Goto
<1>3. CASE LockHotJournal(d)
  BY <1>3, UnlockLeaves DEF LockHotJournal, Goto, SetLock
<1>4. CASE SyncHotJournal(d)
  BY <1>4 DEF SyncHotJournal
<1>5. CASE Validate(d)
  BY <1>5, ValidatedState
<1> QED
  BY <1>1, <1>2, <1>3, <1>4, <1>5

LEMMA ReaderSteps ==
    ASSUME IInv, NEW d \in Conns, NEW q \in Pages, NEW exFlag \in BOOLEAN,
           \/ EndRead(d) \/ ErrorUnlock(d) \/ BeginGivesUp(d)
           \/ ReadPage(d, q) \/ Begin(d, exFlag) \/ BeginExclusive(d)
    PROVE  StepOf(d)
<1> USE Shape DEF StepOf, At, Fields
<1>1. CASE EndRead(d) \/ ErrorUnlock(d) \/ BeginGivesUp(d)
  BY <1>1, UnlockLeaves DEF EndRead, ErrorUnlock, BeginGivesUp
<1>2. CASE ReadPage(d, q)
  <2>1. pager[d].eState # "OPEN"
    BY <1>2 DEF ReadPage, Writing
  <2> QED
    BY <1>2, <2>1 DEF ReadPage
<1>3. CASE Begin(d, exFlag)
  <2>1. pager[d].eState = "READER"
    BY <1>3 DEF Begin
  <2> QED
    BY <1>3, <2>1 DEF Begin, SetLock
<1>4. CASE BeginExclusive(d)
  <2>1. pager[d].eState = "READER"
    BY <1>4, IsReady DEF BeginExclusive, Ready, Checking, Undoing, Writing, WritingFile
  <2> QED
    BY <1>4, <2>1 DEF BeginExclusive, TryExclusive, SetLock
<1> QED
  BY <1>1, <1>2, <1>3, <1>4

LEMMA WriterSteps ==
    ASSUME IInv, NEW d \in Conns, NEW q \in Pages,
           \/ NewDatabase(d) \/ LockForWriting(d) \/ MarkRecords(d) \/ SyncJournal(d)
           \/ WriteDirtyPage(d, q) \/ SyncDatabase(d) \/ LockGivesUp(d)
           \/ WritePage(d, q) \/ Spill(d, q) \/ CommitPhaseOne(d)
    PROVE  StepOf(d) /\ pager[d].eState \in Writing
<1>1. pager[d].eState \in Writing /\ pager[d].eState # "OPEN"
  BY IsReady
  DEF NewDatabase, LockForWriting, MarkRecords, SyncJournal, WriteDirtyPage, SyncDatabase, LockGivesUp,
      WritePage, Spill, CommitPhaseOne, InTransaction, At, Ready, Checking, Undoing, Writing, WritingFile
<1> USE <1>1, Shape DEF StepOf, At, Fields
<1>2. CASE NewDatabase(d) \/ WritePage(d, q)
  BY <1>2, PutState DEF NewDatabase, WritePage, Idle
<1>3. CASE CommitPhaseOne(d)
  <2> DEFINE todo == pager[d].dirty \cup IF pager[d].changeCountDone THEN {} ELSE {1}
             next == [pager[d] EXCEPT !.pc = "lock", !.committing = TRUE, !.changeCountDone = TRUE,
                                      !.todo = todo]
             v == pager[d].dbFileVers + 1
  <2>1. lock' = lock /\ (pager' = [pager EXCEPT ![d] = next] \/ PutPage(d, 1, v, next))
    BY <1>3 DEF CommitPhaseOne
  <2> HIDE DEF todo
  <2>2. DOMAIN next = Fields /\ next.eState \in Writing /\ next.eState # "OPEN"
    OBVIOUS
  <2> HIDE DEF next, v
  <2>3. CASE PutPage(d, 1, v, next)
    BY <2>1, <2>2, <2>3, PutState
  <2> QED
    BY <2>1, <2>2, <2>3
<1>4. CASE LockForWriting(d) \/ LockGivesUp(d)
  BY <1>4 DEF LockForWriting, TryExclusive, SetLock, LockGivesUp, Goto
<1>5. CASE MarkRecords(d) \/ SyncJournal(d) \/ SyncDatabase(d) \/ Spill(d, q)
  BY <1>5 DEF MarkRecords, SyncJournal, SyncDatabase, Spill, Goto
<1>6. CASE WriteDirtyPage(d, q)
  BY <1>6 DEF WriteDirtyPage
<1> QED
  BY <1>2, <1>3, <1>4, <1>5, <1>6

LEMMA EndSteps ==
    ASSUME IInv, NEW d \in Conns, NEW q \in Pages,
           \/ CommitPhaseTwo(d) \/ Rollback(d) \/ TruncateFile(d) \/ PlaybackOnePage(d, q)
           \/ SyncPlayback(d) \/ EndPlayback(d) \/ IOError(d)
    PROVE  StepOf(d)
<1> USE Shape DEF StepOf, At, Fields
<1>1. CASE CommitPhaseTwo(d)
  BY <1>1 DEF CommitPhaseTwo, Ended, SetLock, NewPager
<1>2. CASE Rollback(d)
  BY <1>2 DEF Rollback, Ended, SetLock, NewPager
<1>3. CASE TruncateFile(d) \/ SyncPlayback(d)
  BY <1>3 DEF TruncateFile, SyncPlayback, Goto
<1>4. CASE PlaybackOnePage(d, q)
  BY <1>4 DEF PlaybackOnePage
<1>5. CASE EndPlayback(d)
  BY <1>5 DEF EndPlayback, Ended, SetLock, NewPager
<1>6. CASE IOError(d)
  BY <1>6, UnlockLeaves DEF IOError, Goto, Failed, SetLock, InTransaction
<1> QED
  BY <1>1, <1>2, <1>3, <1>4, <1>5, <1>6

LEMMA EveryStep ==
    ASSUME IInv, NEW d \in Conns, Step(d) \/ Request(d) \/ IOError(d)
    PROVE  StepOf(d)
<1> USE FirstPage
<1>1. CASE Step(d)
  <2>1. CASE \E p \in Pages : WriteDirtyPage(d, p) \/ PlaybackOnePage(d, p)
    BY <2>1, WriterSteps, EndSteps
  <2> QED
    BY <1>1, <2>1, HotSteps, ReaderSteps, WriterSteps, EndSteps DEF Step
<1>2. CASE Request(d)
  <2>1. CASE \E p \in Pages : ReadPage(d, p) \/ WritePage(d, p) \/ Spill(d, p)
    BY <2>1, ReaderSteps, WriterSteps
  <2>2. CASE \E exFlag \in BOOLEAN : Begin(d, exFlag)
    BY <2>2, ReaderSteps
  <2> QED
    BY <1>2, <2>1, <2>2, HotSteps, ReaderSteps, WriterSteps, EndSteps DEF Request
<1>3. CASE IOError(d)
  BY <1>3, EndSteps
<1> QED
  BY <1>1, <1>2, <1>3

LEMMA NextUnlocked == IInv /\ IdleUnlocked /\ [Next]_vars => IdleUnlocked'
<1> SUFFICES ASSUME IInv, IdleUnlocked, [Next]_vars,
                    NEW c \in Conns, pager'[c].eState = "OPEN", pager'[c].pc = "idle"
             PROVE  lock'[c] = 0
  BY LockNumbers DEF IdleUnlocked, At
<1>1. CASE UNCHANGED <<pager[c], lock[c]>>
  BY <1>1, LockNumbers DEF IdleUnlocked, At
<1>2. ASSUME NEW d \in Conns, Step(d) \/ Request(d) \/ IOError(d) PROVE lock'[c] = 0
  BY <1>1, <1>2, EveryStep DEF StepOf
<1>3. CASE PowerFailure \/ \E P \in Processes : ProcessCrash(P)
  BY <1>1, <1>3, LockNumbers DEF PowerFailure, ProcessCrash
<1>4. CASE UNCHANGED vars
  BY <1>1, <1>4 DEF vars
<1> QED
  BY <1>2, <1>3, <1>4 DEF Next

(* What pager o may be in while another has the PENDING lock: it has at     *)
(* most begun to read.                                                      *)
LEMMA GivingWay ==
    ASSUME IInv, NEW c \in Conns, NEW o \in Others(c), lock[c] >= PENDING_LOCK
    PROVE  /\ o \in Conns /\ lock[o] \in 0 .. 1 /\ lock[c] \in 3 .. 4 /\ c \in Others(o)
           /\ \/ pager[o].eState = "OPEN" /\ pager[o].pc \in {"idle"} \cup Checking
              \/ pager[o].eState \in {"READER", "ERROR"} /\ pager[o].pc = "idle"
<1>1. lock[c] \in 3 .. 4 /\ lock[o] \in 0 .. 4 /\ o \in Conns /\ o # c /\ c \in Others(o)
  BY Shape, LockNumbers DEF Others
<1>2. ~(lock[o] >= 2)
  BY <1>1, LockNumbers DEF IInv, LockedAsNeeded
<1>3. Ready(pager[o], lock[o])
  BY <1>1, IsReady
<1> QED
  BY <1>1, <1>2, <1>3 DEF Ready

LEMMA StepGivesWay ==
    ASSUME IInv, NEW c \in Conns, NEW o \in Others(c), lock[c] >= PENDING_LOCK,
           Step(o) \/ EndRead(o)
    PROVE  lock'[o] <= lock[o] /\ StepsToUnlock(pager'[o]) < StepsToUnlock(pager[o])
<1> USE GivingWay, Shape, LockNumbers DEF StepsToUnlock, At, Fields
<1>1. CASE JournalExists(o) \/ JournalInUse(o) \/ DiscardJournal(o) \/ JournalFirstByte(o)
  <2>1. pager[o].eState = "OPEN"
    BY <1>1 DEF JournalExists, JournalInUse, DiscardJournal, JournalFirstByte
  <2> QED
    BY <1>1, <2>1 DEF JournalExists, JournalInUse, DiscardJournal, JournalFirstByte, Goto
<1>2. CASE LockHotJournal(o)
  <2>1. ~Grants(o, EXCLUSIVE_LOCK) /\ pager[o].eState = "OPEN"
    BY <1>2 DEF Grants, LockHotJournal
  <2>2. pager_unlock(o, FALSE) /\ pager[o].pc = "hot"
    BY <1>2, <2>1 DEF LockHotJournal
  <2>3. lock'[o] = 0 /\ pager'[o].eState = "OPEN" /\ pager'[o].pc = "idle"
    BY <2>2, UnlockLeaves
  <2> QED
    BY <2>1, <2>2, <2>3
<1>3. CASE Validate(o)
  <2>1. pager[o].eState = "OPEN" /\ pager[o].pc = "validate"
    BY <1>3 DEF Validate
  <2> QED
    BY <1>3, <2>1, ValidatedState
<1>4. CASE EndRead(o) \/ ErrorUnlock(o)
  <2>1. pager[o].eState \in {"READER", "ERROR"} /\ \E error \in BOOLEAN : pager_unlock(o, error)
    BY <1>4 DEF EndRead, ErrorUnlock
  <2>2. lock'[o] = 0 /\ pager'[o].eState = "OPEN" /\ pager'[o].pc = "idle"
    BY <2>1, UnlockLeaves
  <2> QED
    BY <2>1, <2>2
<1>5. ~SyncHotJournal(o) /\ ~BeginExclusive(o) /\ ~NewDatabase(o) /\ ~LockForWriting(o)
      /\ ~MarkRecords(o) /\ ~SyncJournal(o) /\ ~SyncDatabase(o) /\ ~TruncateFile(o)
      /\ ~SyncPlayback(o) /\ ~EndPlayback(o)
      /\ \A p \in Pages : ~WriteDirtyPage(o, p) /\ ~PlaybackOnePage(o, p)
  BY DEF SyncHotJournal, BeginExclusive, NewDatabase, LockForWriting, MarkRecords, SyncJournal,
         SyncDatabase, TruncateFile, SyncPlayback, EndPlayback, WriteDirtyPage, PlaybackOnePage, Checking
<1> QED
  BY <1>1, <1>2, <1>3, <1>4, <1>5 DEF Step

LEMMA RequestGivesWay ==
    ASSUME IInv, NEW c \in Conns, NEW o \in Others(c), lock[c] >= PENDING_LOCK,
           Request(o) \/ IOError(o)
    PROVE  lock'[o] <= lock[o] /\ StepsToUnlock(pager'[o]) <= StepsToUnlock(pager[o])
<1> USE GivingWay, Shape, LockNumbers
<1>1. ~SharedLock(o) /\ \A exFlag \in BOOLEAN : ~Begin(o, exFlag)
  BY DEF SharedLock, Begin, Grants
<1>2. ASSUME NEW p \in Pages, ReadPage(o, p)
      PROVE  lock'[o] <= lock[o] /\ StepsToUnlock(pager'[o]) <= StepsToUnlock(pager[o])
  <2>1. pager[o].eState = "READER" /\ lock' = lock
    BY <1>2 DEF ReadPage, Writing
  <2>2. pager'[o].eState = "READER"
    BY <1>2, <2>1 DEF ReadPage, Fields
  <2> QED
    BY <2>1, <2>2 DEF StepsToUnlock
<1>3. CASE EndRead(o)
  BY <1>3, StepGivesWay, MeasureType
<1>4. /\ ~CommitPhaseOne(o) /\ ~CommitPhaseTwo(o) /\ ~Rollback(o) /\ ~BeginGivesUp(o) /\ ~LockGivesUp(o)
      /\ ~IOError(o) /\ \A p \in Pages : ~WritePage(o, p) /\ ~Spill(o, p)
  BY DEF CommitPhaseOne, CommitPhaseTwo, Rollback, BeginGivesUp, LockGivesUp, IOError, WritePage, Spill,
         InTransaction, At, Writing, Checking
<1> QED
  BY <1>1, <1>2, <1>3, <1>4 DEF Request

LEMMA WayStep ==
    ASSUME IInv, [Next]_vars, NEW c \in Conns, lock[c] >= PENDING_LOCK, NEW o \in Others(c)
    PROVE  /\ lock'[o] <= lock[o]
           /\ StepsToUnlock(pager'[o]) <= StepsToUnlock(pager[o])
           /\ Step(o) \/ EndRead(o) => StepsToUnlock(pager'[o]) < StepsToUnlock(pager[o])
<1>1. Step(o) \/ EndRead(o) => StepsToUnlock(pager'[o]) < StepsToUnlock(pager[o])
  BY StepGivesWay
<1>2. lock[o] \in 0 .. 1 /\ StepsToUnlock(pager[o]) \in 0 .. 6 /\ o \in Conns
  BY GivingWay, MeasureType
<1>3. CASE UNCHANGED <<pager[o], lock[o]>>
  BY <1>1, <1>2, <1>3
<1>4. ASSUME NEW d \in Conns, Step(d) \/ Request(d) \/ IOError(d)
      PROVE  lock'[o] <= lock[o] /\ StepsToUnlock(pager'[o]) <= StepsToUnlock(pager[o])
  <2>1. CASE d = o
    <3>1. CASE Step(o)
      BY <3>1, StepGivesWay, MeasureType
    <3> QED
      BY <1>4, <2>1, <3>1, RequestGivesWay
  <2>2. CASE d # o
    <3>1. lock'[o] = lock[o] /\ pager'[o] = pager[o]
      BY <1>2, <1>4, <2>2, EveryStep DEF StepOf
    <3> QED
      BY <1>2, <3>1
  <2> QED
    BY <2>1, <2>2
<1>5. CASE PowerFailure \/ \E P \in Processes : ProcessCrash(P)
  <2>1. \/ UNCHANGED <<pager[o], lock[o]>>
        \/ pager'[o] = NewPager /\ lock'[o] = 0
    BY <1>2, <1>5, LockNumbers DEF PowerFailure, ProcessCrash
  <2>2. StepsToUnlock(NewPager) = 0
    BY DEF StepsToUnlock, NewPager
  <2> QED
    BY <1>1, <1>2, <1>3, <2>1, <2>2
<1>6. CASE UNCHANGED vars
  BY <1>3, <1>6 DEF vars
<1> QED
  BY <1>1, <1>4, <1>5, <1>6 DEF Next

LEMMA WayIsFree == IInv /\ IdleUnlocked => NothingElseInTheWay
<1> SUFFICES ASSUME IInv, IdleUnlocked, NEW c \in Conns, lock[c] >= PENDING_LOCK
             PROVE  /\ \A o \in Others(c) : lock[o] <= SHARED_LOCK
                    /\ (\A o \in Others(c) : StepsToUnlock(pager[o]) = 0) => Grants(c, EXCLUSIVE_LOCK)
  BY DEF NothingElseInTheWay
<1>1. \A o \in Others(c) : lock[o] <= SHARED_LOCK
  BY GivingWay, LockNumbers
<1>2. ASSUME NEW o \in Others(c), StepsToUnlock(pager[o]) = 0 PROVE lock[o] = NO_LOCK
  <2>1. pager[o].eState = "OPEN" /\ pager[o].pc = "idle"
    BY <1>2, GivingWay DEF StepsToUnlock, Checking
  <2> QED
    BY <2>1, GivingWay DEF IdleUnlocked, At
<1> QED
  BY <1>1, <1>2, LockNumbers DEF Grants

(* While a connection waits for the EXCLUSIVE lock with the PENDING one,    *)
(* every other connection is at most reading, its lock only falls, nothing  *)
(* it is asked for adds to the few steps it has left until it holds none,   *)
(* each of those steps brings it nearer, and when all have taken them the   *)
(* lock is granted: for any connections, failures and crashes (unixLock(),  *)
(* pager_wait_on_lock()).                                                   *)
THEOREM WriterGetsThere == Spec => OthersGiveWay /\ []NothingElseInTheWay
<1>1. Init => IInv /\ IdleUnlocked
  <2>1. Init => IdleUnlocked
    BY LockNumbers DEF Init, IdleUnlocked
  <2> QED
    BY <2>1, InitIInv
<1>2. IInv /\ IdleUnlocked /\ [Next]_vars => (IInv /\ IdleUnlocked)'
  BY NextIInv, NextUnlocked
<1>3. IInv /\ [Next]_vars =>
          [\A c \in Conns : lock[c] >= PENDING_LOCK =>
             \A o \in Others(c) :
                 /\ lock'[o] <= lock[o]
                 /\ StepsToUnlock(pager'[o]) <= StepsToUnlock(pager[o])
                 /\ Step(o) \/ EndRead(o) => StepsToUnlock(pager'[o]) < StepsToUnlock(pager[o])]_vars
  BY WayStep
<1> QED
  BY <1>1, <1>2, <1>3, WayIsFree, PTL DEF Spec, OthersGiveWay

=============================================================================

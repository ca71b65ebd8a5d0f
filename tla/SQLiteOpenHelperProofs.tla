------------------------ MODULE SQLiteOpenHelperProofs ------------------------
(* Proofs about SQLiteOpenHelper, for any helpers, clients, processes and   *)
(* versions, and any number of crashes.                                     *)
EXTENDS SQLiteOpenHelper, TLAPS, FiniteSetTheorems, SequenceTheorems

-----------------------------------------------------------------------------
(* The numbers that Disk gives to the files it keeps.                       *)

AgeIn(live, f) == Cardinality({g \in live : g <= f})

LEMMA Ages ==
    ASSUME NEW n \in Nat, NEW live \in SUBSET (1 .. n)
    PROVE  /\ Cardinality(live) \in Nat
           /\ \A f \in live : AgeIn(live, f) \in 1 .. Cardinality(live)
           /\ \A f, g \in live : AgeIn(live, f) = AgeIn(live, g) => f = g
           /\ \A k \in 1 .. Cardinality(live) : \E f \in live : AgeIn(live, f) = k
<1> DEFINE UpTo(f) == {g \in live : g <= f}
<1>1. IsFiniteSet(live) /\ Cardinality(live) \in Nat /\ live \subseteq Nat
  <2>1. IsFiniteSet(1 .. n)
    BY FS_Interval
  <2>2. IsFiniteSet(live)
    BY <2>1, FS_Subset
  <2> QED
    BY <2>2, FS_CardinalityType
<1>2. \A f \in live : /\ IsFiniteSet(UpTo(f))
                      /\ Cardinality(UpTo(f)) \in Nat /\ Cardinality(UpTo(f)) <= Cardinality(live)
  <2> TAKE f \in live
  <2>1. UpTo(f) \in SUBSET live
    OBVIOUS
  <2> HIDE DEF UpTo
  <2> QED
    BY <1>1, <2>1, FS_Subset, FS_CardinalityType
<1>3. \A f \in live : AgeIn(live, f) \in 1 .. Cardinality(live)
  <2> TAKE f \in live
  <2>1. Cardinality(UpTo(f)) # 0
    <3>1. f \in UpTo(f)
      OBVIOUS
    <3> QED
      BY <1>2, <3>1, FS_EmptySet
  <2> QED
    BY <1>1, <1>2, <2>1 DEF AgeIn
<1>4. \A f, g \in live : AgeIn(live, f) = AgeIn(live, g) => f = g
  <2> SUFFICES ASSUME NEW f \in live, NEW g \in live, f < g PROVE AgeIn(live, f) # AgeIn(live, g)
    BY <1>3
  <2>1. UpTo(f) \subseteq UpTo(g) /\ g \in UpTo(g) /\ g \notin UpTo(f)
    <3>1. f \in Nat /\ g \in Nat /\ f < g
      BY <1>1
    <3>2. \A x \in live : x <= f => x <= g
      BY <1>1, <3>1
    <3>3. g <= g /\ ~(g <= f)
      BY <3>1
    <3> QED
      BY <3>2, <3>3
  <2>2. Cardinality(UpTo(f)) # Cardinality(UpTo(g))
    BY <1>2, <2>1, FS_Subset
  <2> QED
    BY <2>2 DEF AgeIn
<1>5. \A k \in 1 .. Cardinality(live) : \E f \in live : AgeIn(live, f) = k
  <2> DEFINE age == [f \in live |-> AgeIn(live, f)]
  <2>1. age \in Injection(live, 1 .. Cardinality(live))
    BY <1>3, <1>4 DEF Injection, IsInjective
  <2>2. IsFiniteSet(1 .. Cardinality(live)) /\ Cardinality(1 .. Cardinality(live)) = Cardinality(live)
    BY <1>1, FS_Interval
  <2>3. age \in Surjection(live, 1 .. Cardinality(live))
    BY <2>1, <2>2, FS_Injection
  <2> QED
    BY <2>3 DEF Surjection
<1> QED
  BY <1>1, <1>3, <1>4, <1>5

-----------------------------------------------------------------------------
(* The invariant.                                                          *)

Names == (Helpers \cup Services) \X Nat

(* The databases that helper or service o may have. *)
Own(o) == {o} \X Nat

OpenDatabases(fs) ==
    [file : 1 .. Len(fs), readOnly : BOOLEAN, transaction : FileContent \cup {None}]

Matching(content) ==
    content.version = IF content.made = <<>> THEN 0 ELSE content.made[Len(content.made)].to

DiskInv(pt, fs, dbs) ==
    /\ fs \in Seq(FileContent) /\ \A f \in 1 .. Len(fs) : Matching(fs[f])
    /\ pt \in (1 .. Len(fs)) \cup {None}
    /\ DOMAIN dbs \subseteq Names
    /\ \A d \in DOMAIN dbs : dbs[d] \in OpenDatabases(fs)

Migrating == {"callback", "setVersion", "endTransaction"}

(* From where on a database that is open is as it was asked for. *)
HasDatabase == {"version", "beforeDelete", "begin", "onOpen"} \cup Migrating

PCs == {"idle", "reopen", "open", "openReadOnly", "delete"} \cup HasDatabase

HelperStates ==
    [pc : PCs, writable : BOOLEAN, mDatabase : Names \cup {None}, db : Names \cup {None},
     version : Nat, mIsInitializing : BOOLEAN]

(* What a transaction has done when a helper is at pc. *)
Migrated(pc, t) ==
    /\ t \in FileContent
    /\ pc # "callback" => t.made # <<>> /\ t.made[Len(t.made)].to = NewVersion
    /\ pc = "endTransaction" => t.version = NewVersion

(* Helper h in state r, which has every open database of its own. *)
HelperInv(h, r, fs, dbs) ==
    /\ r \in HelperStates
    /\ r.mDatabase \in Own(h) \cup {None} /\ r.db \in Own(h) \cup {None}
    /\ \A d \in DOMAIN dbs : d \in Own(h) => d \in {r.mDatabase, r.db}
    /\ r.pc = "idle" => r.db = None
    /\ r.pc # "idle" => r.mDatabase \in {None, r.db}
    /\ r.pc \in {"open", "openReadOnly"} => r.db = None
    /\ r.pc = "openReadOnly" => ~r.writable
    /\ r.pc = "delete" => r.db \notin DOMAIN dbs
    /\ r.pc \in Migrating => r.db \in DOMAIN dbs /\ Migrated(r.pc, dbs[r.db].transaction)
    /\ r.pc \in HasDatabase /\ r.db \in DOMAIN dbs /\ r.writable => ~dbs[r.db].readOnly
    /\ r.pc = "onOpen" /\ r.db \in DOMAIN dbs => fs[dbs[r.db].file].version = NewVersion

(* Service s with database m. *)
ServiceInv(s, m, dbs) ==
    /\ m \in Own(s) \cup {None}
    /\ \A d \in DOMAIN dbs : d \in Own(s) => d = m

IInv ==
    /\ DiskInv(path, files, databases)
    /\ helper \in [Helpers -> HelperStates]
    /\ \A h \in Helpers : HelperInv(h, helper[h], files, databases)
    /\ managed \in [Services -> Names \cup {None}]
    /\ \A s \in Services : ServiceInv(s, managed[s], databases)

LEMMA NoneIsNoName == None \notin Names
  BY NoneAssumption DEF Names

LEMMA Owning ==
    /\ \A o \in Helpers \cup Services : Own(o) \subseteq Names
    /\ \A d \in Names : \E o \in Helpers \cup Services : d \in Own(o)
    /\ \A o, p \in Helpers \cup Services : o # p => Own(o) \cap Own(p) = {}
  BY DEF Names, Own

LEMMA InitIInv == Init => IInv
<1> SUFFICES ASSUME Init PROVE IInv
  OBVIOUS
<1>1. DiskInv(path, files, databases)
  <2>1. EmptyFile \in FileContent /\ Matching(EmptyFile)
    BY DEF EmptyFile, FileContent, Matching
  <2>2. ASSUME NEW v \in InitialVersions
        PROVE  OldFile(v) \in FileContent /\ Matching(OldFile(v))
    <3>1. v \in Nat
      BY HelperAssumption
    <3> DEFINE r == [from |-> 0, to |-> v]
    <3>2. r \in Versions /\ r.to = v
      BY <3>1 DEF Versions
    <3> HIDE DEF r
    <3>3. <<r>> \in Seq(Versions) /\ <<r>> # <<>> /\ Len(<<r>>) = 1 /\ <<r>>[1] = r
      BY <3>2
    <3>4. OldFile(v) = [version |-> v, made |-> <<r>>]
      BY DEF OldFile, r
    <3> QED
      BY <3>1, <3>2, <3>3, <3>4 DEF FileContent, Matching
  <2>3. databases = <<>> /\ DOMAIN databases = {}
    BY DEF Init
  <2>4. CASE path = None /\ files = <<>>
    BY <2>3, <2>4 DEF DiskInv
  <2>5. ASSUME NEW v \in InitialVersions, path = 1,
               files = <<IF v = 0 THEN EmptyFile ELSE OldFile(v)>>
        PROVE  DiskInv(path, files, databases)
    <3> DEFINE f == IF v = 0 THEN EmptyFile ELSE OldFile(v)
    <3>1. f \in FileContent /\ Matching(f)
      BY <2>1, <2>2
    <3>2. files = <<f>>
      BY <2>5
    <3> HIDE DEF f
    <3> QED
      BY <2>3, <2>5, <3>1, <3>2 DEF DiskInv
  <2> QED
    BY <2>4, <2>5 DEF Init
<1>2. DOMAIN databases = {}
  BY DEF Init
<1>3. NewHelper \in HelperStates
  BY DEF NewHelper, HelperStates, PCs
<1>4. \A h \in Helpers : HelperInv(h, NewHelper, files, databases)
  BY <1>2, <1>3 DEF HelperInv, NewHelper, Migrating
<1>5. helper = [h \in Helpers |-> NewHelper] /\ managed = [s \in Services |-> None]
  BY DEF Init
<1> QED
  BY <1>1, <1>2, <1>3, <1>4, <1>5 DEF IInv, ServiceInv

-----------------------------------------------------------------------------
(* The files and databases after a step.                                   *)

LiveFiles(np, content, open) ==
    {f \in DOMAIN content : f = np \/ \E d \in DOMAIN open : open[d].file = f}

LEMMA DiskLemma ==
    ASSUME NEW np, NEW content, NEW open, DiskInv(np, content, open), Disk(np, content, open)
    PROVE  /\ DiskInv(path', files', databases')
           /\ DOMAIN databases' = DOMAIN open
           /\ \A d \in DOMAIN open :
                  /\ files'[databases'[d].file] = content[open[d].file]
                  /\ databases'[d].readOnly = open[d].readOnly
                  /\ databases'[d].transaction = open[d].transaction
           /\ path' = None <=> np = None
           /\ np # None => files'[path'] = content[np]
<1> DEFINE live == LiveFiles(np, content, open)
           n == Cardinality(live)
<1>1. content \in Seq(FileContent) /\ Len(content) \in Nat /\ DOMAIN content = 1 .. Len(content)
  BY DEF DiskInv
<1>2. live \in SUBSET (1 .. Len(content))
  BY <1>1 DEF LiveFiles
<1>3. /\ path' = IF np = None THEN None ELSE AgeIn(live, np)
      /\ files' = [k \in 1 .. n |-> content[CHOOSE f \in live : AgeIn(live, f) = k]]
      /\ databases' = [d \in DOMAIN open |-> [open[d] EXCEPT !.file = AgeIn(live, open[d].file)]]
  BY DEF Disk, AgeIn, LiveFiles
<1>4. \A d \in DOMAIN open : open[d].file \in live /\ open[d] \in OpenDatabases(content)
  BY <1>1 DEF DiskInv, LiveFiles, OpenDatabases
<1>5. np # None => np \in live
  BY <1>1 DEF DiskInv, LiveFiles
<1> HIDE DEF live
<1>6. /\ n \in Nat
      /\ \A f \in live : AgeIn(live, f) \in 1 .. n
      /\ \A f, g \in live : AgeIn(live, f) = AgeIn(live, g) => f = g
      /\ \A k \in 1 .. n : \E f \in live : AgeIn(live, f) = k
  BY <1>1, <1>2, Ages
<1> HIDE DEF n
<1>7. \A f \in live : files'[AgeIn(live, f)] = content[f]
  <2> TAKE f \in live
  <2>1. (CHOOSE g \in live : AgeIn(live, g) = AgeIn(live, f)) = f
    BY <1>6
  <2> QED
    BY <1>3, <1>6, <2>1
<1>8. \A k \in 1 .. n : \E f \in live : files'[k] = content[f]
  BY <1>6, <1>7
<1>9. files' \in Seq(FileContent) /\ Len(files') = n
  <2>1. \A k \in 1 .. n : files'[k] \in FileContent
    BY <1>1, <1>2, <1>8
  <2>2. files' \in [1 .. n -> FileContent]
    BY <1>3, <2>1
  <2> QED
    BY <1>6, <2>2, SeqDef
<1>10. \A k \in 1 .. Len(files') : Matching(files'[k])
  BY <1>2, <1>8, <1>9 DEF DiskInv
<1>11. path' \in (1 .. Len(files')) \cup {None}
  BY <1>3, <1>5, <1>6, <1>9
<1>12. DOMAIN databases' = DOMAIN open /\ DOMAIN open \subseteq Names
  BY <1>3 DEF DiskInv
<1>13. ASSUME NEW d \in DOMAIN open
       PROVE  /\ databases'[d] \in OpenDatabases(files')
              /\ databases'[d].file = AgeIn(live, open[d].file)
              /\ databases'[d].readOnly = open[d].readOnly
              /\ databases'[d].transaction = open[d].transaction
  <2>1. databases'[d] = [open[d] EXCEPT !.file = AgeIn(live, open[d].file)]
    BY <1>3, <1>13
  <2>2. AgeIn(live, open[d].file) \in 1 .. Len(files')
    BY <1>4, <1>6, <1>9
  <2> QED
    BY <1>4, <2>1, <2>2 DEF OpenDatabases
<1>14. DiskInv(path', files', databases')
  BY <1>9, <1>10, <1>11, <1>12, <1>13 DEF DiskInv
<1>15. /\ path' = None <=> np = None
       /\ np # None => files'[path'] = content[np]
  BY <1>3, <1>5, <1>6, <1>7, NoneAssumption
<1> QED
  BY <1>4, <1>7, <1>12, <1>13, <1>14, <1>15

(* For the one who has it, d is the same with fs2 and dbs2; if the file has *)
(* the new version, it still has.                                           *)
Same(d, fs, dbs, fs2, dbs2) ==
    /\ d \in DOMAIN dbs <=> d \in DOMAIN dbs2
    /\ d \in DOMAIN dbs =>
           /\ dbs2[d].readOnly = dbs[d].readOnly /\ dbs2[d].transaction = dbs[d].transaction
           /\ fs[dbs[d].file].version = NewVersion => fs2[dbs2[d].file].version = NewVersion

LEMMA HelperSame ==
    ASSUME NEW h \in Helpers, NEW r, NEW fs, NEW dbs, NEW fs2, NEW dbs2,
           HelperInv(h, r, fs, dbs), DOMAIN dbs \subseteq Names, DOMAIN dbs2 \subseteq Names,
           \A d \in Own(h) : Same(d, fs, dbs, fs2, dbs2)
    PROVE  HelperInv(h, r, fs2, dbs2)
<1>1. None \notin DOMAIN dbs /\ None \notin DOMAIN dbs2
  BY NoneIsNoName
<1>2. /\ r.db \in Own(h) \cup {None}
      /\ r.db \in DOMAIN dbs2 => r.db \in DOMAIN dbs /\ Same(r.db, fs, dbs, fs2, dbs2)
      /\ r.db \in DOMAIN dbs => r.db \in DOMAIN dbs2 /\ Same(r.db, fs, dbs, fs2, dbs2)
  BY <1>1 DEF HelperInv, Same
<1>3. \A d \in DOMAIN dbs2 : d \in Own(h) => d \in {r.mDatabase, r.db}
  BY DEF HelperInv, Same
<1>4. r.pc \in Migrating => r.db \in DOMAIN dbs2 /\ Migrated(r.pc, dbs2[r.db].transaction)
  BY <1>2 DEF HelperInv, Same
<1>5. r.pc \in HasDatabase /\ r.db \in DOMAIN dbs2 /\ r.writable => ~dbs2[r.db].readOnly
  BY <1>2 DEF HelperInv, Same
<1>6. r.pc = "onOpen" /\ r.db \in DOMAIN dbs2 => fs2[dbs2[r.db].file].version = NewVersion
  BY <1>2 DEF HelperInv, Same
<1> QED
  BY <1>2, <1>3, <1>4, <1>5, <1>6 DEF HelperInv

LEMMA ServiceSame ==
    ASSUME NEW s \in Services, NEW m, NEW fs, NEW dbs, NEW fs2, NEW dbs2,
           ServiceInv(s, m, dbs), \A d \in Own(s) : Same(d, fs, dbs, fs2, dbs2)
    PROVE  ServiceInv(s, m, dbs2)
  BY DEF ServiceInv, Same

(* A step of helper h. *)
LEMMA HelperStep ==
    ASSUME IInv, NEW h \in Helpers, NEW r,
           helper' = [helper EXCEPT ![h] = r], managed' = managed,
           DiskInv(path', files', databases'), HelperInv(h, r, files', databases'),
           \A d \in Names \ Own(h) : Same(d, files, databases, files', databases')
    PROVE  IInv'
<1>1. r \in HelperStates
  BY DEF HelperInv
<1>2. helper' \in [Helpers -> HelperStates] /\ helper'[h] = r
      /\ \A o \in Helpers \ {h} : helper'[o] = helper[o]
  BY <1>1 DEF IInv
<1>3. ASSUME NEW o \in Helpers \ {h} PROVE HelperInv(o, helper'[o], files', databases')
  <2>1. \A d \in Own(o) : d \in Names \ Own(h)
    BY Owning
  <2>2. HelperInv(o, helper[o], files, databases)
        /\ DOMAIN databases \subseteq Names /\ DOMAIN databases' \subseteq Names
    BY DEF IInv, DiskInv
  <2> QED
    BY <1>2, <2>1, <2>2, HelperSame
<1>4. ASSUME NEW s \in Services PROVE ServiceInv(s, managed'[s], databases')
  <2>1. \A d \in Own(s) : d \in Names \ Own(h)
    BY Owning, HelperAssumption
  <2>2. ServiceInv(s, managed[s], databases)
    BY DEF IInv
  <2> QED
    BY <2>1, <2>2, ServiceSame
<1>5. managed' \in [Services -> Names \cup {None}]
  BY DEF IInv
<1> QED
  BY <1>2, <1>3, <1>4, <1>5 DEF IInv

(* A step of service s. *)
LEMMA ServiceStep ==
    ASSUME IInv, NEW s \in Services, NEW m,
           helper' = helper, managed' = [managed EXCEPT ![s] = m],
           DiskInv(path', files', databases'), ServiceInv(s, m, databases'),
           \A d \in Names \ Own(s) : Same(d, files, databases, files', databases')
    PROVE  IInv'
<1>1. m \in Names \cup {None}
  BY Owning DEF ServiceInv
<1>2. managed' \in [Services -> Names \cup {None}] /\ managed'[s] = m
      /\ \A o \in Services \ {s} : managed'[o] = managed[o]
  BY <1>1 DEF IInv
<1>3. ASSUME NEW o \in Services \ {s} PROVE ServiceInv(o, managed'[o], databases')
  <2>1. \A d \in Own(o) : d \in Names \ Own(s)
    BY Owning
  <2>2. ServiceInv(o, managed[o], databases)
    BY DEF IInv
  <2> QED
    BY <1>2, <2>1, <2>2, ServiceSame
<1>4. ASSUME NEW h \in Helpers PROVE HelperInv(h, helper'[h], files', databases')
  <2>1. \A d \in Own(h) : d \in Names \ Own(s)
    BY Owning, HelperAssumption
  <2>2. HelperInv(h, helper[h], files, databases)
        /\ DOMAIN databases \subseteq Names /\ DOMAIN databases' \subseteq Names
    BY DEF IInv, DiskInv
  <2> QED
    BY <2>1, <2>2, HelperSame
<1>5. helper' \in [Helpers -> HelperStates]
  BY DEF IInv
<1> QED
  BY <1>2, <1>3, <1>4, <1>5 DEF IInv

LEMMA DiskSame ==
    ASSUME NEW np, NEW content, NEW open, DiskInv(np, content, open), Disk(np, content, open), NEW d
    PROVE  Same(d, content, open, files', databases')
  BY DiskLemma DEF Same

LEMMA SameTwice ==
    ASSUME NEW d, NEW fs, NEW dbs, NEW fs2, NEW dbs2, NEW fs3, NEW dbs3,
           Same(d, fs, dbs, fs2, dbs2), Same(d, fs2, dbs2, fs3, dbs3)
    PROVE  Same(d, fs, dbs, fs3, dbs3)
  BY DEF Same

LEMMA HelperDisk ==
    ASSUME IInv, NEW h \in Helpers, NEW r,
           helper' = [helper EXCEPT ![h] = r], managed' = managed,
           NEW np, NEW content, NEW open, Disk(np, content, open), DiskInv(np, content, open),
           HelperInv(h, r, content, open),
           \A d \in Names \ Own(h) : Same(d, files, databases, content, open)
    PROVE  IInv'
<1>1. DiskInv(path', files', databases')
  BY DiskLemma
<1>2. \A d : Same(d, content, open, files', databases')
  BY DiskSame
<1>3. HelperInv(h, r, files', databases')
  BY <1>1, <1>2, HelperSame DEF DiskInv
<1>4. \A d \in Names \ Own(h) : Same(d, files, databases, files', databases')
  BY <1>2, SameTwice
<1> QED
  BY <1>1, <1>3, <1>4, HelperStep

LEMMA ServiceDisk ==
    ASSUME IInv, NEW s \in Services, NEW m,
           helper' = helper, managed' = [managed EXCEPT ![s] = m],
           NEW np, NEW content, NEW open, Disk(np, content, open), DiskInv(np, content, open),
           ServiceInv(s, m, open),
           \A d \in Names \ Own(s) : Same(d, files, databases, content, open)
    PROVE  IInv'
<1>1. DiskInv(path', files', databases') /\ DOMAIN databases' = DOMAIN open
  BY DiskLemma
<1>2. \A d : Same(d, content, open, files', databases')
  BY DiskSame
<1>3. ServiceInv(s, m, databases')
  BY <1>1 DEF ServiceInv
<1>4. \A d \in Names \ Own(s) : Same(d, files, databases, files', databases')
  BY <1>2, SameTwice
<1> QED
  BY <1>1, <1>3, <1>4, ServiceStep

-----------------------------------------------------------------------------
(* What the steps do with the open databases.                              *)

LEMMA WithoutOK ==
    ASSUME IInv, NEW S
    PROVE  /\ DiskInv(path, files, Without(S)) /\ DOMAIN Without(S) = DOMAIN databases \ S
           /\ \A d \in DOMAIN databases \ S : Without(S)[d] = databases[d]
           /\ \A d : d \notin S => Same(d, files, databases, files, Without(S))
<1>1. DOMAIN Without(S) = DOMAIN databases \ S
      /\ \A d \in DOMAIN databases \ S : Without(S)[d] = databases[d]
  BY DEF Without
<1>2. DiskInv(path, files, Without(S))
  BY <1>1 DEF IInv, DiskInv
<1> QED
  BY <1>1, <1>2 DEF Same

LEMMA RolledBackOK ==
    ASSUME IInv, NEW db
    PROVE  /\ DiskInv(path, files, RolledBack(db)) /\ DOMAIN RolledBack(db) = DOMAIN databases
           /\ \A d : d # db => Same(d, files, databases, files, RolledBack(db))
<1>1. DOMAIN RolledBack(db) = DOMAIN databases
  BY DEF RolledBack
<1>2. ASSUME NEW d \in DOMAIN databases
      PROVE  /\ RolledBack(db)[d] \in OpenDatabases(files)
             /\ d # db => RolledBack(db)[d] = databases[d]
  <2>1. databases[d] \in OpenDatabases(files)
    BY DEF IInv, DiskInv
  <2>2. RolledBack(db)[d] =
            [databases[d] EXCEPT !.transaction = IF d = db THEN None ELSE databases[d].transaction]
    BY DEF RolledBack
  <2> QED
    BY <2>1, <2>2 DEF OpenDatabases
<1>3. DiskInv(path, files, RolledBack(db))
  BY <1>1, <1>2 DEF IInv, DiskInv
<1> QED
  BY <1>1, <1>2, <1>3 DEF Same

LEMMA OpenedOK ==
    ASSUME IInv, NEW db \in Names, NEW content \in Seq(FileContent), NEW np \in 1 .. Len(content),
           \A f \in 1 .. Len(content) : Matching(content[f]),
           Len(content) >= Len(files), \A f \in 1 .. Len(files) : content[f] = files[f],
           NEW readOnly \in BOOLEAN
    PROVE  LET open == With(databases, db, OpenDatabase(np, readOnly))
           IN  /\ DiskInv(np, content, open) /\ DOMAIN open = DOMAIN databases \cup {db}
               /\ open[db].readOnly = readOnly
               /\ \A d : d # db => Same(d, files, databases, content, open)
<1> DEFINE open == With(databases, db, OpenDatabase(np, readOnly))
<1>1. /\ DOMAIN open = DOMAIN databases \cup {db}
      /\ open[db] = OpenDatabase(np, readOnly)
      /\ \A d \in DOMAIN databases \ {db} : open[d] = databases[d]
  BY DEF With
<1>2. OpenDatabase(np, readOnly) \in OpenDatabases(content) /\ OpenDatabase(np, readOnly).readOnly = readOnly
  BY DEF OpenDatabase, OpenDatabases
<1>3. Len(files) \in Nat /\ Len(content) \in Nat /\ files \in Seq(FileContent)
  BY DEF IInv, DiskInv
<1>4. \A d \in DOMAIN databases : /\ databases[d] \in OpenDatabases(content)
                                  /\ databases[d].file \in 1 .. Len(files)
  BY <1>3 DEF IInv, DiskInv, OpenDatabases
<1> HIDE DEF open
<1>5. DiskInv(np, content, open)
  BY <1>1, <1>2, <1>4 DEF IInv, DiskInv
<1>6. \A d : d # db => Same(d, files, databases, content, open)
  BY <1>1, <1>4 DEF Same
<1> QED
  BY <1>1, <1>2, <1>5, <1>6 DEF open

LEMMA OpenedHere ==
    ASSUME IInv, NEW db \in Names, path # None, NEW readOnly \in BOOLEAN
    PROVE  LET open == With(databases, db, OpenDatabase(path, readOnly))
           IN  /\ DiskInv(path, files, open) /\ DOMAIN open = DOMAIN databases \cup {db}
               /\ open[db].readOnly = readOnly
               /\ \A d : d # db => Same(d, files, databases, files, open)
<1>1. /\ files \in Seq(FileContent) /\ path \in 1 .. Len(files)
      /\ \A f \in 1 .. Len(files) : Matching(files[f])
      /\ Len(files) >= Len(files) /\ \A f \in 1 .. Len(files) : files[f] = files[f]
  BY DEF IInv, DiskInv
<1> QED
  BY <1>1, OpenedOK

LEMMA Unused ==
    ASSUME NEW S, IsFiniteSet(S)
    PROVE  NotIn(S) \in Nat
<1> DEFINE n == Cardinality(S) + 1
<1>1. Cardinality(S) \in Nat /\ n \in Nat
  BY FS_CardinalityType
<1>2. \E k \in 1 .. n : k \notin S
  <2> SUFFICES ASSUME 1 .. n \subseteq S PROVE FALSE
    OBVIOUS
  <2>1. Cardinality(1 .. n) <= Cardinality(S)
    BY FS_Subset
  <2>2. Cardinality(1 .. n) = n
    BY <1>1, FS_Interval
  <2> QED
    BY <1>1, <2>1, <2>2
<1> QED
  BY <1>1, <1>2 DEF NotIn

LEMMA NewOne ==
    ASSUME IInv, NEW o \in Helpers \cup Services
    PROVE  NewDatabase(o) \in Own(o)
<1> DEFINE known == DOMAIN databases \cup (Referenced \ {None})
           mine == {e \in known : e[1] = o}
           used == {d[2] : d \in mine}
<1>1. IsFiniteSet({helper[h].mDatabase : h \in Helpers})
  <2> DEFINE T == {helper[h].mDatabase : h \in Helpers}
  <2>1. [h \in Helpers |-> helper[h].mDatabase] \in Surjection(Helpers, T)
    BY DEF Surjection
  <2> QED
    BY <2>1, FS_Surjection, HelperAssumption
<1>2. IsFiniteSet({helper[h].db : h \in Helpers})
  <2> DEFINE T == {helper[h].db : h \in Helpers}
  <2>1. [h \in Helpers |-> helper[h].db] \in Surjection(Helpers, T)
    BY DEF Surjection
  <2> QED
    BY <2>1, FS_Surjection, HelperAssumption
<1>3. IsFiniteSet({managed[s] : s \in Services})
  <2> DEFINE T == {managed[s] : s \in Services}
  <2>1. [s \in Services |-> managed[s]] \in Surjection(Services, T)
    BY DEF Surjection
  <2> QED
    BY <2>1, FS_Surjection, HelperAssumption
<1>4. IsFiniteSet(Referenced)
  <2>1. IsFiniteSet({helper[h].mDatabase : h \in Helpers} \cup {helper[h].db : h \in Helpers})
    BY <1>1, <1>2, FS_Union
  <2> QED
    BY <1>3, <2>1, FS_Union DEF Referenced
<1>5. known \subseteq Referenced
  <2> SUFFICES ASSUME NEW d \in DOMAIN databases PROVE d \in Referenced
    OBVIOUS
  <2>1. PICK p \in Helpers \cup Services : d \in Own(p)
    BY Owning DEF IInv, DiskInv
  <2> QED
    BY <2>1 DEF IInv, HelperInv, ServiceInv, Referenced
<1>6. IsFiniteSet(mine)
  <2>1. mine \in SUBSET Referenced
    BY <1>5
  <2> HIDE DEF mine
  <2> QED
    BY <1>4, <2>1, FS_Subset
<1>7. IsFiniteSet(used)
  <2>1. [d \in mine |-> d[2]] \in Surjection(mine, used)
    BY DEF Surjection
  <2> HIDE DEF mine, used
  <2> QED
    BY <1>6, <2>1, FS_Surjection
<1> QED
  BY <1>7, Unused DEF NewDatabase, Own

-----------------------------------------------------------------------------
(* The steps.                                                              *)

LEMMA Mine ==
    ASSUME IInv, NEW h \in Helpers
    PROVE  /\ HelperInv(h, helper[h], files, databases)
           /\ helper[h] \in HelperStates /\ helper[h].pc \in PCs
           /\ helper[h].mDatabase \in Own(h) \cup {None} /\ helper[h].db \in Own(h) \cup {None}
           /\ None \notin DOMAIN databases
  BY NoneIsNoName DEF IInv, HelperInv, HelperStates, DiskInv

LEMMA HelperOnly ==
    ASSUME IInv, NEW h \in Helpers, NEW r, helper' = [helper EXCEPT ![h] = r],
           UNCHANGED <<diskVars, managed>>, HelperInv(h, r, files, databases)
    PROVE  IInv'
<1>1. path' = path /\ files' = files /\ databases' = databases
  BY DEF diskVars
<1>2. DiskInv(path', files', databases')
  BY <1>1 DEF IInv
<1>3. \A d : Same(d, files, databases, files', databases')
  BY <1>1 DEF Same
<1> QED
  BY <1>1, <1>2, <1>3, HelperStep

LEMMA Remembering ==
    ASSUME IInv, NEW h \in Helpers
    PROVE  /\ Remembered(h) \in Own(h) \cup {None}
           /\ Remembered(h) \in {None, helper[h].mDatabase}
           /\ helper[h].mDatabase \in DOMAIN databases => Remembered(h) = helper[h].mDatabase
           /\ Remembered(h) # None => Remembered(h) \in DOMAIN databases
  BY Mine DEF Remembered, IsOpen

LEMMA EnteredOK ==
    ASSUME IInv, NEW h \in Helpers, NEW writable \in BOOLEAN, NEW fs, NEW dbs,
           DOMAIN dbs = DOMAIN databases, helper[h].db \notin DOMAIN databases
    PROVE  HelperInv(h, Entered(h, writable), fs, dbs)
<1> DEFINE m == Remembered(h)
           r == Entered(h, writable)
<1>1. /\ r.mDatabase = m /\ r.db = m /\ r.mIsInitializing = TRUE /\ r.writable = writable
      /\ r.pc = IF m # None THEN "reopen" ELSE "open"
      /\ r \in HelperStates
  BY Mine, Remembering, Owning DEF Entered, HelperStates, PCs
<1>2. \A d \in DOMAIN dbs : d \in Own(h) => d = m
  BY Mine, Remembering DEF HelperInv
<1>3. r.pc \in {"reopen", "open"} /\ (r.pc = "open" => r.db = None)
  BY <1>1
<1> HIDE DEF r, m
<1>4. r.mDatabase \in Own(h) \cup {None}
  BY <1>1, Remembering DEF m
<1> QED
  BY <1>1, <1>2, <1>3, <1>4 DEF HelperInv, HasDatabase, Migrating, r

LEMMA GetDatabaseInv ==
    ASSUME IInv, NEW h \in Helpers, NEW writable \in BOOLEAN, GetDatabase(h, writable) PROVE IInv'
<1>1. helper[h].db \notin DOMAIN databases
  BY Mine DEF GetDatabase, At, HelperInv
<1>2. HelperInv(h, Entered(h, writable), files, databases)
  BY <1>1, EnteredOK
<1> QED
  BY <1>2, HelperOnly DEF GetDatabase

LEMMA GetDatabaseRecursivelyInv ==
    ASSUME IInv, NEW h \in Helpers, NEW writable \in BOOLEAN, GetDatabaseRecursively(h, writable)
    PROVE  IInv'
<1> DEFINE r == [helper[h] EXCEPT !.mDatabase = Remembered(h)]
<1>1. /\ r.mDatabase = Remembered(h) /\ r.db = helper[h].db /\ r.pc = helper[h].pc
      /\ r.writable = helper[h].writable /\ r \in HelperStates
  BY Mine, Remembering, Owning DEF HelperStates
<1>2. r.pc # "idle"
  BY <1>1 DEF GetDatabaseRecursively
<1>3. helper' = [helper EXCEPT ![h] = r] /\ UNCHANGED <<diskVars, managed>>
  BY DEF GetDatabaseRecursively
<1> HIDE DEF r
<1>4. \A d \in DOMAIN databases : d \in Own(h) => d \in {r.mDatabase, r.db}
  BY <1>1, Mine, Remembering DEF HelperInv
<1>5. r.mDatabase \in {None, r.db}
  BY <1>1, <1>2, Mine, Remembering DEF HelperInv
<1>6. HelperInv(h, r, files, databases)
  BY <1>1, <1>2, <1>4, <1>5, Mine, Remembering DEF HelperInv
<1> QED
  BY <1>3, <1>6, HelperOnly

LEMMA ReopenReadWriteInv == ASSUME IInv, NEW h \in Helpers, ReopenReadWrite(h) PROVE IInv'
<1> DEFINE db == Db(h)
           open == [databases EXCEPT ![Db(h)].file = path, ![Db(h)].readOnly = FALSE]
           r == [helper[h] EXCEPT !.pc = "version"]
<1>1. /\ At(h, "reopen") /\ db \in DOMAIN databases /\ path \in 1 .. Len(files)
      /\ Disk(path, files, open) /\ db = helper[h].db
  BY DEF ReopenReadWrite, IsOpen, Db, IInv, DiskInv
<1>2. db \in Own(h)
  BY <1>1, Mine
<1>3. /\ DOMAIN open = DOMAIN databases
      /\ open[db] = [[databases[db] EXCEPT !.file = path] EXCEPT !.readOnly = FALSE]
      /\ \A d \in DOMAIN databases \ {db} : open[d] = databases[d]
  BY <1>1
<1>4. open[db] \in OpenDatabases(files) /\ open[db].readOnly = FALSE
  BY <1>1, <1>3 DEF IInv, DiskInv, OpenDatabases
<1> HIDE DEF open, db
<1>5. DiskInv(path, files, open)
  BY <1>3, <1>4 DEF IInv, DiskInv
<1>6. \A d \in Names \ Own(h) : Same(d, files, databases, files, open)
  BY <1>2, <1>3 DEF Same
<1>7. r.mDatabase = helper[h].mDatabase /\ r.db = helper[h].db /\ r.pc = "version" /\ r \in HelperStates
  BY Mine DEF HelperStates, PCs, HasDatabase
<1>8. helper' = [helper EXCEPT ![h] = r] /\ managed' = managed
  BY Mine DEF ReopenReadWrite, Goto, IInv
<1> HIDE DEF r
<1>9. HelperInv(h, r, files, open)
  BY <1>1, <1>3, <1>4, <1>7, Mine DEF HelperInv, At, Migrating
<1> QED
  BY <1>1, <1>5, <1>6, <1>8, <1>9, HelperDisk

(* The database that a call opens is a new one. *)
LEMMA OpeningOK ==
    ASSUME IInv, NEW h \in Helpers, helper[h].pc \in {"open", "openReadOnly"},
           NEW np, NEW content, NEW open, NEW readOnly \in BOOLEAN,
           Disk(np, content, open), DiskInv(np, content, open),
           DOMAIN open = DOMAIN databases \cup {NewDatabase(h)},
           open[NewDatabase(h)].readOnly = readOnly, readOnly => ~helper[h].writable,
           \A d : d # NewDatabase(h) => Same(d, files, databases, content, open),
           Opened(h, NewDatabase(h)), managed' = managed
    PROVE  IInv'
<1> DEFINE db == NewDatabase(h)
           r == [[helper[h] EXCEPT !.db = db] EXCEPT !.pc = "version"]
<1>1. db \in Own(h) /\ db \in Names
  BY NewOne, Owning
<1>2. helper[h].mDatabase = None /\ helper[h].db = None
  BY Mine DEF HelperInv
<1>3. /\ r.mDatabase = None /\ r.db = db /\ r.pc = "version" /\ r.writable = helper[h].writable
      /\ r \in HelperStates
  BY <1>1, <1>2, Mine DEF HelperStates, PCs, HasDatabase
<1>4. helper' = [helper EXCEPT ![h] = r]
  BY DEF Opened
<1> HIDE DEF r, db
<1>5. \A d \in DOMAIN open : d \in Own(h) => d = db
  BY <1>2, Mine DEF HelperInv, db
<1>6. HelperInv(h, r, content, open)
  BY <1>1, <1>3, <1>5 DEF HelperInv, Migrating, db
<1>7. \A d \in Names \ Own(h) : Same(d, files, databases, content, open)
  BY <1>1 DEF db
<1> QED
  BY <1>4, <1>6, <1>7, HelperDisk

LEMMA OpenOrCreateOK ==
    ASSUME IInv, NEW o \in Helpers \cup Services, OpenOrCreate(NewDatabase(o))
    PROVE  \E np, content, open :
               /\ Disk(np, content, open) /\ DiskInv(np, content, open)
               /\ DOMAIN open = DOMAIN databases \cup {NewDatabase(o)}
               /\ open[NewDatabase(o)].readOnly = FALSE
               /\ \A d : d # NewDatabase(o) => Same(d, files, databases, content, open)
<1> DEFINE db == NewDatabase(o)
           new == Len(files) + 1
<1>1. db \in Names
  BY NewOne, Owning
<1>2. files \in Seq(FileContent) /\ Len(files) \in Nat /\ \A f \in 1 .. Len(files) : Matching(files[f])
  BY DEF IInv, DiskInv
<1>3. CASE path = None
  <2> DEFINE content == Append(files, EmptyFile)
             open == With(databases, db, OpenDatabase(new, FALSE))
  <2>1. EmptyFile \in FileContent /\ Matching(EmptyFile)
    BY DEF EmptyFile, FileContent, Matching
  <2>2. /\ content \in Seq(FileContent) /\ Len(content) = new /\ new \in 1 .. Len(content)
        /\ content[new] = EmptyFile /\ \A f \in 1 .. Len(files) : content[f] = files[f]
        /\ Len(content) >= Len(files)
    BY <1>2, <2>1
  <2>3. \A f \in 1 .. Len(content) : Matching(content[f])
    BY <1>2, <2>1, <2>2
  <2>4. Disk(new, content, open)
    BY <1>3 DEF OpenOrCreate
  <2> HIDE DEF content, new, db
  <2>5. /\ DiskInv(new, content, open) /\ DOMAIN open = DOMAIN databases \cup {db}
        /\ open[db].readOnly = FALSE
        /\ \A d : d # db => Same(d, files, databases, content, open)
    BY <1>1, <2>2, <2>3, OpenedOK
  <2> QED
    BY <2>4, <2>5 DEF db
<1>4. CASE path # None
  <2> DEFINE open == With(databases, db, OpenDatabase(path, FALSE))
  <2>1. path \in 1 .. Len(files)
    BY <1>4 DEF IInv, DiskInv
  <2>2. Disk(path, files, open)
    BY <1>4 DEF OpenOrCreate
  <2> HIDE DEF db
  <2>3. /\ DiskInv(path, files, open) /\ DOMAIN open = DOMAIN databases \cup {db}
        /\ open[db].readOnly = FALSE
        /\ \A d : d # db => Same(d, files, databases, files, open)
    BY <1>1, <1>4, OpenedHere
  <2> QED
    BY <2>2, <2>3 DEF db
<1> QED
  BY <1>3, <1>4

LEMMA OpenOrCreateDatabaseInv ==
    ASSUME IInv, NEW h \in Helpers, OpenOrCreateDatabase(h) PROVE IInv'
<1>1. helper[h].pc = "open" /\ OpenOrCreate(NewDatabase(h)) /\ Opened(h, NewDatabase(h)) /\ managed' = managed
  BY DEF OpenOrCreateDatabase, At
<1>2. PICK np, content, open :
          /\ Disk(np, content, open) /\ DiskInv(np, content, open)
          /\ DOMAIN open = DOMAIN databases \cup {NewDatabase(h)}
          /\ open[NewDatabase(h)].readOnly = FALSE
          /\ \A d : d # NewDatabase(h) => Same(d, files, databases, content, open)
  BY <1>1, OpenOrCreateOK
<1> QED
  BY <1>1, <1>2, OpeningOK

LEMMA OpenReadOnlyInv == ASSUME IInv, NEW h \in Helpers, OpenReadOnly(h) PROVE IInv'
<1> DEFINE db == NewDatabase(h)
           open == With(databases, db, OpenDatabase(path, TRUE))
<1>1. /\ helper[h].pc = "openReadOnly" /\ path \in 1 .. Len(files) /\ Disk(path, files, open)
      /\ Opened(h, db) /\ managed' = managed
  BY DEF OpenReadOnly, At, IInv, DiskInv
<1>2. db \in Names
  BY NewOne, Owning
<1>4. /\ DiskInv(path, files, open) /\ DOMAIN open = DOMAIN databases \cup {db}
      /\ open[db].readOnly = TRUE
      /\ \A d : d # db => Same(d, files, databases, files, open)
  <2>1. path # None
    BY DEF OpenReadOnly
  <2> HIDE DEF db
  <2> QED
    BY <1>2, <2>1, OpenedHere
<1>5. ~helper[h].writable
  BY <1>1, Mine DEF HelperInv
<1> HIDE DEF open
<1> QED
  BY <1>1, <1>4, <1>5, OpeningOK

(* A call that only goes on to pc. *)
LEMMA GotoInv ==
    ASSUME IInv, NEW h \in Helpers, NEW pc \in PCs, helper' = [helper EXCEPT ![h].pc = pc],
           UNCHANGED <<diskVars, managed>>,
           \A r \in HelperStates :
               /\ r.pc = pc /\ r.mDatabase = helper[h].mDatabase /\ r.db = helper[h].db
               /\ r.writable = helper[h].writable
               => HelperInv(h, r, files, databases)
    PROVE  IInv'
<1> DEFINE r == [helper[h] EXCEPT !.pc = pc]
<1>1. /\ r \in HelperStates /\ r.pc = pc /\ r.mDatabase = helper[h].mDatabase /\ r.db = helper[h].db
      /\ r.writable = helper[h].writable
  BY Mine DEF HelperStates
<1>2. helper' = [helper EXCEPT ![h] = r]
  BY DEF IInv
<1> HIDE DEF r
<1> QED
  BY <1>1, <1>2, HelperOnly

LEMMA OpenFailsInv == ASSUME IInv, NEW h \in Helpers, OpenFails(h) PROVE IInv'
<1>1. helper[h].pc = "open" /\ ~helper[h].writable
      /\ helper' = [helper EXCEPT ![h].pc = "openReadOnly"] /\ UNCHANGED <<diskVars, managed>>
  BY DEF OpenFails, At, Goto
<1>2. ASSUME NEW r \in HelperStates, r.pc = "openReadOnly", r.mDatabase = helper[h].mDatabase,
             r.db = helper[h].db, r.writable = helper[h].writable
      PROVE  HelperInv(h, r, files, databases)
  BY <1>1, <1>2, Mine DEF HelperInv, HasDatabase, Migrating
<1>3. "openReadOnly" \in PCs
  BY DEF PCs
<1> QED
  BY <1>1, <1>2, <1>3, GotoInv

LEMMA FinallyInv ==
    ASSUME IInv, NEW h \in Helpers, ~At(h, "idle"), Finally(h), managed' = managed PROVE IInv'
<1> DEFINE db == Db(h)
           m == helper[h].mDatabase
           open == IF db = m THEN RolledBack(db) ELSE Without({db})
           r == Failed(h)
<1>1. Disk(path, files, open) /\ helper' = [helper EXCEPT ![h] = r]
  BY DEF Finally
<1>2. db = helper[h].db /\ db \in Own(h) \cup {None} /\ None \notin Names
  BY Mine, NoneIsNoName DEF Db
<1>3. /\ DiskInv(path, files, open)
      /\ DOMAIN open = IF db = m THEN DOMAIN databases ELSE DOMAIN databases \ {db}
      /\ \A d : d # db => Same(d, files, databases, files, open)
  BY RolledBackOK, WithoutOK
<1>4. /\ r.pc = "idle" /\ r.mDatabase = m /\ r.db = None /\ r \in HelperStates
  BY Mine, Owning DEF Failed, NewHelper, HelperStates, PCs
<1> HIDE DEF r, open, db
<1>5. HelperInv(h, r, files, open)
  BY <1>2, <1>3, <1>4, Mine DEF HelperInv, Migrating, HasDatabase
<1>6. \A d \in Names \ Own(h) : Same(d, files, databases, files, open)
  BY <1>2, <1>3
<1> QED
  BY <1>1, <1>3, <1>5, <1>6, HelperDisk

LEMMA ThrowInv == ASSUME IInv, NEW h \in Helpers, Throw(h) PROVE IInv'
  BY FinallyInv DEF Throw

LEMMA GetVersionInv == ASSUME IInv, NEW h \in Helpers, GetVersion(h) PROVE IInv'
<1> DEFINE version == files[FileOf(Db(h))].version
           next(v) == IF version = NewVersion THEN "onOpen" ELSE IF v THEN "beforeDelete" ELSE "begin"
<1>1. /\ helper[h].pc = "version" /\ Db(h) \in DOMAIN databases /\ Db(h) = helper[h].db
      /\ managed' = managed
  BY DEF GetVersion, At, IsOpen, Db
<1>2. CASE Finally(h)
  BY <1>1, <1>2, FinallyInv DEF At
<1>3. CASE ~Finally(h)
  <2>1. PICK v \in BOOLEAN :
            /\ helper' = [helper EXCEPT ![h].version = version, ![h].pc = next(v)]
            /\ UNCHANGED diskVars
    <3> DEFINE obsolete == version > 0 /\ version < MinimumSupportedVersion
    <3>1. helper' = [helper EXCEPT ![h].version = version, ![h].pc = next(obsolete)]
          /\ UNCHANGED diskVars
      BY <1>3 DEF GetVersion
    <3>2. obsolete \in BOOLEAN
      OBVIOUS
    <3> HIDE DEF obsolete
    <3> QED
      BY <3>1, <3>2
  <2> DEFINE r == [[helper[h] EXCEPT !.version = version] EXCEPT !.pc = next(v)]
  <2>2. version \in Nat /\ files[databases[Db(h)].file].version = version
    <3>1. files \in Seq(FileContent) /\ databases[Db(h)].file \in 1 .. Len(files)
      BY <1>1 DEF IInv, DiskInv, OpenDatabases
    <3>2. files[databases[Db(h)].file] \in FileContent
      BY <3>1
    <3> QED
      BY <3>2 DEF FileContent, FileOf
  <2> HIDE DEF version
  <2>3. next(v) \in {"onOpen", "beforeDelete", "begin"} /\ (next(v) = "onOpen" => version = NewVersion)
    OBVIOUS
  <2> HIDE DEF next
  <2>4. /\ r.pc = next(v) /\ r.mDatabase = helper[h].mDatabase /\ r.db = helper[h].db
        /\ r.writable = helper[h].writable /\ r \in HelperStates
    BY <2>2, <2>3, Mine DEF HelperStates, PCs, HasDatabase
  <2>5. helper' = [helper EXCEPT ![h] = r]
    BY <2>1 DEF IInv
  <2> HIDE DEF r
  <2>6. HelperInv(h, r, files, databases)
    BY <1>1, <2>2, <2>3, <2>4, Mine DEF HelperInv, Migrating, HasDatabase
  <2> QED
    BY <1>1, <2>1, <2>5, <2>6, HelperOnly
<1> QED
  BY <1>2, <1>3

LEMMA OnBeforeDeleteInv == ASSUME IInv, NEW h \in Helpers, OnBeforeDelete(h) PROVE IInv'
<1> DEFINE db == helper[h].db
           r == [helper[h] EXCEPT !.pc = "delete"]
<1>1. /\ helper[h].pc = "beforeDelete" /\ Disk(path, files, Without({db})) /\ managed' = managed
      /\ helper' = [helper EXCEPT ![h] = r]
  BY DEF OnBeforeDelete, At, Close, Db, Goto, IInv
<1>2. /\ DiskInv(path, files, Without({db})) /\ DOMAIN Without({db}) = DOMAIN databases \ {db}
      /\ \A d : d \notin {db} => Same(d, files, databases, files, Without({db}))
  BY WithoutOK
<1>3. db \notin Names \ Own(h)
  BY Mine, NoneIsNoName
<1>4. r.mDatabase = helper[h].mDatabase /\ r.db = db /\ r.pc = "delete" /\ r \in HelperStates
  BY Mine DEF HelperStates, PCs
<1> HIDE DEF r, db
<1>5. HelperInv(h, r, files, Without({db}))
  BY <1>1, <1>2, <1>4, Mine DEF HelperInv, Migrating, HasDatabase, db
<1> QED
  BY <1>1, <1>2, <1>3, <1>5, HelperDisk

LEMMA NoName ==
    ASSUME IInv
    PROVE  /\ DiskInv(None, files, databases)
           /\ \A d : Same(d, files, databases, files, databases)
  BY DEF IInv, DiskInv, Same

LEMMA DeleteDatabaseInv == ASSUME IInv, NEW h \in Helpers, DeleteDatabase(h) PROVE IInv'
<1> DEFINE r == Entered(h, helper[h].writable)
<1>1. /\ helper[h].pc = "delete" /\ Disk(None, files, databases) /\ managed' = managed
      /\ helper' = [helper EXCEPT ![h] = r]
  BY DEF DeleteDatabase, At
<1>2. helper[h].db \notin DOMAIN databases /\ helper[h].writable \in BOOLEAN
  BY <1>1, Mine DEF HelperInv, HelperStates
<1>3. HelperInv(h, r, files, databases)
  BY <1>2, EnteredOK
<1> HIDE DEF r
<1> QED
  BY <1>1, <1>3, NoName, HelperDisk

LEMMA OnOpenInv == ASSUME IInv, NEW h \in Helpers, OnOpen(h) PROVE IInv'
<1> DEFINE r == [helper[h] EXCEPT !.mDatabase = Db(h), !.db = None, !.pc = "idle",
                     !.mIsInitializing = FALSE, !.writable = FALSE, !.version = 0]
<1>1. helper[h].pc = "onOpen" /\ helper' = [helper EXCEPT ![h] = r] /\ UNCHANGED <<diskVars, managed>>
  BY DEF OnOpen, At
<1>2. r.mDatabase = helper[h].db /\ r.db = None /\ r.pc = "idle" /\ r \in HelperStates
  BY Mine, Owning DEF HelperStates, PCs, Db
<1> HIDE DEF r
<1>3. HelperInv(h, r, files, databases)
  BY <1>1, <1>2, Mine DEF HelperInv, Migrating, HasDatabase
<1> QED
  BY <1>1, <1>3, HelperOnly

-----------------------------------------------------------------------------
(* The transaction of a helper.                                            *)

(* The database of helper h has transaction t, and the others are as they   *)
(* were.                                                                    *)
LEMMA TransactionInv ==
    ASSUME IInv, NEW h \in Helpers, Db(h) \in DOMAIN databases, NEW t \in FileContent,
           databases' = [databases EXCEPT ![Db(h)].transaction = t],
           UNCHANGED <<path, files, managed>>,
           NEW pc \in Migrating, helper' = [helper EXCEPT ![h].pc = pc],
           helper[h].pc \in Migrating \cup {"begin"}, Migrated(pc, t)
    PROVE  IInv'
<1> DEFINE db == Db(h)
           r == [helper[h] EXCEPT !.pc = pc]
<1>1. db = helper[h].db /\ db \in Own(h)
  BY Mine DEF Db
<1>2. /\ DOMAIN databases' = DOMAIN databases
      /\ databases'[db] = [databases[db] EXCEPT !.transaction = t]
      /\ \A d \in DOMAIN databases \ {db} : databases'[d] = databases[d]
  OBVIOUS
<1>3. databases[db] \in OpenDatabases(files)
  BY DEF IInv, DiskInv
<1> HIDE DEF db
<1>4. /\ databases'[db] \in OpenDatabases(files) /\ databases'[db].transaction = t
      /\ databases'[db].readOnly = databases[db].readOnly
  BY <1>2, <1>3 DEF OpenDatabases
<1>5. DiskInv(path', files', databases')
  BY <1>2, <1>4 DEF IInv, DiskInv
<1>6. \A d \in Names \ Own(h) : Same(d, files, databases, files', databases')
  BY <1>1, <1>2 DEF Same
<1>7. /\ r.mDatabase = helper[h].mDatabase /\ r.db = helper[h].db /\ r.pc = pc
      /\ r.writable = helper[h].writable /\ r \in HelperStates
  BY Mine DEF HelperStates, PCs, HasDatabase
<1>8. helper' = [helper EXCEPT ![h] = r]
  BY DEF IInv
<1> HIDE DEF r
<1>9. pc # "idle" /\ pc \notin {"open", "openReadOnly", "delete", "onOpen"} /\ helper[h].pc # "idle"
      /\ helper[h].pc \in HasDatabase
  BY DEF Migrating, HasDatabase
<1>10. HelperInv(h, r, files', databases')
  BY <1>1, <1>2, <1>4, <1>7, <1>9, Mine DEF HelperInv, db
<1> QED
  BY <1>5, <1>6, <1>8, <1>10, HelperStep

LEMMA BeginTransactionInv == ASSUME IInv, NEW h \in Helpers, BeginTransaction(h) PROVE IInv'
<1> DEFINE t == files[FileOf(Db(h))]
<1>1. /\ helper[h].pc = "begin" /\ Db(h) \in DOMAIN databases
      /\ databases' = [databases EXCEPT ![Db(h)].transaction = t]
      /\ helper' = [helper EXCEPT ![h].pc = "callback"] /\ UNCHANGED <<path, files, managed>>
  BY DEF BeginTransaction, At, IsOpen, Goto
<1>2. t \in FileContent
  BY <1>1 DEF IInv, DiskInv, OpenDatabases, FileOf
<1> HIDE DEF t
<1>3. "callback" \in Migrating /\ Migrated("callback", t)
  BY <1>2 DEF Migrating, Migrated
<1> QED
  BY <1>1, <1>2, <1>3, TransactionInv

(* The transaction of a helper that is at pc. *)
LEMMA Transaction ==
    ASSUME IInv, NEW h \in Helpers, helper[h].pc \in Migrating
    PROVE  /\ Db(h) \in DOMAIN databases /\ Db(h) \in Own(h)
           /\ databases[Db(h)] \in OpenDatabases(files)
           /\ databases[Db(h)].transaction \in FileContent
           /\ Migrated(helper[h].pc, databases[Db(h)].transaction)
  BY Mine DEF HelperInv, Db, Migrated, IInv, DiskInv

LEMMA CallbackInv == ASSUME IInv, NEW h \in Helpers, Callback(h) PROVE IInv'
<1> DEFINE old == databases[Db(h)].transaction
           v == [from |-> helper[h].version, to |-> NewVersion]
           t == [old EXCEPT !.made = Append(old.made, v)]
<1>1. /\ helper[h].pc = "callback" /\ databases' = [databases EXCEPT ![Db(h)].transaction = t]
      /\ helper' = [helper EXCEPT ![h].pc = "setVersion"] /\ UNCHANGED <<path, files, managed>>
  BY DEF Callback, At, Goto
<1>2. Db(h) \in DOMAIN databases /\ old \in FileContent /\ helper[h].pc \in Migrating
  BY <1>1, Transaction DEF Migrating
<1>3. v \in Versions /\ v.to = NewVersion
  BY Mine, HelperAssumption DEF Versions, HelperStates
<1> HIDE DEF v, old
<1>4. old.made \in Seq(Versions) /\ old.version \in Nat
  BY <1>2 DEF FileContent
<1>5. /\ Append(old.made, v) \in Seq(Versions) /\ Append(old.made, v) # <<>>
      /\ Len(Append(old.made, v)) = Len(old.made) + 1
      /\ Append(old.made, v)[Len(old.made) + 1] = v
  BY <1>3, <1>4
<1>6. t \in FileContent /\ t.made = Append(old.made, v)
  BY <1>2, <1>5 DEF FileContent
<1> HIDE DEF t
<1>7. "setVersion" \in Migrating /\ Migrated("setVersion", t)
  BY <1>3, <1>5, <1>6 DEF Migrating, Migrated
<1> QED
  BY <1>1, <1>2, <1>6, <1>7, TransactionInv

LEMMA SetVersionInv == ASSUME IInv, NEW h \in Helpers, SetVersion(h) PROVE IInv'
<1> DEFINE old == databases[Db(h)].transaction
           t == [old EXCEPT !.version = NewVersion]
<1>1. /\ helper[h].pc = "setVersion" /\ databases' = [databases EXCEPT ![Db(h)].transaction = t]
      /\ helper' = [helper EXCEPT ![h].pc = "endTransaction"] /\ UNCHANGED <<path, files, managed>>
  BY DEF SetVersion, At, Goto
<1>2. /\ Db(h) \in DOMAIN databases /\ old \in FileContent /\ Migrated("setVersion", old)
      /\ helper[h].pc \in Migrating
  BY <1>1, Transaction DEF Migrating
<1> HIDE DEF old
<1>3. t \in FileContent /\ t.made = old.made /\ t.version = NewVersion
  BY <1>2, HelperAssumption DEF FileContent
<1> HIDE DEF t
<1>4. "endTransaction" \in Migrating /\ Migrated("endTransaction", t)
  BY <1>2, <1>3 DEF Migrating, Migrated
<1> QED
  BY <1>1, <1>2, <1>3, <1>4, TransactionInv

LEMMA EndTransactionInv == ASSUME IInv, NEW h \in Helpers, EndTransaction(h) PROVE IInv'
<1> DEFINE db == Db(h)
           f == databases[db].file
           t == databases[db].transaction
           r == [helper[h] EXCEPT !.pc = "onOpen"]
<1>1. /\ helper[h].pc = "endTransaction" /\ files' = [files EXCEPT ![f] = t]
      /\ databases' = [databases EXCEPT ![db].transaction = None]
      /\ helper' = [helper EXCEPT ![h] = r] /\ path' = path /\ managed' = managed
  BY DEF EndTransaction, At, Goto, FileOf, IInv
<1>2. /\ db \in DOMAIN databases /\ db \in Own(h) /\ databases[db] \in OpenDatabases(files)
      /\ t \in FileContent /\ Migrated("endTransaction", t) /\ db = helper[h].db
  BY <1>1, Transaction DEF Migrating, Db
<1>3. f \in 1 .. Len(files) /\ files \in Seq(FileContent)
  BY <1>2 DEF OpenDatabases, IInv, DiskInv
<1>4. Matching(t) /\ t.version = NewVersion
  BY <1>2 DEF Migrated, Matching
<1> HIDE DEF db, f, t, r
<1>5. /\ DOMAIN databases' = DOMAIN databases
      /\ databases'[db] = [databases[db] EXCEPT !.transaction = None]
      /\ \A d \in DOMAIN databases \ {db} : databases'[d] = databases[d]
  BY <1>1, <1>2
<1>6. databases'[db] \in OpenDatabases(files) /\ databases'[db].file = f
      /\ databases'[db].readOnly = databases[db].readOnly
  BY <1>2, <1>5 DEF OpenDatabases, f
<1>7. /\ files' \in Seq(FileContent) /\ Len(files') = Len(files) /\ files'[f] = t
      /\ \A g \in 1 .. Len(files) : g # f => files'[g] = files[g]
  BY <1>1, <1>2, <1>3
<1>8. \A d \in DOMAIN databases : databases'[d] \in OpenDatabases(files') /\ databases'[d].file = databases[d].file
  BY <1>5, <1>6, <1>7 DEF IInv, DiskInv, OpenDatabases
<1>9. DiskInv(path', files', databases')
  BY <1>1, <1>4, <1>5, <1>7, <1>8 DEF IInv, DiskInv
<1>10. \A d \in DOMAIN databases : databases[d].file \in 1 .. Len(files)
  BY DEF IInv, DiskInv, OpenDatabases
<1>11. \A d \in Names \ Own(h) : Same(d, files, databases, files', databases')
  BY <1>2, <1>4, <1>5, <1>7, <1>8, <1>10 DEF Same
<1>12. /\ r.mDatabase = helper[h].mDatabase /\ r.db = helper[h].db /\ r.pc = "onOpen"
       /\ r.writable = helper[h].writable /\ r \in HelperStates
  BY Mine DEF HelperStates, PCs, HasDatabase, r
<1>13. HelperInv(h, r, files', databases')
  BY <1>1, <1>2, <1>4, <1>5, <1>6, <1>7, <1>12, Mine DEF HelperInv, Migrating, HasDatabase
<1> QED
  BY <1>1, <1>9, <1>11, <1>13, HelperStep

-----------------------------------------------------------------------------
(* The rest.                                                               *)

LEMMA CloseHelperInv == ASSUME IInv, NEW h \in Helpers, CloseHelper(h) PROVE IInv'
<1> DEFINE m == helper[h].mDatabase
           r == [helper[h] EXCEPT !.mDatabase = None]
<1>1. /\ helper[h].pc = "idle" /\ Disk(path, files, Without({m})) /\ managed' = managed
      /\ helper' = [helper EXCEPT ![h] = r]
  BY DEF CloseHelper, At, Close, IInv
<1>2. /\ DiskInv(path, files, Without({m})) /\ DOMAIN Without({m}) = DOMAIN databases \ {m}
      /\ \A d : d \notin {m} => Same(d, files, databases, files, Without({m}))
  BY WithoutOK
<1>3. m \notin Names \ Own(h)
  BY Mine, NoneIsNoName
<1>4. r.mDatabase = None /\ r.db = helper[h].db /\ r.pc = "idle" /\ r \in HelperStates
  BY <1>1, Mine DEF HelperStates, PCs
<1> HIDE DEF r, m
<1>5. HelperInv(h, r, files, Without({m}))
  BY <1>1, <1>2, <1>4, Mine DEF HelperInv, Migrating, HasDatabase, m
<1> QED
  BY <1>1, <1>2, <1>3, <1>5, HelperDisk

LEMMA UserClosesInv == ASSUME IInv, NEW h \in Helpers, UserCloses(h) PROVE IInv'
<1> DEFINE m == helper[h].mDatabase
<1>1. /\ m \in DOMAIN databases /\ databases[m].transaction = None
      /\ Disk(path, files, Without({m})) /\ managed' = managed
      /\ helper' = [helper EXCEPT ![h] = helper[h]]
  BY DEF UserCloses, IsOpen, Close, IInv
<1>2. /\ DiskInv(path, files, Without({m})) /\ DOMAIN Without({m}) = DOMAIN databases \ {m}
      /\ \A d \in DOMAIN databases \ {m} : Without({m})[d] = databases[d]
      /\ \A d : d \notin {m} => Same(d, files, databases, files, Without({m}))
  BY WithoutOK
<1>3. m \notin Names \ Own(h)
  BY Mine, NoneIsNoName
<1>4. helper[h].pc \in Migrating => helper[h].db # m
  BY <1>1, NoneAssumption, Mine DEF HelperInv, Migrated
<1>5. HelperInv(h, helper[h], files, Without({m}))
  BY <1>2, <1>4, Mine DEF HelperInv
<1> HIDE DEF m
<1> QED
  BY <1>1, <1>2, <1>3, <1>5, HelperDisk

LEMMA TheirService ==
    ASSUME IInv, NEW s \in Services
    PROVE  /\ ServiceInv(s, managed[s], databases)
           /\ managed[s] \in Own(s) \cup {None} /\ None \notin DOMAIN databases
  BY NoneIsNoName DEF IInv, ServiceInv, DiskInv

LEMMA ExecInv == ASSUME IInv, NEW s \in Services, Exec(s) PROVE IInv'
<1> DEFINE db == NewDatabase(s)
<1>1. /\ managed[s] \notin DOMAIN databases /\ OpenOrCreate(db)
      /\ managed' = [managed EXCEPT ![s] = db] /\ helper' = helper
  BY DEF Exec, IsOpen
<1>2. PICK np, content, open :
          /\ Disk(np, content, open) /\ DiskInv(np, content, open)
          /\ DOMAIN open = DOMAIN databases \cup {db}
          /\ \A d : d # db => Same(d, files, databases, content, open)
  BY <1>1, OpenOrCreateOK
<1>3. db \in Own(s)
  BY NewOne
<1> HIDE DEF db
<1>4. ServiceInv(s, db, open)
  BY <1>1, <1>2, <1>3, TheirService DEF ServiceInv
<1>5. \A d \in Names \ Own(s) : Same(d, files, databases, content, open)
  BY <1>2, <1>3
<1> QED
  BY <1>1, <1>2, <1>4, <1>5, ServiceDisk

LEMMA DeleteDbInv == ASSUME IInv, NEW s \in Services, DeleteDb(s) PROVE IInv'
<1>1. /\ Disk(None, files, databases) /\ helper' = helper
      /\ managed' = [managed EXCEPT ![s] = managed[s]]
  BY DEF DeleteDb, IInv
<1> QED
  BY <1>1, NoName, TheirService, ServiceDisk

LEMMA ReleaseAllInv == ASSUME IInv, NEW s \in Services, ReleaseAll(s) PROVE IInv'
<1> DEFINE m == managed[s]
<1>1. /\ Disk(path, files, Without({m})) /\ helper' = helper
      /\ managed' = [managed EXCEPT ![s] = None]
  BY DEF ReleaseAll, Close
<1>2. /\ DiskInv(path, files, Without({m})) /\ DOMAIN Without({m}) = DOMAIN databases \ {m}
      /\ \A d : d \notin {m} => Same(d, files, databases, files, Without({m}))
  BY WithoutOK
<1>3. ServiceInv(s, None, Without({m}))
  BY <1>2, TheirService DEF ServiceInv
<1>4. m \notin Names \ Own(s)
  BY TheirService, NoneIsNoName
<1> HIDE DEF m
<1> QED
  BY <1>1, <1>2, <1>3, <1>4, ServiceDisk

(* What a helper, and a set of them and of services, loses with its process. *)
Had(h) == {helper[h].mDatabase, helper[h].db}

Lost(P) == (UNION {Had(h) : h \in P \cap Helpers}) \cup {managed[s] : s \in P \cap Services}

LEMMA LostOnes ==
    ASSUME NEW P, NEW d
    PROVE  /\ \A h \in P \cap Helpers : d \in Had(h) => d \in Lost(P)
           /\ \A s \in P \cap Services : d = managed[s] => d \in Lost(P)
           /\ d \in Lost(P) => \/ \E h \in P \cap Helpers : d \in Had(h)
                             \/ \E s \in P \cap Services : d = managed[s]
<1>1. d \in UNION {Had(h) : h \in P \cap Helpers} <=> \E h \in P \cap Helpers : d \in Had(h)
  OBVIOUS
<1>2. d \in {managed[s] : s \in P \cap Services} <=> \E s \in P \cap Services : d = managed[s]
  OBVIOUS
<1> QED
  BY <1>1, <1>2 DEF Lost

LEMMA ProcessCrashInv == ASSUME IInv, NEW P \in Processes, ProcessCrash(P) PROVE IInv'
<1> DEFINE lost == Lost(P)
           open == Without(lost)
<1>1. /\ Disk(path, files, open)
      /\ helper' = [h \in Helpers |-> IF h \in P THEN NewHelper ELSE helper[h]]
      /\ managed' = [s \in Services |-> IF s \in P THEN None ELSE managed[s]]
  BY DEF ProcessCrash, Close, Lost, Had
<1>2. /\ DiskInv(path, files, open) /\ DOMAIN open = DOMAIN databases \ lost
      /\ \A d : d \notin lost => Same(d, files, databases, files, open)
  BY WithoutOK
<1>3. \A h \in Helpers : h \in P => helper[h].mDatabase \in lost /\ helper[h].db \in lost
  BY LostOnes DEF Had
<1>4. \A s \in Services : s \in P => managed[s] \in lost
  BY LostOnes
<1>5. ASSUME NEW d \in lost, d # None PROVE \E o \in P : o \in Helpers \cup Services /\ d \in Own(o)
  <2>0. \/ \E h \in P \cap Helpers : d = helper[h].mDatabase \/ d = helper[h].db
        \/ \E s \in P \cap Services : d = managed[s]
    BY LostOnes DEF Had
  <2>1. CASE \E h \in P \cap Helpers : d = helper[h].mDatabase \/ d = helper[h].db
    BY <1>5, <2>1, Mine
  <2>2. CASE \E s \in P \cap Services : d = managed[s]
    BY <1>5, <2>2, TheirService
  <2> QED
    BY <2>0, <2>1, <2>2
<1> HIDE DEF lost, open
<1>6. DiskInv(path', files', databases') /\ DOMAIN databases' = DOMAIN open
  BY <1>1, <1>2, DiskLemma
<1>7. \A d : Same(d, files, open, files', databases')
  BY <1>1, <1>2, DiskSame
<1>8. ASSUME NEW o \in Helpers \cup Services, o \notin P, NEW d \in Own(o)
      PROVE  Same(d, files, databases, files', databases')
  <2>1. d \notin lost
    BY <1>5, <1>8, Owning, NoneIsNoName
  <2> QED
    BY <1>2, <1>7, <2>1, SameTwice
<1>9. NewHelper \in HelperStates
  BY DEF NewHelper, HelperStates, PCs
<1>10. ASSUME NEW h \in Helpers PROVE HelperInv(h, helper'[h], files', databases')
  <2>1. CASE h \in P
    <3>1. \A d \in DOMAIN databases' : d \notin Own(h)
      BY <1>2, <1>3, <1>6, <2>1, Mine DEF HelperInv
    <3>2. helper'[h] = NewHelper
      BY <1>1, <2>1
    <3> QED
      BY <1>9, <3>1, <3>2 DEF HelperInv, NewHelper, Migrating, HasDatabase
  <2>2. CASE h \notin P
    <3>1. helper'[h] = helper[h]
      BY <1>1, <2>2
    <3>2. \A d \in Own(h) : Same(d, files, databases, files', databases')
      BY <1>8, <2>2
    <3>3. DOMAIN databases \subseteq Names /\ DOMAIN databases' \subseteq Names
      BY <1>6 DEF IInv, DiskInv
    <3> QED
      BY <3>1, <3>2, <3>3, Mine, HelperSame
  <2> QED
    BY <2>1, <2>2
<1>11. ASSUME NEW s \in Services PROVE ServiceInv(s, managed'[s], databases')
  <2>1. CASE s \in P
    BY <1>1, <1>2, <1>4, <1>6, <2>1, TheirService DEF ServiceInv
  <2>2. CASE s \notin P
    <3>1. managed'[s] = managed[s]
      BY <1>1, <2>2
    <3>2. \A d \in Own(s) : Same(d, files, databases, files', databases')
      BY <1>8, <2>2
    <3> QED
      BY <3>1, <3>2, TheirService, ServiceSame
  <2> QED
    BY <2>1, <2>2
<1>12. /\ helper' \in [Helpers -> HelperStates]
       /\ managed' \in [Services -> Names \cup {None}]
  BY <1>1, <1>9 DEF IInv
<1> QED
  BY <1>6, <1>10, <1>11, <1>12 DEF IInv

LEMMA StepInv == ASSUME IInv, NEW h \in Helpers, Step(h) PROVE IInv'
  BY ReopenReadWriteInv, OpenOrCreateDatabaseInv, OpenFailsInv, OpenReadOnlyInv, GetVersionInv,
     OnBeforeDeleteInv, DeleteDatabaseInv, BeginTransactionInv, CallbackInv, SetVersionInv,
     EndTransactionInv, OnOpenInv, ThrowInv DEF Step

LEMMA NextIInv == IInv /\ [Next]_vars => IInv'
<1> SUFFICES ASSUME IInv, [Next]_vars PROVE IInv'
  OBVIOUS
<1>1. ASSUME NEW h \in Helpers,
             Step(h) \/ CloseHelper(h) \/ UserCloses(h)
             \/ \E writable \in {TRUE, h \notin Readers} :
                    GetDatabase(h, writable) \/ GetDatabaseRecursively(h, writable)
      PROVE  IInv'
  <2>1. ASSUME NEW writable \in BOOLEAN,
               GetDatabase(h, writable) \/ GetDatabaseRecursively(h, writable)
        PROVE  IInv'
    BY <2>1, GetDatabaseInv, GetDatabaseRecursivelyInv
  <2> QED
    BY <1>1, <2>1, StepInv, CloseHelperInv, UserClosesInv
<1>2. ASSUME NEW s \in Services, Exec(s) \/ DeleteDb(s) \/ ReleaseAll(s) PROVE IInv'
  BY <1>2, ExecInv, DeleteDbInv, ReleaseAllInv
<1>3. ASSUME NEW P \in Processes, ProcessCrash(P) PROVE IInv'
  BY <1>3, ProcessCrashInv
<1>4. CASE UNCHANGED vars
  BY <1>4 DEF vars, diskVars, IInv
<1> QED
  BY <1>1, <1>2, <1>3, <1>4 DEF Next

-----------------------------------------------------------------------------
(* The properties.                                                         *)

(* The databases that are open are those of the helpers and the clients,    *)
(* and nothing happens to them but what these do.                           *)
THEOREM Invariance == Spec => []IInv
  BY InitIInv, NextIInv, PTL DEF Spec

(* Whichever callback throws, and whoever closes or deletes the database    *)
(* meanwhile, no database stays open that no helper and no client has.      *)
THEOREM EveryDatabaseHasAnOwner == Spec => []NothingLeftOpen
<1>1. IInv => NothingLeftOpen
  <2> SUFFICES ASSUME IInv, NEW d \in DOMAIN databases PROVE d \in Referenced
    BY DEF NothingLeftOpen
  <2>1. PICK o \in Helpers \cup Services : d \in Own(o)
    BY Owning DEF IInv, DiskInv
  <2> QED
    BY <2>1 DEF IInv, HelperInv, ServiceInv, Referenced
<1> QED
  BY <1>1, Invariance, PTL

(* The tables of a file are always those that its version promises, however *)
(* many helpers upgrade it and processes end in between.                    *)
THEOREM Migration == Spec => []MigratedAtomically
<1>1. IInv => MigratedAtomically
  <2> SUFFICES ASSUME IInv, NEW f \in DOMAIN files PROVE Matching(files[f])
    BY DEF MigratedAtomically, Matching
  <2>1. f \in 1 .. Len(files)
    BY DEF IInv, DiskInv
  <2> QED
    BY <2>1 DEF IInv, DiskInv
<1> QED
  BY <1>1, Invariance, PTL

(* What a helper hands out has its version, and can be written if that was  *)
(* asked for.                                                               *)
THEOREM HandedOutCurrent == Spec => []OpenedIsCurrent
<1>1. IInv => OpenedIsCurrent
  BY Mine DEF OpenedIsCurrent, At, IsOpen, Db, FileOf, HelperInv, HasDatabase
<1> QED
  BY <1>1, Invariance, PTL

-----------------------------------------------------------------------------
(* How long a call takes.                                                  *)

(* A file whose version is not supported any more is deleted. *)
Obsolete(content) ==
    /\ content.version # NewVersion
    /\ content.version > 0 /\ content.version < MinimumSupportedVersion

(* The call of h is to meet one, as the file with the name or as that of    *)
(* its database.                                                            *)
WillDelete(h) ==
    \/ helper[h].pc \in {"beforeDelete", "delete"}
    \/ helper[h].pc \in {"open", "openReadOnly", "reopen"} /\ path # None /\ Obsolete(files[path])
    \/ At(h, "version") /\ IsOpen(Db(h)) /\ Obsolete(files[FileOf(Db(h))])

(* The steps left where the call is; one that deletes the file begins anew. *)
Stage(pc) ==
    CASE pc \in {"open", "reopen"} -> 9 [] pc = "openReadOnly" -> 8 [] pc = "version" -> 7
      [] pc = "beforeDelete" -> 2 [] pc = "delete" -> 1
      [] pc = "begin" -> 5 [] pc = "callback" -> 4 [] pc = "setVersion" -> 3
      [] pc = "endTransaction" -> 2 [] pc = "onOpen" -> 1 [] OTHER -> 0

StepsLeft(h) == Stage(helper[h].pc) + IF WillDelete(h) THEN 10 ELSE 0

CallIsBounded ==
    [][\A h \in Helpers : ~At(h, "idle") =>
          /\ StepsLeft(h)' <= StepsLeft(h)
          /\ Step(h) => StepsLeft(h)' < StepsLeft(h)]_vars

(* No name and no database comes to be that of an obsolete file. *)
NameAges(pt, fs, pt2, fs2) ==
    pt2 # None /\ Obsolete(fs2[pt2]) => pt # None /\ Obsolete(fs[pt])

FileAges(d, fs, dbs, fs2, dbs2) ==
    d \in DOMAIN dbs2 /\ Obsolete(fs2[dbs2[d].file]) => d \in DOMAIN dbs /\ Obsolete(fs[dbs[d].file])

LEMMA DiskAges ==
    ASSUME NEW np, NEW content, NEW open, DiskInv(np, content, open), Disk(np, content, open),
           NameAges(path, files, np, content),
           NEW S, \A d \in S : FileAges(d, files, databases, content, open)
    PROVE  /\ NameAges(path, files, path', files')
           /\ \A d \in S : FileAges(d, files, databases, files', databases')
  BY DiskLemma DEF NameAges, FileAges

(* Databases are closed, marked or rolled back; each keeps its file. *)
LEMMA KeptAges ==
    ASSUME NEW open, DOMAIN open \subseteq DOMAIN databases,
           \A d \in DOMAIN open : open[d].file = databases[d].file
    PROVE  \A d : FileAges(d, files, databases, files, open)
  BY DEF FileAges

LEMMA WithoutAges ==
    ASSUME IInv, NEW S, NEW np \in {path, None}, Disk(np, files, Without(S))
    PROVE  /\ NameAges(path, files, path', files')
           /\ \A d \in Names : FileAges(d, files, databases, files', databases')
<1>1. DOMAIN Without(S) = DOMAIN databases \ S
      /\ \A d \in DOMAIN databases \ S : Without(S)[d] = databases[d]
  BY WithoutOK
<1>2. DiskInv(np, files, Without(S))
  BY WithoutOK DEF DiskInv
<1>3. \A d : FileAges(d, files, databases, files, Without(S))
  BY <1>1, KeptAges
<1>4. NameAges(path, files, np, files)
  BY DEF NameAges
<1> QED
  BY <1>2, <1>3, <1>4, DiskAges

LEMMA DeletedAges ==
    ASSUME IInv, Disk(None, files, databases)
    PROVE  /\ NameAges(path, files, path', files')
           /\ \A d \in Names : FileAges(d, files, databases, files', databases')
<1>1. DiskInv(None, files, databases)
  BY NoName
<1>2. NameAges(path, files, None, files) /\ \A d \in Names : FileAges(d, files, databases, files, databases)
  BY DEF NameAges, FileAges
<1> QED
  BY <1>1, <1>2, DiskAges

(* What is opened is the file with the name, or an empty one. *)
OpensName(db) ==
    db \in DOMAIN databases' /\ Obsolete(files'[databases'[db].file]) =>
        path # None /\ Obsolete(files[path])

LEMMA OpenedAges ==
    ASSUME IInv, NEW db \in Names, NEW readOnly \in BOOLEAN,
           \/ path # None /\ Disk(path, files, With(databases, db, OpenDatabase(path, readOnly)))
           \/ /\ path = None /\ readOnly = FALSE
              /\ Disk(Len(files) + 1, Append(files, EmptyFile),
                      With(databases, db, OpenDatabase(Len(files) + 1, readOnly)))
    PROVE  /\ NameAges(path, files, path', files')
           /\ \A d \in Names \ {db} : FileAges(d, files, databases, files', databases')
           /\ OpensName(db)
<1>1. files \in Seq(FileContent) /\ Len(files) \in Nat /\ \A f \in 1 .. Len(files) : Matching(files[f])
  BY DEF IInv, DiskInv
<1>2. \A d \in DOMAIN databases : databases[d].file \in 1 .. Len(files)
  BY DEF IInv, DiskInv, OpenDatabases
<1>3. CASE path # None /\ Disk(path, files, With(databases, db, OpenDatabase(path, readOnly)))
  <2> DEFINE open == With(databases, db, OpenDatabase(path, readOnly))
  <2>1. /\ DOMAIN open = DOMAIN databases \cup {db} /\ open[db].file = path
        /\ \A d \in DOMAIN databases \ {db} : open[d] = databases[d]
    BY DEF With, OpenDatabase
  <2>2. DiskInv(path, files, open)
    BY <1>3, OpenedHere
  <2>3. Disk(path, files, open)
    BY <1>3
  <2> HIDE DEF open
  <2>4. \A d \in Names \ {db} : FileAges(d, files, databases, files, open)
    BY <2>1 DEF FileAges
  <2>5. NameAges(path, files, path, files)
    BY DEF NameAges
  <2>6. files'[databases'[db].file] = files[path]
    BY <2>1, <2>2, <2>3, DiskLemma
  <2> QED
    BY <1>3, <2>2, <2>3, <2>4, <2>5, <2>6, DiskAges DEF OpensName
<1>4. CASE /\ path = None /\ readOnly = FALSE
           /\ Disk(Len(files) + 1, Append(files, EmptyFile),
                   With(databases, db, OpenDatabase(Len(files) + 1, readOnly)))
  <2> DEFINE new == Len(files) + 1
             content == Append(files, EmptyFile)
             open == With(databases, db, OpenDatabase(new, readOnly))
  <2>1. /\ DOMAIN open = DOMAIN databases \cup {db} /\ open[db].file = new
        /\ \A d \in DOMAIN databases \ {db} : open[d] = databases[d]
    BY DEF With, OpenDatabase
  <2>2. EmptyFile \in FileContent /\ Matching(EmptyFile) /\ ~Obsolete(EmptyFile)
    BY DEF EmptyFile, FileContent, Matching, Obsolete
  <2>3. /\ content \in Seq(FileContent) /\ Len(content) = new /\ new \in 1 .. Len(content)
        /\ content[new] = EmptyFile /\ \A f \in 1 .. Len(files) : content[f] = files[f]
        /\ Len(content) >= Len(files)
    BY <1>1, <2>2
  <2>4. \A f \in 1 .. Len(content) : Matching(content[f])
    BY <1>1, <2>2, <2>3
  <2>5. Disk(new, content, open)
    BY <1>4
  <2> HIDE DEF content
  <2>6. DiskInv(new, content, open)
    BY <2>3, <2>4, OpenedOK
  <2> HIDE DEF open, new
  <2>7. \A d \in Names \ {db} : FileAges(d, files, databases, content, open)
    BY <1>2, <2>1, <2>3 DEF FileAges
  <2>8. NameAges(path, files, new, content)
    BY <2>2, <2>3 DEF NameAges
  <2>9. files'[databases'[db].file] = EmptyFile
    BY <2>1, <2>3, <2>5, <2>6, DiskLemma
  <2> QED
    BY <2>2, <2>5, <2>6, <2>7, <2>8, <2>9, DiskAges DEF OpensName
<1> QED
  BY <1>3, <1>4

LEMMA OpenOrCreateAges ==
    ASSUME IInv, NEW o \in Helpers \cup Services, OpenOrCreate(NewDatabase(o))
    PROVE  /\ NameAges(path, files, path', files')
           /\ \A d \in Names \ Own(o) : FileAges(d, files, databases, files', databases')
           /\ OpensName(NewDatabase(o))
<1> DEFINE db == NewDatabase(o)
<1>1. db \in Own(o) /\ db \in Names
  BY NewOne, Owning
<1>2. \/ path # None /\ Disk(path, files, With(databases, db, OpenDatabase(path, FALSE)))
      \/ /\ path = None
         /\ Disk(Len(files) + 1, Append(files, EmptyFile),
                 With(databases, db, OpenDatabase(Len(files) + 1, FALSE)))
  BY DEF OpenOrCreate
<1> HIDE DEF db
<1>3. /\ NameAges(path, files, path', files')
      /\ \A d \in Names \ {db} : FileAges(d, files, databases, files', databases')
      /\ OpensName(db)
  BY <1>1, <1>2, OpenedAges
<1> QED
  BY <1>1, <1>3 DEF db

(* The file that is opened anew for writing is the one with the name. *)
LEMMA ReopenedAges ==
    ASSUME IInv, NEW h \in Helpers, ReopenReadWrite(h)
    PROVE  /\ NameAges(path, files, path', files')
           /\ \A d \in Names \ Own(h) : FileAges(d, files, databases, files', databases')
           /\ OpensName(Db(h))
<1> DEFINE db == Db(h)
           open == [databases EXCEPT ![Db(h)].file = path, ![Db(h)].readOnly = FALSE]
<1>1. /\ db \in DOMAIN databases /\ path \in 1 .. Len(files) /\ path # None
      /\ Disk(path, files, open) /\ db = helper[h].db
  BY DEF ReopenReadWrite, IsOpen, Db, IInv, DiskInv
<1>2. db \in Own(h)
  BY <1>1, Mine
<1>3. /\ DOMAIN open = DOMAIN databases
      /\ open[db] = [[databases[db] EXCEPT !.file = path] EXCEPT !.readOnly = FALSE]
      /\ \A d \in DOMAIN databases \ {db} : open[d] = databases[d]
  BY <1>1
<1>4. open[db] \in OpenDatabases(files) /\ open[db].file = path
  BY <1>1, <1>3 DEF IInv, DiskInv, OpenDatabases
<1> HIDE DEF open, db
<1>5. DiskInv(path, files, open)
  BY <1>3, <1>4 DEF IInv, DiskInv
<1>6. \A d \in Names \ Own(h) : FileAges(d, files, databases, files, open)
  BY <1>2, <1>3 DEF FileAges
<1>7. NameAges(path, files, path, files)
  BY DEF NameAges
<1>8. files'[databases'[db].file] = files[path]
  <2>1. \A d \in DOMAIN open : files'[databases'[d].file] = files[open[d].file]
    BY <1>1, <1>5, DiskLemma
  <2> QED
    BY <1>1, <1>3, <1>4, <2>1
<1> QED
  BY <1>1, <1>5, <1>6, <1>7, <1>8, DiskAges DEF OpensName, db

LEMMA FinallyAges ==
    ASSUME IInv, NEW h \in Helpers, Finally(h)
    PROVE  /\ NameAges(path, files, path', files')
           /\ \A d \in Names : FileAges(d, files, databases, files', databases')
           /\ helper' = [helper EXCEPT ![h] = Failed(h)]
<1>1. helper' = [helper EXCEPT ![h] = Failed(h)]
  BY DEF Finally
<1>2. CASE Db(h) # helper[h].mDatabase
  <2>1. Disk(path, files, Without({Db(h)}))
    BY <1>2 DEF Finally
  <2> QED
    BY <1>1, <2>1, WithoutAges
<1>3. CASE Db(h) = helper[h].mDatabase
  <2> DEFINE open == RolledBack(Db(h))
  <2>1. Disk(path, files, open)
    BY <1>3 DEF Finally
  <2>2. DiskInv(path, files, open) /\ DOMAIN open = DOMAIN databases
    BY RolledBackOK
  <2>3. \A d \in DOMAIN open : open[d].file = databases[d].file
    <3> SUFFICES ASSUME NEW d \in DOMAIN databases PROVE open[d].file = databases[d].file
      BY <2>2
    <3>1. databases[d] \in OpenDatabases(files)
      BY DEF IInv, DiskInv
    <3> QED
      BY <3>1 DEF RolledBack, OpenDatabases
  <2> HIDE DEF open
  <2>4. \A d : FileAges(d, files, databases, files, open)
    BY <2>2, <2>3, KeptAges
  <2>5. NameAges(path, files, path, files)
    BY DEF NameAges
  <2> QED
    BY <1>1, <2>1, <2>2, <2>4, <2>5, DiskAges
<1> QED
  BY <1>2, <1>3

(* A transaction begins, goes on or ends: with the new version if it does.  *)
LEMMA TransactionAges ==
    ASSUME IInv, NEW h \in Helpers,
           BeginTransaction(h) \/ Callback(h) \/ SetVersion(h) \/ EndTransaction(h)
    PROVE  /\ NameAges(path, files, path', files')
           /\ \A d \in Names : FileAges(d, files, databases, files', databases')
<1>1. \A d \in DOMAIN databases : databases[d] \in OpenDatabases(files)
  BY DEF IInv, DiskInv
<1>2. /\ path' = path /\ DOMAIN databases' = DOMAIN databases
      /\ \E t : databases' = [databases EXCEPT ![Db(h)].transaction = t]
  BY DEF BeginTransaction, Callback, SetVersion, EndTransaction
<1>3. \A d \in DOMAIN databases : databases'[d].file = databases[d].file
  BY <1>1, <1>2 DEF OpenDatabases
<1>4. files' = files \/ \E f, t : files' = [files EXCEPT ![f] = t] /\ ~Obsolete(t)
  <2>1. CASE BeginTransaction(h) \/ Callback(h) \/ SetVersion(h)
    BY <2>1 DEF BeginTransaction, Callback, SetVersion
  <2>2. CASE EndTransaction(h)
    <3>1. Migrated("endTransaction", databases[Db(h)].transaction)
      BY <2>2, Transaction DEF EndTransaction, At, Migrating
    <3> QED
      BY <2>2, <3>1 DEF EndTransaction, Migrated, Obsolete
  <2> QED
    BY <2>1, <2>2
<1>5. \A f \in DOMAIN files : Obsolete(files'[f]) => Obsolete(files[f])
  BY <1>4
<1>6. (path # None => path \in DOMAIN files) /\ \A d \in DOMAIN databases : databases[d].file \in DOMAIN files
  BY <1>1 DEF IInv, DiskInv, OpenDatabases
<1> QED
  BY <1>2, <1>3, <1>5, <1>6 DEF NameAges, FileAges

LEMMA UnchangedAges ==
    ASSUME UNCHANGED diskVars
    PROVE  /\ NameAges(path, files, path', files')
           /\ \A d : FileAges(d, files, databases, files', databases')
  BY DEF diskVars, NameAges, FileAges

(* What a step of a call does to the files and the databases of others.     *)
LEMMA StepAges ==
    ASSUME IInv, NEW h \in Helpers, Step(h)
    PROVE  /\ NameAges(path, files, path', files')
           /\ \A d \in Names \ Own(h) : FileAges(d, files, databases, files', databases')
<1>1. CASE ReopenReadWrite(h)
  BY <1>1, ReopenedAges
<1>2. CASE OpenOrCreateDatabase(h)
  BY <1>2, OpenOrCreateAges DEF OpenOrCreateDatabase
<1>3. CASE OpenReadOnly(h)
  <2>1. NewDatabase(h) \in Own(h) /\ NewDatabase(h) \in Names
    BY NewOne, Owning
  <2>2. path # None /\ Disk(path, files, With(databases, NewDatabase(h), OpenDatabase(path, TRUE)))
    BY <1>3 DEF OpenReadOnly
  <2> QED
    BY <2>1, <2>2, OpenedAges
<1>4. CASE Finally(h)
  BY <1>4, FinallyAges
<1>5. CASE OnBeforeDelete(h)
  BY <1>5, WithoutAges DEF OnBeforeDelete, Close
<1>6. CASE DeleteDatabase(h)
  BY <1>6, DeletedAges DEF DeleteDatabase
<1>7. CASE BeginTransaction(h) \/ Callback(h) \/ SetVersion(h) \/ EndTransaction(h)
  BY <1>7, TransactionAges
<1>8. CASE UNCHANGED diskVars
  BY <1>8, UnchangedAges
<1> QED
  BY <1>1, <1>2, <1>3, <1>4, <1>5, <1>6, <1>7, <1>8 DEF Step, OpenFails, GetVersion, OnOpen, Throw

LEMMA Stages ==
    ASSUME NEW pc \in PCs
    PROVE  Stage(pc) \in 0 .. 9 /\ (pc # "idle" => Stage(pc) > 0)
  BY DEF PCs, HasDatabase, Migrating, Stage

LEMMA GoesDown ==
    ASSUME IInv, NEW h \in Helpers, helper'[h].pc \in PCs, WillDelete(h)' => WillDelete(h)
    PROVE  /\ Stage(helper'[h].pc) <= Stage(helper[h].pc) => StepsLeft(h)' <= StepsLeft(h)
           /\ Stage(helper'[h].pc) < Stage(helper[h].pc) => StepsLeft(h)' < StepsLeft(h)
<1>1. Stage(helper[h].pc) \in 0 .. 9 /\ Stage(helper'[h].pc) \in 0 .. 9
  BY Stages, Mine
<1> QED
  BY <1>1 DEF StepsLeft

(* A step of the others. *)
LEMMA OthersStep ==
    ASSUME IInv, IInv', NEW h \in Helpers,
           helper'[h].pc = helper[h].pc, helper'[h].db = helper[h].db,
           NameAges(path, files, path', files'),
           \A d \in Own(h) : FileAges(d, files, databases, files', databases')
    PROVE  StepsLeft(h)' <= StepsLeft(h)
<1>1. None \notin DOMAIN databases'
  BY NoneIsNoName DEF IInv, DiskInv
<1>2. helper[h].db \in Own(h) \cup {None} /\ helper[h].pc \in PCs
  BY Mine
<1>3. WillDelete(h)' => WillDelete(h)
  BY <1>1, <1>2 DEF WillDelete, NameAges, FileAges, At, IsOpen, Db, FileOf
<1>4. Stage(helper'[h].pc) <= Stage(helper[h].pc)
  BY <1>2, Stages
<1> QED
  BY <1>2, <1>3, <1>4, GoesDown

(* A call goes on. *)
LEMMA OwnStep ==
    ASSUME IInv, IInv', NEW h \in Helpers, Step(h)
    PROVE  StepsLeft(h)' < StepsLeft(h)
<1> USE DEF At
<1>1. helper \in [Helpers -> HelperStates] /\ helper'[h] \in HelperStates
      /\ helper[h].pc \in PCs /\ helper'[h].pc \in PCs
  BY Mine DEF IInv, HelperStates
<1>2. ASSUME WillDelete(h)' => WillDelete(h), Stage(helper'[h].pc) < Stage(helper[h].pc)
      PROVE  StepsLeft(h)' < StepsLeft(h)
  BY <1>1, <1>2, GoesDown
<1>3. ASSUME Finally(h), ~At(h, "idle") PROVE StepsLeft(h)' < StepsLeft(h)
  <2>1. helper'[h].pc = "idle"
    BY <1>1, <1>3, FinallyAges DEF Failed, NewHelper
  <2>2. ~WillDelete(h)' /\ Stage("idle") = 0
    BY <2>1 DEF WillDelete, Stage
  <2>3. Stage(helper[h].pc) > 0
    BY <1>1, <1>3, Stages
  <2> QED
    BY <1>2, <2>1, <2>2, <2>3
(* The database is opened, and its version not looked at yet. *)
<1>4. ASSUME helper[h].pc \in {"open", "openReadOnly", "reopen"}, helper'[h].pc = "version",
             helper'[h].db \in DOMAIN databases', NEW db, helper'[h].db = db, OpensName(db)
      PROVE  StepsLeft(h)' < StepsLeft(h)
  <2>1. WillDelete(h)' => WillDelete(h)
    BY <1>4 DEF WillDelete, OpensName, FileOf, Db
  <2>2. Stage(helper'[h].pc) < Stage(helper[h].pc)
    BY <1>4 DEF Stage
  <2> QED
    BY <1>2, <2>1, <2>2
<1>5. CASE ReopenReadWrite(h)
  <2>1. helper[h].pc = "reopen" /\ helper' = [helper EXCEPT ![h].pc = "version"] /\ Db(h) = helper[h].db
    BY <1>5 DEF ReopenReadWrite, Goto, Db
  <2>2. helper'[h].pc = "version" /\ helper'[h].db = helper[h].db
    BY <1>1, <2>1 DEF HelperStates
  <2>3. OpensName(helper[h].db)
    BY <1>5, <2>1, ReopenedAges
  <2>4. CASE helper[h].db \in DOMAIN databases'
    BY <1>4, <2>1, <2>2, <2>3, <2>4
  <2>5. CASE helper[h].db \notin DOMAIN databases'
    <3>1. ~WillDelete(h)'
      BY <2>2, <2>5 DEF WillDelete, IsOpen, Db
    <3>2. Stage(helper'[h].pc) < Stage(helper[h].pc)
      BY <2>1, <2>2 DEF Stage
    <3> QED
      BY <1>2, <3>1, <3>2
  <2> QED
    BY <2>4, <2>5
<1>6. ASSUME helper[h].pc \in {"open", "openReadOnly"}, Opened(h, NewDatabase(h)), OpensName(NewDatabase(h))
      PROVE  StepsLeft(h)' < StepsLeft(h)
  <2>1. PICK db : db = NewDatabase(h)
    OBVIOUS
  <2>2. helper' = [helper EXCEPT ![h].db = db, ![h].pc = "version"] /\ OpensName(db)
    BY <1>6, <2>1 DEF Opened
  <2>3. helper'[h].pc = "version" /\ helper'[h].db = db
    BY <1>1, <2>2 DEF HelperStates
  <2>4. WillDelete(h)' => WillDelete(h)
    BY <1>6, <2>2, <2>3 DEF WillDelete, OpensName, FileOf, IsOpen, Db
  <2>5. Stage(helper'[h].pc) < Stage(helper[h].pc)
    BY <1>6, <2>3 DEF Stage
  <2> QED
    BY <1>2, <2>4, <2>5
<1>7. CASE OpenOrCreateDatabase(h)
  BY <1>6, <1>7, OpenOrCreateAges DEF OpenOrCreateDatabase
<1>8. CASE OpenReadOnly(h)
  <2>1. NewDatabase(h) \in Names
    BY NewOne, Owning
  <2>2. path # None /\ Disk(path, files, With(databases, NewDatabase(h), OpenDatabase(path, TRUE)))
    BY <1>8 DEF OpenReadOnly
  <2>3. OpensName(NewDatabase(h))
    BY <2>1, <2>2, OpenedAges
  <2> QED
    BY <1>6, <1>8, <2>3 DEF OpenReadOnly
<1>9. CASE OpenFails(h)
  <2>1. helper[h].pc = "open" /\ helper'[h].pc = "openReadOnly" /\ path' = path /\ files' = files
    BY <1>1, <1>9 DEF OpenFails, Goto, diskVars, HelperStates
  <2>2. WillDelete(h)' => WillDelete(h)
    BY <2>1 DEF WillDelete
  <2>3. Stage(helper'[h].pc) < Stage(helper[h].pc)
    BY <2>1 DEF Stage
  <2> QED
    BY <1>2, <2>2, <2>3
<1>10. CASE GetVersion(h) /\ ~Finally(h)
  <2> DEFINE version == files[FileOf(Db(h))].version
             next == IF version = NewVersion THEN "onOpen"
                     ELSE IF version > 0 /\ version < MinimumSupportedVersion THEN "beforeDelete" ELSE "begin"
  <2>1. helper[h].pc = "version" /\ Db(h) \in DOMAIN databases
        /\ helper' = [helper EXCEPT ![h].version = version, ![h].pc = next]
    BY <1>10 DEF GetVersion, IsOpen
  <2>2. helper'[h].pc = next
    BY <1>1, <2>1 DEF HelperStates
  <2>3. next = "beforeDelete" => WillDelete(h)
    BY <2>1 DEF WillDelete, Obsolete, IsOpen
  <2>4. next \in {"onOpen", "beforeDelete", "begin"}
    OBVIOUS
  <2> HIDE DEF next
  <2>5. WillDelete(h)' => WillDelete(h)
    BY <2>2, <2>3, <2>4 DEF WillDelete
  <2>6. Stage(helper'[h].pc) < Stage(helper[h].pc)
    BY <2>1, <2>2, <2>4 DEF Stage
  <2> QED
    BY <1>2, <2>5, <2>6
<1>11. CASE OnBeforeDelete(h)
  <2>1. helper[h].pc = "beforeDelete" /\ helper'[h].pc = "delete"
    BY <1>1, <1>11 DEF OnBeforeDelete, Goto, HelperStates
  <2>2. WillDelete(h)
    BY <2>1 DEF WillDelete
  <2>3. Stage(helper'[h].pc) < Stage(helper[h].pc)
    BY <2>1 DEF Stage
  <2> QED
    BY <1>2, <2>2, <2>3
<1>12. CASE DeleteDatabase(h)
  <2>1. helper[h].pc = "delete" /\ Disk(None, files, databases)
        /\ helper' = [helper EXCEPT ![h] = Entered(h, helper[h].writable)]
    BY <1>12 DEF DeleteDatabase
  <2>2. helper'[h].pc \in {"open", "reopen"}
    BY <1>1, <2>1 DEF Entered, HelperStates
  <2>3. path' = None
    BY <2>1, NoName, DiskLemma
  <2>4. ~WillDelete(h)' /\ WillDelete(h)
    BY <2>1, <2>2, <2>3 DEF WillDelete
  <2>5. Stage(helper[h].pc) = 1 /\ Stage(helper'[h].pc) = 9
    BY <2>1, <2>2 DEF Stage
  <2> QED
    BY <2>4, <2>5 DEF StepsLeft
<1>13. ASSUME NEW pc \in {"callback", "setVersion", "endTransaction", "onOpen", "idle"},
              helper'[h].pc = pc, Stage(pc) < Stage(helper[h].pc)
       PROVE  StepsLeft(h)' < StepsLeft(h)
  <2>1. ~WillDelete(h)'
    BY <1>13 DEF WillDelete
  <2> QED
    BY <1>2, <1>13, <2>1
<1>14. CASE BeginTransaction(h)
  <2>1. helper[h].pc = "begin" /\ helper'[h].pc = "callback"
    BY <1>1, <1>14 DEF BeginTransaction, Goto, HelperStates
  <2> QED
    BY <1>13, <2>1 DEF Stage
<1>15. CASE Callback(h)
  <2>1. helper[h].pc = "callback" /\ helper'[h].pc = "setVersion"
    BY <1>1, <1>15 DEF Callback, Goto, HelperStates
  <2> QED
    BY <1>13, <2>1 DEF Stage
<1>16. CASE SetVersion(h)
  <2>1. helper[h].pc = "setVersion" /\ helper'[h].pc = "endTransaction"
    BY <1>1, <1>16 DEF SetVersion, Goto, HelperStates
  <2> QED
    BY <1>13, <2>1 DEF Stage
<1>17. CASE EndTransaction(h)
  <2>1. helper[h].pc = "endTransaction" /\ helper'[h].pc = "onOpen"
    BY <1>1, <1>17 DEF EndTransaction, Goto, HelperStates
  <2> QED
    BY <1>13, <2>1 DEF Stage
<1>18. CASE OnOpen(h)
  <2>1. helper[h].pc = "onOpen" /\ helper'[h].pc = "idle"
    BY <1>1, <1>18 DEF OnOpen, HelperStates
  <2> QED
    BY <1>13, <2>1 DEF Stage
<1> QED
  BY <1>3, <1>5, <1>7, <1>8, <1>9, <1>10, <1>11, <1>12, <1>14, <1>15, <1>16, <1>17, <1>18
     DEF Step, Throw, GetVersion

LEMMA AnyStep ==
    ASSUME IInv, IInv', [Next]_vars, NEW h \in Helpers, ~At(h, "idle")
    PROVE  StepsLeft(h)' <= StepsLeft(h)
<1>0. StepsLeft(h) \in Nat /\ StepsLeft(h)' \in Nat
  <2>1. helper[h].pc \in PCs /\ helper'[h].pc \in PCs
    BY Mine DEF IInv, HelperStates
  <2> QED
    BY <2>1, Stages DEF StepsLeft
<1>1. helper \in [Helpers -> HelperStates]
  BY DEF IInv
<1>2. Own(h) \subseteq Names
  BY Owning
<1>3. CASE Step(h)
  BY <1>0, <1>3, OwnStep
<1>4. ASSUME UNCHANGED diskVars, helper'[h].pc = helper[h].pc, helper'[h].db = helper[h].db
      PROVE  StepsLeft(h)' <= StepsLeft(h)
  BY <1>4, UnchangedAges, OthersStep
<1>5. ASSUME NEW o \in Helpers, Step(o) PROVE StepsLeft(h)' <= StepsLeft(h)
  <2>1. CASE o = h
    BY <1>3, <1>5, <2>1
  <2>2. CASE o # h
    <3>1. helper'[h] = helper[h]
      BY <1>1, <1>5, <2>2 DEF Step, ReopenReadWrite, OpenOrCreateDatabase, OpenFails, OpenReadOnly, GetVersion,
             OnBeforeDelete, DeleteDatabase, BeginTransaction, Callback, SetVersion, EndTransaction, OnOpen,
             Throw, Finally, Goto, Opened
    <3>2. \A d \in Own(h) : d \in Names \ Own(o)
      BY <2>2, Owning
    <3> QED
      BY <1>5, <3>1, <3>2, StepAges, OthersStep
  <2> QED
    BY <2>1, <2>2
<1>6. ASSUME NEW o \in Helpers, CloseHelper(o) PROVE StepsLeft(h)' <= StepsLeft(h)
  <2>1. o # h /\ helper'[h] = helper[h]
    BY <1>1, <1>6 DEF CloseHelper, At
  <2> QED
    BY <1>2, <1>6, <2>1, WithoutAges, OthersStep DEF CloseHelper, Close
<1>7. ASSUME NEW o \in Helpers, UserCloses(o) PROVE StepsLeft(h)' <= StepsLeft(h)
  BY <1>2, <1>7, WithoutAges, OthersStep DEF UserCloses, Close
<1>8. ASSUME NEW o \in Helpers, NEW writable, GetDatabase(o, writable) \/ GetDatabaseRecursively(o, writable)
      PROVE  StepsLeft(h)' <= StepsLeft(h)
  <2>1. UNCHANGED diskVars
    BY <1>8 DEF GetDatabase, GetDatabaseRecursively
  <2>2. helper'[h].pc = helper[h].pc /\ helper'[h].db = helper[h].db
    BY <1>1, <1>8 DEF GetDatabase, GetDatabaseRecursively, At, HelperStates
  <2> QED
    BY <1>4, <2>1, <2>2
<1>9. ASSUME NEW s \in Services, Exec(s) \/ DeleteDb(s) \/ ReleaseAll(s) PROVE StepsLeft(h)' <= StepsLeft(h)
  <2>1. helper' = helper
    BY <1>9 DEF Exec, DeleteDb, ReleaseAll
  <2>2. \A d \in Own(h) : d \in Names \ Own(s)
    BY Owning, HelperAssumption
  <2>3. CASE Exec(s)
    <3>1. /\ NameAges(path, files, path', files')
          /\ \A d \in Names \ Own(s) : FileAges(d, files, databases, files', databases')
      BY <2>3, OpenOrCreateAges DEF Exec
    <3> QED
      BY <2>1, <2>2, <3>1, OthersStep
  <2>4. CASE DeleteDb(s)
    BY <1>2, <2>1, <2>4, DeletedAges, OthersStep DEF DeleteDb
  <2>5. CASE ReleaseAll(s)
    BY <1>2, <2>1, <2>5, WithoutAges, OthersStep DEF ReleaseAll, Close
  <2> QED
    BY <1>9, <2>3, <2>4, <2>5
<1>10. ASSUME NEW P \in Processes, ProcessCrash(P) PROVE StepsLeft(h)' <= StepsLeft(h)
  <2>1. helper' = [o \in Helpers |-> IF o \in P THEN NewHelper ELSE helper[o]]
    BY <1>10 DEF ProcessCrash
  <2>2. CASE h \in P
    <3>1. helper'[h].pc = "idle"
      BY <2>1, <2>2 DEF NewHelper
    <3>2. StepsLeft(h)' = 0
      BY <3>1 DEF StepsLeft, WillDelete, Stage, At
    <3> QED
      BY <1>0, <3>2
  <2>3. CASE h \notin P
    <3>1. helper'[h] = helper[h]
      BY <2>1, <2>3
    <3>2. Disk(path, files, Without(Lost(P)))
      BY <1>10 DEF ProcessCrash, Close, Lost, Had
    <3> QED
      BY <1>2, <3>1, <3>2, WithoutAges, OthersStep
  <2> QED
    BY <2>2, <2>3
<1>11. CASE UNCHANGED vars
  BY <1>4, <1>11 DEF vars
<1> QED
  BY <1>5, <1>6, <1>7, <1>8, <1>9, <1>10, <1>11 DEF Next

(* A call of getDatabaseLocked() has less than twenty steps: it calls       *)
(* itself when it has deleted an obsolete file, but only once, since an     *)
(* obsolete file that has lost the name does not get it back, and no step   *)
(* of other helpers, clients or processes makes one.                        *)
THEOREM CallsAreBounded == Spec => CallIsBounded /\ [](\A h \in Helpers : StepsLeft(h) \in 0 .. 19)
<1>1. IInv /\ IInv' /\ [Next]_vars =>
          [\A h \in Helpers : ~At(h, "idle") =>
              /\ StepsLeft(h)' <= StepsLeft(h)
              /\ Step(h) => StepsLeft(h)' < StepsLeft(h)]_vars
  BY OwnStep, AnyStep
<1>2. IInv => \A h \in Helpers : StepsLeft(h) \in 0 .. 19
  BY Mine, Stages DEF StepsLeft
<1> QED
  BY <1>1, <1>2, Invariance, PTL DEF Spec, CallIsBounded
=============================================================================

---------------------------- MODULE SQLiteOpenHelper ----------------------------
(***************************************************************************)
(* The helpers that create, upgrade and keep one database of the           *)
(* application, in one process or in several, and the services of the      *)
(* remote clients (LetosDbService) that open the same file, work on it and *)
(* delete it without asking.                                               *)
(*                                                                         *)
(* A file is what has a name or an open database; of its content only the  *)
(* version and the callbacks that made its tables are kept.  A step ends   *)
(* where the database is used or a callback of the application is called;  *)
(* each of them may throw.                                                 *)
(***************************************************************************)
EXTENDS Integers, Sequences, FiniteSets

CONSTANTS
    Helpers,                    \* the helpers for the one database
    Readers,                    \* those that are also asked for a database to read only
    Services,                   \* the LetosDbService of each client
    Processes,                  \* sets of helpers and services that end together
    NewVersion,                 \* mNewVersion
    MinimumSupportedVersion,    \* mMinimumSupportedVersion
    InitialVersions,            \* of a file that is there at first
    MaxCrashes,                 \* bound on the ends of processes
    None                        \* no database, no file

ASSUME HelperAssumption ==
    /\ Readers \subseteq Helpers
    /\ NewVersion \in Nat \ {0} /\ MinimumSupportedVersion \in Nat
    /\ InitialVersions \subseteq Nat /\ MaxCrashes \in Nat
    /\ Processes \subseteq SUBSET (Helpers \cup Services)
    /\ IsFiniteSet(Helpers) /\ IsFiniteSet(Services) /\ Helpers \cap Services = {}

Versions == [from : Nat, to : Nat]

(* The content of a file: its version, and the callbacks that made its      *)
(* tables.                                                                  *)
FileContent == [version : Nat, made : Seq(Versions)]

ASSUME NoneAssumption ==
    /\ None \notin Nat /\ None \notin FileContent
    /\ None \notin (Helpers \cup Services) \X Nat

VARIABLES
    path,       \* the file that has the name of the database
    files,      \* the content of every file
    databases,  \* the SQLiteDatabase objects that are open
    helper,     \* the state of each helper
    managed,    \* managedDatabases of each service: its database of that name
    crashes     \* ends of processes so far

diskVars == <<path, files, databases>>
vars == <<diskVars, helper, managed, crashes>>

EmptyFile == [version |-> 0, made |-> <<>>]

(* What made the tables of a file that was there at first. *)
OldFile(version) == [version |-> version, made |-> <<[from |-> 0, to |-> version]>>]

NewHelper ==
    [pc |-> "idle", writable |-> FALSE, mDatabase |-> None, db |-> None, version |-> 0,
     mIsInitializing |-> FALSE]

Init ==
    /\ \/ path = None /\ files = <<>>
       \/ \E v \in InitialVersions :
            path = 1 /\ files = <<IF v = 0 THEN EmptyFile ELSE OldFile(v)>>
    /\ databases = <<>>
    /\ helper = [h \in Helpers |-> NewHelper]
    /\ managed = [s \in Services |-> None]
    /\ crashes = 0

-----------------------------------------------------------------------------
(* Files and open databases.                                               *)

IsOpen(db) == db \in DOMAIN databases

FileOf(db) == databases[db].file

NotIn(S) == CHOOSE n \in 1 .. Cardinality(S) + 1 : n \notin S

Referenced ==
    {helper[h].mDatabase : h \in Helpers} \cup {helper[h].db : h \in Helpers}
        \cup {managed[s] : s \in Services}

(* A new object of helper or service o. *)
NewDatabase(o) == <<o, NotIn({d[2] : d \in {e \in DOMAIN databases \cup (Referenced \ {None}) : e[1] = o}})>>

(* The system frees a file that has neither a name nor an open database;    *)
(* the files are numbered by their age.                                     *)
Disk(newPath, content, open) ==
    LET live == {f \in DOMAIN content : f = newPath \/ \E d \in DOMAIN open : open[d].file = f}
        Age(f) == Cardinality({g \in live : g <= f})
    IN  /\ path' = IF newPath = None THEN None ELSE Age(newPath)
        /\ files' = [n \in 1 .. Cardinality(live) |-> content[CHOOSE f \in live : Age(f) = n]]
        /\ databases' = [d \in DOMAIN open |-> [open[d] EXCEPT !.file = Age(@)]]

With(f, x, y) == [z \in DOMAIN f \cup {x} |-> IF z = x THEN y ELSE f[z]]

Without(S) == [d \in DOMAIN databases \ S |-> databases[d]]

OpenDatabase(file, readOnly) ==
    [file |-> file, readOnly |-> readOnly, transaction |-> None]

(* openOrCreateDatabase(): the file is made when it is opened. *)
OpenOrCreate(db) ==
    LET new == Len(files) + 1
    IN  IF path = None
        THEN Disk(new, Append(files, EmptyFile), With(databases, db, OpenDatabase(new, FALSE)))
        ELSE Disk(path, files, With(databases, db, OpenDatabase(path, FALSE)))

Close(S) == Disk(path, files, Without(S))

(* The transactions of a helper are exclusive. *)
Locked(file) == \E d \in DOMAIN databases : FileOf(d) = file /\ databases[d].transaction # None

-----------------------------------------------------------------------------
(* getDatabaseLocked(), under the monitor of the helper.                   *)

At(h, pc) == helper[h].pc = pc

Db(h) == helper[h].db

Usable(h, writable) ==
    LET mDatabase == helper[h].mDatabase
    IN  IsOpen(mDatabase) /\ (~writable \/ ~databases[mDatabase].readOnly)

(* A database that its user has closed is forgotten. *)
Remembered(h) == IF IsOpen(helper[h].mDatabase) THEN helper[h].mDatabase ELSE None

Entered(h, writable) ==
    [helper[h] EXCEPT !.mDatabase = Remembered(h), !.db = Remembered(h), !.mIsInitializing = TRUE,
        !.writable = writable, !.pc = IF Remembered(h) # None THEN "reopen" ELSE "open"]

GetDatabase(h, writable) ==
    /\ At(h, "idle") /\ ~Usable(h, writable)
    /\ helper' = [helper EXCEPT ![h] = Entered(h, writable)]
    /\ UNCHANGED <<diskVars, managed, crashes>>

(* A callback asks its own helper for the database, and catches what that   *)
(* throws: "getDatabase called recursively".                                *)
GetDatabaseRecursively(h, writable) ==
    /\ helper[h].pc \in {"version", "beforeDelete", "callback", "onOpen"}
    /\ ~Usable(h, writable)
    /\ helper' = [helper EXCEPT ![h].mDatabase = Remembered(h)]
    /\ UNCHANGED <<diskVars, managed, crashes>>

Goto(h, pc) == helper' = [helper EXCEPT ![h].pc = pc]

(* The new connections find what has the name now; no file is created. *)
ReopenReadWrite_VersionTrusted(h) ==
    /\ At(h, "reopen")
    /\ IsOpen(Db(h)) /\ path # None
    /\ Disk(path, files, [databases EXCEPT ![Db(h)].file = path, ![Db(h)].readOnly = FALSE])
    /\ Goto(h, "onOpen")
    /\ UNCHANGED <<managed, crashes>>

ReopenReadWrite(h) ==
    /\ At(h, "reopen")
    /\ IsOpen(Db(h)) /\ path # None
    /\ Disk(path, files, [databases EXCEPT ![Db(h)].file = path, ![Db(h)].readOnly = FALSE])
    /\ Goto(h, "version")
    /\ UNCHANGED <<managed, crashes>>

Opened(h, db) == helper' = [helper EXCEPT ![h].db = db, ![h].pc = "version"]

OpenOrCreateDatabase(h) ==
    /\ At(h, "open")
    /\ OpenOrCreate(NewDatabase(h))
    /\ Opened(h, NewDatabase(h))
    /\ UNCHANGED <<managed, crashes>>

(* Who only wants to read is content with a database opened for reading. *)
OpenFails(h) ==
    /\ At(h, "open") /\ ~helper[h].writable
    /\ Goto(h, "openReadOnly")
    /\ UNCHANGED <<diskVars, managed, crashes>>

OpenReadOnly(h) ==
    /\ At(h, "openReadOnly") /\ path # None
    /\ Disk(path, files, With(databases, NewDatabase(h), OpenDatabase(path, TRUE)))
    /\ Opened(h, NewDatabase(h))
    /\ UNCHANGED <<managed, crashes>>

(* The end of a call that throws: the transaction is rolled back and the    *)
(* database closed, if it is not the one that was kept before.              *)
RolledBack(db) ==
    [d \in DOMAIN databases |->
        [databases[d] EXCEPT !.transaction = IF d = db THEN None ELSE @]]

Failed(h) == [NewHelper EXCEPT !.mDatabase = helper[h].mDatabase]

Finally_NotClosed(h) ==
    /\ Disk(path, files, RolledBack(Db(h)))
    /\ helper' = [helper EXCEPT ![h] = Failed(h)]

Finally_Successful(h) ==
    LET db == Db(h)
    IN  /\ Disk(path, IF IsOpen(db) /\ databases[db].transaction # None
                      THEN [files EXCEPT ![FileOf(db)] = databases[db].transaction] ELSE files,
                IF db = helper[h].mDatabase THEN RolledBack(db) ELSE Without({db}))
        /\ helper' = [helper EXCEPT ![h] = Failed(h)]

Finally(h) ==
    LET db == Db(h)
    IN  /\ Disk(path, files, IF db = helper[h].mDatabase THEN RolledBack(db) ELSE Without({db}))
        /\ helper' = [helper EXCEPT ![h] = Failed(h)]

(* onConfigure(), and then the version decides. *)
GetVersion(h) ==
    /\ At(h, "version") /\ IsOpen(Db(h)) /\ ~Locked(FileOf(Db(h)))
    /\ LET version == files[FileOf(Db(h))].version
           cannotUpgrade == version # NewVersion /\ databases[Db(h)].readOnly
           obsolete == version > 0 /\ version < MinimumSupportedVersion
       IN  \/ cannotUpgrade /\ Finally(h)
           \/ /\ ~cannotUpgrade
              /\ helper' = [helper EXCEPT ![h].version = version, ![h].pc =
                     IF version = NewVersion THEN "onOpen" ELSE IF obsolete THEN "beforeDelete" ELSE "begin"]
              /\ UNCHANGED diskVars
    /\ UNCHANGED <<managed, crashes>>

OnBeforeDelete(h) ==
    /\ At(h, "beforeDelete")
    /\ Close({Db(h)})
    /\ Goto(h, "delete")
    /\ UNCHANGED <<managed, crashes>>

(* Then the method calls itself. *)
DeleteDatabase_FileKept(h) ==
    /\ At(h, "delete")
    /\ helper' = [helper EXCEPT ![h] = Entered(h, helper[h].writable)]
    /\ UNCHANGED <<diskVars, managed, crashes>>

DeleteDatabase(h) ==
    /\ At(h, "delete") /\ path # None
    /\ Disk(None, files, databases)
    /\ helper' = [helper EXCEPT ![h] = Entered(h, helper[h].writable)]
    /\ UNCHANGED <<managed, crashes>>

BeginTransaction(h) ==
    /\ At(h, "begin") /\ IsOpen(Db(h)) /\ ~Locked(FileOf(Db(h)))
    /\ databases' = [databases EXCEPT ![Db(h)].transaction = files[FileOf(Db(h))]]
    /\ Goto(h, "callback")
    /\ UNCHANGED <<path, files, managed, crashes>>

(* onCreate(), onUpgrade() or onDowngrade() *)
Callback(h) ==
    /\ At(h, "callback")
    /\ databases' = [databases EXCEPT ![Db(h)].transaction.made =
           Append(@, [from |-> helper[h].version, to |-> NewVersion])]
    /\ Goto(h, "setVersion")
    /\ UNCHANGED <<path, files, managed, crashes>>

SetVersion(h) ==
    /\ At(h, "setVersion")
    /\ databases' = [databases EXCEPT ![Db(h)].transaction.version = NewVersion]
    /\ Goto(h, "endTransaction")
    /\ UNCHANGED <<path, files, managed, crashes>>

EndTransaction(h) ==
    /\ At(h, "endTransaction")
    /\ files' = [files EXCEPT ![FileOf(Db(h))] = databases[Db(h)].transaction]
    /\ databases' = [databases EXCEPT ![Db(h)].transaction = None]
    /\ Goto(h, "onOpen")
    /\ UNCHANGED <<path, managed, crashes>>

OnOpen(h) ==
    /\ At(h, "onOpen")
    /\ helper' = [helper EXCEPT ![h] =
           [@ EXCEPT !.mDatabase = Db(h), !.db = None, !.pc = "idle", !.mIsInitializing = FALSE,
                     !.writable = FALSE, !.version = 0]]
    /\ UNCHANGED <<diskVars, managed, crashes>>

(* An exception: the file cannot be opened, is busy or cannot be deleted,   *)
(* or a callback throws.                                                    *)
Throw(h) ==
    /\ ~At(h, "idle")
    /\ Finally(h)
    /\ UNCHANGED <<managed, crashes>>

-----------------------------------------------------------------------------
(* The other methods of the helper, and the user of its database.          *)

CloseHelper(h) ==
    /\ At(h, "idle") /\ IsOpen(helper[h].mDatabase)
    /\ Close({helper[h].mDatabase})
    /\ helper' = [helper EXCEPT ![h].mDatabase = None]
    /\ UNCHANGED <<managed, crashes>>

(* Another thread closes the database while the helper keeps it; what that  *)
(* does to a transaction is in SQLiteSession.                               *)
UserCloses(h) ==
    /\ IsOpen(helper[h].mDatabase) /\ databases[helper[h].mDatabase].transaction = None
    /\ Close({helper[h].mDatabase})
    /\ UNCHANGED <<helper, managed, crashes>>

-----------------------------------------------------------------------------
(* LetosDbService.                                                         *)

(* getDb() of a query; the queries change neither version nor tables. *)
Exec(s) ==
    /\ ~IsOpen(managed[s])
    /\ OpenOrCreate(NewDatabase(s))
    /\ managed' = [managed EXCEPT ![s] = NewDatabase(s)]
    /\ UNCHANGED <<helper, crashes>>

(* The file loses its name and whoever has it open keeps it. *)
DeleteDb(s) ==
    /\ path # None
    /\ Disk(None, files, databases)
    /\ UNCHANGED <<helper, managed, crashes>>

ReleaseAll(s) ==
    /\ IsOpen(managed[s])
    /\ Close({managed[s]})
    /\ managed' = [managed EXCEPT ![s] = None]
    /\ UNCHANGED <<helper, crashes>>

-----------------------------------------------------------------------------
(* SQLite rolls back what a process that ends leaves behind. *)
ProcessCrash(P) ==
    LET lost == (UNION {{helper[h].mDatabase, helper[h].db} : h \in P \cap Helpers})
                    \cup {managed[s] : s \in P \cap Services}
    IN  /\ crashes < MaxCrashes
        /\ crashes' = crashes + 1
        /\ Close(lost)
        /\ helper' = [h \in Helpers |-> IF h \in P THEN NewHelper ELSE helper[h]]
        /\ managed' = [s \in Services |-> IF s \in P THEN None ELSE managed[s]]

(* What a call does once it has begun. *)
Step(h) ==
    \/ ReopenReadWrite(h) \/ OpenOrCreateDatabase(h) \/ OpenFails(h) \/ OpenReadOnly(h)
    \/ GetVersion(h) \/ OnBeforeDelete(h) \/ DeleteDatabase(h)
    \/ BeginTransaction(h) \/ Callback(h) \/ SetVersion(h) \/ EndTransaction(h) \/ OnOpen(h)
    \/ Throw(h)

Next ==
    \/ \E h \in Helpers :
        \/ Step(h) \/ CloseHelper(h) \/ UserCloses(h)
        \/ \E writable \in {TRUE, h \notin Readers} : GetDatabase(h, writable) \/ GetDatabaseRecursively(h, writable)
    \/ \E s \in Services : Exec(s) \/ DeleteDb(s) \/ ReleaseAll(s)
    \/ \E P \in Processes : ProcessCrash(P)

Spec == Init /\ [][Next]_vars

(* A thread that is in a call goes on; a lock that is not given up in time  *)
(* makes it throw (BUSY_TIMEOUT_MS).                                        *)
FairSpec == Spec /\ \A h \in Helpers : WF_vars(Step(h))

-----------------------------------------------------------------------------
(* Properties.                                                             *)

(* A database that a call has opened is kept, or closed by the end of the   *)
(* call, whichever callback throws and at whatever depth: nothing stays     *)
(* open that nobody can close.                                              *)
NothingLeftOpen == DOMAIN databases \subseteq Referenced

(* The tables and the version of a file change together: whoever throws or  *)
(* ends in between, a file never has the tables of one version and the      *)
(* number of another.                                                       *)
MigratedAtomically ==
    \A f \in DOMAIN files :
        LET made == files[f].made
        IN  files[f].version = IF made = <<>> THEN 0 ELSE made[Len(made)].to

(* A database that is handed out has the version of the helper, also if     *)
(* the file was deleted and made anew between its opening for reading and   *)
(* its opening for writing.                                                 *)
OpenedIsCurrent ==
    \A h \in Helpers : At(h, "onOpen") /\ IsOpen(Db(h)) =>
        /\ files[FileOf(Db(h))].version = NewVersion
        /\ helper[h].writable => ~databases[Db(h)].readOnly

(* A call ends, with a database or an exception, whatever other processes   *)
(* lock, delete or create meanwhile.                                        *)
EveryCallReturns == \A h \in Helpers : ~At(h, "idle") ~> At(h, "idle")
=============================================================================

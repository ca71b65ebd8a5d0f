--------------------------- MODULE AtomicDatabase ---------------------------
(***************************************************************************)
(* What a database file promises to the connections that share it.  A      *)
(* transaction sees one content of the database from beginning to end.     *)
(* One connection at a time writes; what it wrote becomes the content of   *)
(* the database at once, when it commits, or never.  The end of a process  *)
(* ends its transactions and changes nothing else; a power failure may     *)
(* also take back the commit made last, as a whole.                        *)
(***************************************************************************)
EXTENDS Naturals

CONSTANTS
    Conns,      \* the connections
    Pages,      \* the pages of the file
    Nobody,     \* no connection
    NoView      \* the view of a connection without a transaction

VARIABLES
    db,         \* the committed content: a number for every page
    previous,   \* the content that a power failure may go back to
    view,       \* the content each connection sees
    writer      \* the connection that has a write transaction

vars == <<db, previous, view, writer>>

Content == [Pages -> Nat]

Init ==
    /\ db \in Content
    /\ previous = db
    /\ view = [c \in Conns |-> NoView]
    /\ writer = Nobody

BeginRead(c) ==
    /\ view[c] = NoView
    /\ view' = [view EXCEPT ![c] = db]
    /\ UNCHANGED <<db, previous, writer>>

EndRead(c) ==
    /\ view[c] # NoView /\ writer # c
    /\ view' = [view EXCEPT ![c] = NoView]
    /\ UNCHANGED <<db, previous, writer>>

(* Who writes begins with what is committed: no update is lost. *)
BeginWrite(c) ==
    /\ writer = Nobody /\ view[c] = db
    /\ writer' = c
    /\ UNCHANGED <<db, previous, view>>

Write(c) ==
    /\ writer = c /\ view'[c] # NoView
    /\ \E p \in Pages : view' = [view EXCEPT ![c][p] = view'[c][p]]
    /\ UNCHANGED <<db, previous, writer>>

Commit(c) ==
    /\ writer = c
    /\ db' = view[c] /\ previous' = db
    /\ writer' = Nobody
    /\ UNCHANGED view

(* A transaction that ends without a commit: by a rollback, by an error or  *)
(* because it changed nothing.                                              *)
Abandon(c) ==
    /\ writer = c
    /\ writer' = Nobody
    /\ view' \in {[view EXCEPT ![c] = v] : v \in {NoView, db}}
    /\ UNCHANGED <<db, previous>>

(* The last commit has become safe from a power failure. *)
Settle == previous' = db /\ UNCHANGED <<db, view, writer>>

Vanish(S) ==
    /\ view' = [c \in Conns |-> IF c \in S THEN NoView ELSE view[c]]
    /\ writer' = IF writer \in S THEN Nobody ELSE writer

ProcessCrash == \E S \in SUBSET Conns : Vanish(S) /\ UNCHANGED <<db, previous>>

PowerFailure ==
    /\ Vanish(Conns)
    /\ db' \in {db, previous} /\ previous' = db'

Next ==
    \/ \E c \in Conns :
        \/ BeginRead(c) \/ EndRead(c)
        \/ BeginWrite(c) \/ Write(c) \/ Commit(c) \/ Abandon(c)
    \/ Settle \/ ProcessCrash \/ PowerFailure

Spec == Init /\ [][Next]_vars
=============================================================================

------------------------------ MODULE Lending ------------------------------
(***************************************************************************)
(* What a connection pool with one connection promises to the threads that *)
(* share it.  The connection is lent to one thread at a time.  Who finds   *)
(* it lent joins a line, behind everybody of the same or a higher          *)
(* priority, and nobody waits for a connection that is free.  Whoever      *)
(* returns it hands it to the first in the line, so that no newcomer comes *)
(* in between.  A thread may give up waiting.  Once the pool is closed     *)
(* nobody is lent the connection again.                                    *)
(***************************************************************************)
EXTENDS Naturals, SequencesExt

CONSTANTS
    Threads,    \* the threads that share the connection
    Nobody      \* no thread

VARIABLES
    open,       \* has the pool not been closed
    holder,     \* the thread the connection is lent to
    line        \* who waits: records of a thread and its priority

vars == <<open, holder, line>>

Waits(t) == \E i \in DOMAIN line : line[i].thread = t

Init == open = TRUE /\ holder = Nobody /\ line = <<>>

Take(t) ==
    /\ open /\ holder = Nobody /\ line = <<>>
    /\ holder' = t
    /\ UNCHANGED <<open, line>>

Join(t, priority) ==
    /\ open /\ holder \notin {Nobody, t} /\ ~Waits(t)
    /\ \E i \in 1 .. Len(line) + 1 :
        /\ \A j \in 1 .. i - 1 : line[j].priority >= priority
        /\ \A j \in i .. Len(line) : line[j].priority < priority
        /\ line' = InsertAt(line, i, [thread |-> t, priority |-> priority])
    /\ UNCHANGED <<open, holder>>

Return(t) ==
    /\ holder = t
    /\ IF open /\ line # <<>>
       THEN holder' = Head(line).thread /\ line' = Tail(line)
       ELSE holder' = Nobody /\ UNCHANGED line
    /\ UNCHANGED open

GiveUp(t) ==
    /\ \E i \in DOMAIN line : line[i].thread = t /\ line' = RemoveAt(line, i)
    /\ UNCHANGED <<open, holder>>

Close == open' = FALSE /\ UNCHANGED <<holder, line>>

Next ==
    \/ \E t \in Threads :
        \/ Take(t) \/ \E priority \in {0, 1} : Join(t, priority)
        \/ Return(t) \/ GiveUp(t)
    \/ Close

Spec == Init /\ [][Next]_vars
=============================================================================

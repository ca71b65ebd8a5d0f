------------------------- MODULE SQLiteSessionProofs -------------------------
(* Proofs about SQLiteSession, for any number of threads, any depth of      *)
(* nesting and any number of transactions and writes.                       *)
EXTENDS SQLiteSession, FiniteSetTheorems, SequenceTheorems, TLAPS

(* The types of the variables; how far the counts can go is a consequence   *)
(* of the invariants below.                                                 *)
Places == {"idle", "wait", "run", "onBegin", "onEnd", "again", "leave"}

TypeInv ==
    /\ references \in Int /\ closes \in 0 .. MaxCloses /\ poolOpen \in BOOLEAN
    /\ holder \in Threads \cup {None} /\ waiters \in Seq(Threads)
    /\ inTransaction \in BOOLEAN
    /\ useCount \in [Threads -> Int]
    /\ stack \in [Threads -> Seq(Transaction)]
    /\ pc \in [Threads -> Places]
    /\ call \in [Threads -> Call]
    /\ begins \in 0 .. MaxBegins /\ writes \in 0 .. MaxWrites
    /\ work \in [Threads -> SUBSET (0 .. MaxWrites)]
    /\ spoiled \subseteq Threads

(* What each thread uses the connection for: its transaction, and the call  *)
(* it is in.                                                                *)
InCall(t) == pc[t] \in {"wait", "run"} \/ (pc[t] = "onBegin" /\ ~hasTransaction(t))

UseInv(t) ==
    /\ useCount[t] = (IF hasTransaction(t) THEN 1 ELSE 0) + (IF InCall(t) THEN 1 ELSE 0)
    /\ holder = t <=> (useCount[t] > 0 /\ pc[t] # "wait")
    /\ pc[t] \in {"wait", "again"} => ~hasTransaction(t)
    /\ pc[t] = "onEnd" => hasTransaction(t)
    /\ pc[t] \in {"wait", "run"} =>
          call[t].kind = "write" \/ (call[t].kind = "begin" /\ ~hasTransaction(t))

(* The pool's queue holds every waiting thread once, and nobody else as     *)
(* long as the pool is open.                                                *)
QueueInv ==
    /\ \A t \in Threads : pc[t] = "wait" => \E k \in 1 .. Len(waiters) : waiters[k] = t
    /\ poolOpen => \A k \in 1 .. Len(waiters) : pc[waiters[k]] = "wait"
    /\ \A j, k \in 1 .. Len(waiters) : waiters[j] = waiters[k] => j = k

(* One reference for every call in progress and one for the database, less  *)
(* those that close() took; the pool is open as long as there is one.       *)
ReferenceInv ==
    /\ references = Cardinality(Calling) + 1 - closes
    /\ poolOpen <=> references > 0

(* SQLite's transaction is that of the thread that holds the connection. *)
Within(t) == hasTransaction(t) \/ pc[t] = "onBegin"
NativeInv ==
    /\ inTransaction => holder \in Threads /\ Within(holder) /\ pending = work[holder]
    /\ ~inTransaction => pending = {}

(* Writes are numbered as they are made. *)
Made == 0 .. writes - 1
FreshInv ==
    /\ pending \subseteq Made /\ committed \subseteq Made
    /\ promised \subseteq Made /\ denied \subseteq Made
    /\ \A t \in Threads : work[t] \subseteq Made

(* Nothing of a transaction in progress is in the file or denied yet. *)
UndecidedInv == \A t \in Threads : Within(t) => work[t] \cap (committed \cup denied) = {}

(* The failure of any part is remembered at some level of the transaction.  *)
SpoiledInv ==
    \A t \in Threads : t \in spoiled /\ Within(t) =>
        \E k \in 1 .. Len(stack[t]) : stack[t][k].childFailed

ConnectionInv == TypeInv /\ QueueInv /\ \A t \in Threads : UseInv(t)
IInv == ConnectionInv /\ ReferenceInv /\ FreshInv
FileInv == NativeInv /\ UndecidedInv /\ PromisedIsDurable /\ DeniedIsGone
DataInv == FileInv /\ SpoiledInv

-----------------------------------------------------------------------------
(* What the two operations on the connection do.                           *)

LEMMA AcquireEffect ==
  ASSUME TypeInv, QueueInv, NEW t \in Threads, pc[t] # "wait", AcquireConnection(t)
  PROVE  /\ pc' \in [Threads -> Places] /\ pc'[t] \in {"run", "wait", "leave"}
         /\ useCount' = IF pc'[t] = "leave" THEN useCount ELSE [useCount EXCEPT ![t] = @ + 1]
         /\ \A u \in Threads \ {t} : pc'[u] = pc[u]
         /\ holder' \in Threads \cup {None} /\ waiters' \in Seq(Threads)
         /\ useCount[t] > 0 => pc'[t] = "run" /\ holder' = holder
         /\ ~(useCount[t] > 0) =>
               \/ pc'[t] = "run" /\ holder = None /\ holder' = t
               \/ pc'[t] = "wait" /\ holder' = holder
               \/ pc'[t] = "leave" /\ holder' = holder
         /\ (poolOpen' => poolOpen) => QueueInv'
<1>0. /\ waiters \in Seq(Threads) /\ holder \in Threads \cup {None}
      /\ pc \in [Threads -> Places] /\ useCount \in [Threads -> Int]
  BY DEF TypeInv
<1>3. /\ useCount[t] > 0 => /\ pc' = [pc EXCEPT ![t] = "run"] /\ UNCHANGED <<holder, waiters>>
                             /\ useCount' = [useCount EXCEPT ![t] = @ + 1]
      /\ ~(useCount[t] > 0) =>
            \/ /\ holder = None /\ holder' = t /\ pc' = [pc EXCEPT ![t] = "run"] /\ UNCHANGED waiters
               /\ useCount' = [useCount EXCEPT ![t] = @ + 1]
            \/ /\ waiters' = Append(waiters, t) /\ pc' = [pc EXCEPT ![t] = "wait"] /\ UNCHANGED holder
               /\ useCount' = [useCount EXCEPT ![t] = @ + 1] /\ poolOpen
            \/ /\ pc' = [pc EXCEPT ![t] = "leave"] /\ UNCHANGED <<holder, waiters>>
               /\ useCount' = useCount
  BY DEF AcquireConnection, connectionVars
<1>5. CASE /\ pc' = [pc EXCEPT ![t] = "leave"] /\ UNCHANGED <<holder, waiters>> /\ useCount' = useCount
           /\ ~(useCount[t] > 0)
  <2>1. \A u \in Threads : pc'[u] = "wait" <=> pc[u] = "wait"
    BY <1>0, <1>5
  <2>2. (poolOpen' => poolOpen) => QueueInv'
    BY <1>0, <1>5, <2>1 DEF QueueInv
  <2>3. /\ pc' \in [Threads -> Places] /\ pc'[t] = "leave" /\ \A u \in Threads \ {t} : pc'[u] = pc[u]
        /\ waiters' \in Seq(Threads)
    BY <1>0, <1>5 DEF Places
  <2> QED BY <1>0, <1>5, <2>2, <2>3
<1>1. CASE pc' = [pc EXCEPT ![t] = "run"] /\ UNCHANGED waiters
  <2>1. \A u \in Threads : pc'[u] = "wait" <=> pc[u] = "wait"
    BY <1>0, <1>1
  <2>2. (poolOpen' => poolOpen) => QueueInv'
    BY <1>0, <1>1, <2>1 DEF QueueInv
  <2>3. /\ pc' \in [Threads -> Places] /\ pc'[t] = "run" /\ \A u \in Threads \ {t} : pc'[u] = pc[u]
        /\ waiters' \in Seq(Threads)
    BY <1>0, <1>1 DEF Places
  <2>4. /\ useCount' = [useCount EXCEPT ![t] = @ + 1]
        /\ \/ useCount[t] > 0 /\ holder' = holder
           \/ ~(useCount[t] > 0) /\ holder = None /\ holder' = t
    <3>1. pc # [pc EXCEPT ![t] = "wait"] /\ pc' # [pc EXCEPT ![t] = "wait"] /\ pc' # [pc EXCEPT ![t] = "leave"]
      BY <1>0, <2>3
    <3> QED BY <1>3, <3>1
  <2> QED BY <1>0, <2>2, <2>3, <2>4
<1>2. CASE /\ waiters' = Append(waiters, t) /\ pc' = [pc EXCEPT ![t] = "wait"] /\ UNCHANGED holder
           /\ useCount' = [useCount EXCEPT ![t] = @ + 1] /\ poolOpen
           /\ ~(useCount[t] > 0)
  <2>1. /\ waiters' \in Seq(Threads) /\ Len(waiters') = Len(waiters) + 1
        /\ \A k \in 1 .. Len(waiters) : waiters'[k] = waiters[k]
        /\ waiters'[Len(waiters) + 1] = t
    BY <1>0, <1>2
  <2>2. /\ \A u \in Threads : pc'[u] = "wait" <=> (u = t \/ pc[u] = "wait")
        /\ pc' \in [Threads -> Places] /\ \A u \in Threads \ {t} : pc'[u] = pc[u]
    BY <1>0, <1>2 DEF Places
  <2>3. \A k \in 1 .. Len(waiters) : waiters[k] \in Threads /\ waiters[k] # t
    BY <1>0, <1>2 DEF QueueInv
  <2>4. QueueInv'
    <3>1. \A u \in Threads : pc'[u] = "wait" => \E k \in 1 .. Len(waiters') : waiters'[k] = u
      <4> SUFFICES ASSUME NEW u \in Threads, pc'[u] = "wait"
                   PROVE  \E k \in 1 .. Len(waiters') : waiters'[k] = u
        OBVIOUS
      <4>1. CASE u = t
        BY <2>1, <4>1
      <4>2. CASE u # t
        <5>1. PICK k \in 1 .. Len(waiters) : waiters[k] = u
          BY <2>2, <4>2 DEF QueueInv
        <5>2. k \in 1 .. Len(waiters') /\ waiters'[k] = u
          BY <2>1, <5>1
        <5> QED BY <5>2
      <4> QED BY <4>1, <4>2
    <3>2. \A k \in 1 .. Len(waiters') : pc'[waiters'[k]] = "wait"
      <4> SUFFICES ASSUME NEW k \in 1 .. Len(waiters') PROVE pc'[waiters'[k]] = "wait"
        OBVIOUS
      <4>1. CASE k = Len(waiters) + 1
        BY <2>1, <2>2, <4>1
      <4>2. CASE k \in 1 .. Len(waiters)
        <5>1. pc[waiters[k]] = "wait"
          BY <1>2, <4>2 DEF QueueInv
        <5> QED BY <2>1, <2>2, <2>3, <4>2, <5>1
      <4> QED BY <2>1, <4>1, <4>2
    <3>3. \A j, k \in 1 .. Len(waiters') : waiters'[j] = waiters'[k] => j = k
      <4> SUFFICES ASSUME NEW j \in 1 .. Len(waiters'), NEW k \in 1 .. Len(waiters'),
                          waiters'[j] = waiters'[k]
                   PROVE  j = k
        OBVIOUS
      <4>1. CASE j \in 1 .. Len(waiters) /\ k \in 1 .. Len(waiters)
        BY <2>1, <4>1 DEF QueueInv
      <4>2. CASE j = Len(waiters) + 1 \/ k = Len(waiters) + 1
        BY <2>1, <2>3, <4>2
      <4> QED BY <2>1, <4>1, <4>2
    <3> QED BY <3>1, <3>2, <3>3 DEF QueueInv
  <2> QED BY <1>0, <1>2, <2>1, <2>2, <2>4
<1>4. \/ pc' = [pc EXCEPT ![t] = "run"] /\ UNCHANGED waiters
      \/ /\ waiters' = Append(waiters, t) /\ pc' = [pc EXCEPT ![t] = "wait"] /\ UNCHANGED holder
         /\ useCount' = [useCount EXCEPT ![t] = @ + 1] /\ poolOpen
         /\ ~(useCount[t] > 0)
      \/ /\ pc' = [pc EXCEPT ![t] = "leave"] /\ UNCHANGED <<holder, waiters>> /\ useCount' = useCount
         /\ ~(useCount[t] > 0)
  BY <1>3
<1> QED BY <1>1, <1>2, <1>4, <1>5

LEMMA ReleaseEffect ==
  ASSUME TypeInv, QueueInv, NEW t \in Threads, NEW next \in {"leave", "again"}, pc[t] # "wait",
         ReleaseConnection(t, next)
  PROVE  /\ useCount' = [useCount EXCEPT ![t] = @ - 1]
         /\ pc' \in [Threads -> Places] /\ pc'[t] = next
         /\ \A u \in Threads \ {t} :
               pc'[u] = IF ~(useCount[t] > 1) /\ holder' = u THEN "run" ELSE pc[u]
         /\ holder' \in Threads \cup {None} /\ waiters' \in Seq(Threads)
         /\ useCount[t] > 1 => holder' = holder
         /\ ~(useCount[t] > 1) =>
               \/ holder' = None
               \/ holder' \in Threads \ {t} /\ pc[holder'] = "wait"
         /\ (poolOpen' => poolOpen) => QueueInv'
<1>0. /\ waiters \in Seq(Threads) /\ holder \in Threads \cup {None}
      /\ pc \in [Threads -> Places] /\ useCount \in [Threads -> Int]
  BY DEF TypeInv
<1>3. /\ useCount' = [useCount EXCEPT ![t] = @ - 1]
      /\ useCount[t] > 1 => pc' = [pc EXCEPT ![t] = next] /\ UNCHANGED <<holder, waiters>>
      /\ ~(useCount[t] > 1) =>
            \/ holder' = None /\ pc' = [pc EXCEPT ![t] = next] /\ UNCHANGED waiters
            \/ /\ waiters # <<>> /\ poolOpen /\ holder' = Head(waiters) /\ waiters' = Tail(waiters)
               /\ pc' = [pc EXCEPT ![t] = next, ![Head(waiters)] = "run"]
  BY DEF ReleaseConnection, connectionVars
<1>1. CASE /\ pc' = [pc EXCEPT ![t] = next] /\ UNCHANGED waiters
           /\ \/ useCount[t] > 1 /\ holder' = holder
              \/ ~(useCount[t] > 1) /\ holder' = None
  <2>1. \A u \in Threads : pc'[u] = "wait" <=> pc[u] = "wait"
    BY <1>0, <1>1
  <2>2. (poolOpen' => poolOpen) => QueueInv'
    BY <1>0, <1>1, <2>1 DEF QueueInv
  <2>3. \A u \in Threads : holder' = u => u # None
    BY SessionAssumption
  <2>4. pc' \in [Threads -> Places] /\ pc'[t] = next /\ \A u \in Threads \ {t} : pc'[u] = pc[u]
    BY <1>0, <1>1 DEF Places
  <2> QED BY <1>0, <1>1, <1>3, <2>2, <2>3, <2>4
<1>2. CASE /\ ~(useCount[t] > 1) /\ waiters # <<>> /\ poolOpen
           /\ holder' = Head(waiters) /\ waiters' = Tail(waiters)
           /\ pc' = [pc EXCEPT ![t] = next, ![Head(waiters)] = "run"]
  <2>1. /\ Len(waiters) >= 1 /\ Len(waiters) \in Nat /\ Head(waiters) = waiters[1]
        /\ waiters' \in Seq(Threads) /\ Len(waiters') = Len(waiters) - 1
        /\ \A k \in 1 .. Len(waiters') : waiters'[k] = waiters[k + 1]
    BY <1>0, <1>2
  <2>2. waiters[1] \in Threads /\ pc[waiters[1]] = "wait" /\ waiters[1] # t
    BY <1>0, <1>2, <2>1 DEF QueueInv
  <2>3. /\ pc' \in [Threads -> Places] /\ pc'[t] = next
        /\ \A u \in Threads \ {t} : pc'[u] = IF waiters[1] = u THEN "run" ELSE pc[u]
    BY <1>0, <1>2, <2>1, <2>2 DEF Places
  <2>4. QueueInv'
    <3>1. \A k \in 2 .. Len(waiters) : waiters[k] \in Threads /\ waiters[k] # waiters[1] /\ waiters[k] # t
      BY <1>0, <1>2, <2>1 DEF QueueInv
    <3>2. \A u \in Threads : pc'[u] = "wait" => \E k \in 1 .. Len(waiters') : waiters'[k] = u
      <4> SUFFICES ASSUME NEW u \in Threads, pc'[u] = "wait"
                   PROVE  \E k \in 1 .. Len(waiters') : waiters'[k] = u
        OBVIOUS
      <4>1. u # t /\ u # waiters[1] /\ pc[u] = "wait"
        BY <1>0, <2>2, <2>3
      <4>2. PICK k \in 1 .. Len(waiters) : waiters[k] = u
        BY <4>1 DEF QueueInv
      <4>3. k - 1 \in 1 .. Len(waiters') /\ waiters'[k - 1] = u
        BY <2>1, <4>1, <4>2
      <4> QED BY <4>3
    <3>3. \A k \in 1 .. Len(waiters') : pc'[waiters'[k]] = "wait"
      <4> SUFFICES ASSUME NEW k \in 1 .. Len(waiters') PROVE pc'[waiters'[k]] = "wait"
        OBVIOUS
      <4>1. k + 1 \in 2 .. Len(waiters) /\ waiters'[k] = waiters[k + 1]
        BY <2>1
      <4>2. pc[waiters[k + 1]] = "wait"
        BY <1>2, <4>1 DEF QueueInv
      <4> QED BY <2>3, <3>1, <4>1, <4>2
    <3>4. \A j, k \in 1 .. Len(waiters') : waiters'[j] = waiters'[k] => j = k
      <4> SUFFICES ASSUME NEW j \in 1 .. Len(waiters'), NEW k \in 1 .. Len(waiters'),
                          waiters'[j] = waiters'[k]
                   PROVE  j = k
        OBVIOUS
      <4>1. j + 1 \in 1 .. Len(waiters) /\ k + 1 \in 1 .. Len(waiters) /\ waiters[j + 1] = waiters[k + 1]
        BY <2>1
      <4>2. j + 1 = k + 1
        BY <4>1 DEF QueueInv
      <4> QED BY <4>2
    <3> QED BY <3>2, <3>3, <3>4 DEF QueueInv
  <2> QED BY <1>0, <1>2, <1>3, <2>1, <2>2, <2>3, <2>4
<1>4. \/ /\ pc' = [pc EXCEPT ![t] = next] /\ UNCHANGED waiters
         /\ \/ useCount[t] > 1 /\ holder' = holder
            \/ ~(useCount[t] > 1) /\ holder' = None
      \/ /\ ~(useCount[t] > 1) /\ waiters # <<>> /\ poolOpen
         /\ holder' = Head(waiters) /\ waiters' = Tail(waiters)
         /\ pc' = [pc EXCEPT ![t] = next, ![Head(waiters)] = "run"]
  BY <1>3
<1> QED BY <1>1, <1>2, <1>4

-----------------------------------------------------------------------------
(* Sessions and the connection: every step keeps ConnectionInv.  The three  *)
(* lemmas here are about a thread that acquires, that releases, and that    *)
(* leaves the connection alone; every action does one of these.             *)

(* A thread whose part of the state does not change keeps its invariant. *)
LEMMA OthersKeep ==
  ASSUME NEW u \in Threads, UseInv(u), pc'[u] = pc[u], useCount'[u] = useCount[u],
         stack'[u] = stack[u], call'[u] = call[u], holder' = u <=> holder = u
  PROVE  UseInv(u)'
BY DEF UseInv, InCall, hasTransaction

LEMMA AcquireKeeps ==
  ASSUME ConnectionInv, NEW t \in Threads, pc[t] \in {"idle", "again"}, AcquireConnection(t),
         stack' = stack, \A u \in Threads \ {t} : call'[u] = call[u],
         call'[t].kind = "write" \/ (call'[t].kind = "begin" /\ ~hasTransaction(t)),
         poolOpen' => poolOpen
  PROVE  /\ QueueInv' /\ \A u \in Threads : UseInv(u)'
         /\ pc' \in [Threads -> Places] /\ useCount' \in [Threads -> Int]
         /\ holder' \in Threads \cup {None} /\ waiters' \in Seq(Threads)
<1>1. TypeInv /\ QueueInv /\ pc[t] # "wait"
  BY DEF ConnectionInv
<1>2. /\ useCount' = IF pc'[t] = "leave" THEN useCount ELSE [useCount EXCEPT ![t] = @ + 1]
      /\ pc' \in [Threads -> Places] /\ pc'[t] \in {"run", "wait", "leave"}
      /\ \A u \in Threads \ {t} : pc'[u] = pc[u]
      /\ holder' \in Threads \cup {None} /\ waiters' \in Seq(Threads)
      /\ useCount[t] > 0 => pc'[t] = "run" /\ holder' = holder
      /\ ~(useCount[t] > 0) =>
            \/ pc'[t] = "run" /\ holder = None /\ holder' = t
            \/ pc'[t] = "wait" /\ holder' = holder
            \/ pc'[t] = "leave" /\ holder' = holder
      /\ QueueInv'
  BY <1>1, AcquireEffect
<1>3. useCount \in [Threads -> Int] /\ None \notin Threads
  BY <1>1, SessionAssumption DEF TypeInv
<1>4. /\ useCount'[t] = IF pc'[t] = "leave" THEN useCount[t] ELSE useCount[t] + 1
      /\ \A u \in Threads \ {t} : useCount'[u] = useCount[u]
      /\ useCount' \in [Threads -> Int]
  BY <1>2, <1>3
<1>5. UseInv(t)
  BY DEF ConnectionInv
<1>6. UseInv(t)'
  <2>1. CASE hasTransaction(t)
    <3>1. useCount[t] = 1 /\ holder = t
      BY <1>1, <1>5, <2>1 DEF UseInv, InCall
    <3>2. useCount'[t] = 2 /\ holder' = t /\ pc'[t] = "run" /\ hasTransaction(t)'
      BY <1>2, <1>4, <2>1, <3>1 DEF hasTransaction
    <3>3. call'[t].kind = "write"
      BY <2>1
    <3> QED BY <3>2, <3>3 DEF UseInv, InCall
  <2>2. CASE ~hasTransaction(t)
    <3>1. useCount[t] = 0 /\ holder # t
      BY <1>1, <1>5, <2>2 DEF UseInv, InCall
    <3>2. /\ ~hasTransaction(t)'
          /\ \/ pc'[t] = "run" /\ holder' = t /\ useCount'[t] = 1
             \/ pc'[t] = "wait" /\ holder' # t /\ useCount'[t] = 1
             \/ pc'[t] = "leave" /\ holder' # t /\ useCount'[t] = 0
      BY <1>2, <1>4, <2>2, <3>1 DEF hasTransaction
    <3> QED BY <3>2 DEF UseInv, InCall
  <2> QED BY <2>1, <2>2
<1>7. ASSUME NEW u \in Threads \ {t} PROVE UseInv(u)'
  <2>1. holder' = u <=> holder = u
    BY <1>2, <1>3
  <2> QED BY <1>2, <1>4, <2>1, OthersKeep DEF ConnectionInv
<1> QED BY <1>2, <1>3, <1>4, <1>6, <1>7

LEMMA ReleaseKeeps ==
  ASSUME ConnectionInv, NEW t \in Threads, NEW next \in {"leave", "again"},
         pc[t] \in {"run", "onBegin", "onEnd"}, ReleaseConnection(t, next),
         call' = call, \A u \in Threads \ {t} : stack'[u] = stack[u],
         useCount[t] \in {1, 2}, stack'[t] # <<>> <=> useCount[t] = 2,
         next = "again" => useCount[t] = 1, poolOpen' => poolOpen
  PROVE  /\ QueueInv' /\ \A u \in Threads : UseInv(u)'
         /\ pc' \in [Threads -> Places] /\ useCount' \in [Threads -> Int]
         /\ holder' \in Threads \cup {None} /\ waiters' \in Seq(Threads)
<1>1. TypeInv /\ QueueInv /\ pc[t] # "wait"
  BY DEF ConnectionInv
<1>2. /\ useCount' = [useCount EXCEPT ![t] = @ - 1]
      /\ pc' \in [Threads -> Places] /\ pc'[t] = next
      /\ \A u \in Threads \ {t} :
            pc'[u] = IF ~(useCount[t] > 1) /\ holder' = u THEN "run" ELSE pc[u]
      /\ holder' \in Threads \cup {None} /\ waiters' \in Seq(Threads)
      /\ useCount[t] > 1 => holder' = holder
      /\ ~(useCount[t] > 1) =>
            \/ holder' = None
            \/ holder' \in Threads \ {t} /\ pc[holder'] = "wait"
      /\ QueueInv'
  BY <1>1, ReleaseEffect
<1>3. useCount \in [Threads -> Int] /\ None \notin Threads
  BY <1>1, SessionAssumption DEF TypeInv
<1>4. useCount'[t] = useCount[t] - 1 /\ \A u \in Threads \ {t} : useCount'[u] = useCount[u]
  BY <1>2, <1>3
<1>5. holder = t
  BY DEF ConnectionInv, UseInv
<1>6. UseInv(t)'
  <2>1. CASE useCount[t] = 2
    <3>1. useCount'[t] = 1 /\ hasTransaction(t)' /\ holder' = t /\ pc'[t] = "leave"
      BY <1>2, <1>4, <1>5, <2>1 DEF hasTransaction
    <3> QED BY <3>1 DEF UseInv, InCall
  <2>2. CASE useCount[t] = 1
    <3>1. useCount'[t] = 0 /\ ~hasTransaction(t)' /\ holder' # t /\ pc'[t] \in {"leave", "again"}
      BY <1>2, <1>3, <1>4, <2>2 DEF hasTransaction
    <3> QED BY <3>1 DEF UseInv, InCall
  <2> QED BY <2>1, <2>2
<1>7. ASSUME NEW u \in Threads \ {t} PROVE UseInv(u)'
  <2>0. UseInv(u)
    BY DEF ConnectionInv
  <2>1. CASE pc'[u] = pc[u] /\ (holder' = u <=> holder = u)
    BY <1>4, <2>0, <2>1, OthersKeep
  <2>2. CASE pc[u] = "wait" /\ pc'[u] = "run" /\ holder' = u
    <3>1. /\ ~hasTransaction(u) /\ useCount[u] = 1
          /\ call[u].kind = "write" \/ call[u].kind = "begin"
      BY <2>0, <2>2 DEF UseInv, InCall
    <3>2. ~hasTransaction(u)' /\ useCount'[u] = 1 /\ call'[u] = call[u]
      BY <1>4, <3>1 DEF hasTransaction
    <3> QED BY <2>2, <3>1, <3>2 DEF UseInv, InCall
  <2>3. \/ pc'[u] = pc[u] /\ (holder' = u <=> holder = u)
        \/ pc[u] = "wait" /\ pc'[u] = "run" /\ holder' = u
    BY <1>2, <1>3, <1>5
  <2> QED BY <2>1, <2>2, <2>3
<1> QED BY <1>2, <1>3, <1>6, <1>7

LEMMA RestKeeps ==
  ASSUME ConnectionInv, NEW t \in Threads, NEW next \in Places, pc[t] # "wait", next # "wait",
         pc' = [pc EXCEPT ![t] = next], UNCHANGED <<connectionVars, useCount>>,
         \A u \in Threads \ {t} : stack'[u] = stack[u] /\ call'[u] = call[u],
         UseInv(t)', poolOpen' => poolOpen
  PROVE  QueueInv' /\ \A u \in Threads : UseInv(u)'
<1>1. holder' = holder /\ waiters' = waiters /\ useCount' = useCount
  BY DEF connectionVars
<1>2. pc \in [Threads -> Places] /\ waiters \in Seq(Threads)
  BY DEF ConnectionInv, TypeInv
<1>3. \A u \in Threads : pc'[u] = "wait" <=> pc[u] = "wait"
  BY <1>2
<1>4. QueueInv'
  BY <1>1, <1>2, <1>3 DEF QueueInv, ConnectionInv
<1>5. ASSUME NEW u \in Threads \ {t} PROVE UseInv(u)'
  BY <1>1, <1>2, OthersKeep DEF ConnectionInv
<1> QED BY <1>4, <1>5

-----------------------------------------------------------------------------
(* The actions, one by one. *)

LEMMA CallWriteKeeps ==
  ASSUME ConnectionInv, NEW t \in Threads, CallWrite(t)
  PROVE  ConnectionInv'
<1>1. /\ pc[t] = "idle" /\ AcquireConnection(t) /\ stack' = stack
      /\ call' = [call EXCEPT ![t] = [kind |-> "write", listener |-> FALSE]]
  BY DEF CallWrite, Free
<1>2. call \in [Threads -> Call]
  BY DEF ConnectionInv, TypeInv
<1>3. /\ call' \in [Threads -> Call] /\ call'[t].kind = "write"
      /\ \A u \in Threads \ {t} : call'[u] = call[u]
  BY <1>1, <1>2 DEF Call
<1>4. /\ QueueInv' /\ \A u \in Threads : UseInv(u)'
      /\ pc' \in [Threads -> Places] /\ useCount' \in [Threads -> Int]
      /\ holder' \in Threads \cup {None} /\ waiters' \in Seq(Threads)
  BY <1>1, <1>3, AcquireKeeps DEF CallWrite, AcquireReference
<1>5. TypeInv'
  BY <1>1, <1>3, <1>4 DEF ConnectionInv, TypeInv, CallWrite, AcquireReference, nativeVars, ghostVars
<1> QED BY <1>4, <1>5 DEF ConnectionInv

LEMMA BeginAgainKeeps ==
  ASSUME ConnectionInv, NEW t \in Threads, BeginAgain(t)
  PROVE  ConnectionInv'
<1>1. /\ pc[t] = "again" /\ AcquireConnection(t) /\ stack' = stack
      /\ call' = [call EXCEPT ![t].kind = "begin"]
  BY DEF BeginAgain
<1>2. call \in [Threads -> Call] /\ ~hasTransaction(t)
  BY <1>1 DEF ConnectionInv, TypeInv, UseInv
<1>3. /\ call' \in [Threads -> Call] /\ call'[t].kind = "begin"
      /\ \A u \in Threads \ {t} : call'[u] = call[u]
  BY <1>1, <1>2 DEF Call
<1>4. /\ QueueInv' /\ \A u \in Threads : UseInv(u)'
      /\ pc' \in [Threads -> Places] /\ useCount' \in [Threads -> Int]
      /\ holder' \in Threads \cup {None} /\ waiters' \in Seq(Threads)
  BY <1>1, <1>2, <1>3, AcquireKeeps DEF BeginAgain, databaseVars
<1>5. TypeInv'
  BY <1>1, <1>3, <1>4 DEF ConnectionInv, TypeInv, BeginAgain, databaseVars, nativeVars, ghostVars
<1> QED BY <1>4, <1>5 DEF ConnectionInv

LEMMA CallBeginKeeps ==
  ASSUME ConnectionInv, NEW t \in Threads, NEW listener \in BOOLEAN, CallBegin(t, listener)
  PROVE  ConnectionInv'
<1>1. /\ pc[t] = "idle" /\ stack' = stack
      /\ call' = [call EXCEPT ![t] = [kind |-> "begin", listener |-> listener]]
      /\ begins < MaxBegins /\ begins' = begins + 1
  BY DEF CallBegin, Free
<1>2. /\ call \in [Threads -> Call] /\ pc \in [Threads -> Places] /\ begins \in 0 .. MaxBegins
      /\ useCount \in [Threads -> Int] /\ UseInv(t)
  BY DEF ConnectionInv, TypeInv
<1>3. /\ call' \in [Threads -> Call] /\ call'[t].kind = "begin"
      /\ \A u \in Threads \ {t} : call'[u] = call[u]
  BY <1>1, <1>2 DEF Call
<1>4. begins' \in 0 .. MaxBegins
  BY <1>1, <1>2, SessionAssumption
<1>5. /\ QueueInv' /\ \A u \in Threads : UseInv(u)'
      /\ pc' \in [Threads -> Places] /\ useCount' \in [Threads -> Int]
      /\ holder' \in Threads \cup {None} /\ waiters' \in Seq(Threads)
  <2>1. CASE hasTransaction(t)
    <3>1. pc' = [pc EXCEPT ![t] = "onBegin"] /\ UNCHANGED <<connectionVars, useCount>>
      BY <2>1 DEF CallBegin
    <3>2. UseInv(t)'
      <4>1. useCount[t] = 1 /\ holder = t
        BY <1>1, <1>2, <2>1 DEF UseInv, InCall
      <4>2. useCount'[t] = 1 /\ holder' = t /\ pc'[t] = "onBegin" /\ hasTransaction(t)'
        BY <1>1, <1>2, <2>1, <3>1, <4>1 DEF connectionVars, hasTransaction
      <4> QED BY <4>2 DEF UseInv, InCall
    <3>3. QueueInv' /\ \A u \in Threads : UseInv(u)'
      BY <1>1, <1>3, <3>1, <3>2, RestKeeps DEF Places, CallBegin, AcquireReference
    <3> QED BY <1>2, <3>1, <3>3 DEF ConnectionInv, TypeInv, connectionVars, Places
  <2>2. CASE ~hasTransaction(t)
    <3>1. AcquireConnection(t)
      BY <2>2 DEF CallBegin
    <3> QED BY <1>1, <1>3, <2>2, <3>1, AcquireKeeps DEF CallBegin, AcquireReference
  <2> QED BY <2>1, <2>2
<1>6. TypeInv'
  BY <1>1, <1>3, <1>4, <1>5 DEF ConnectionInv, TypeInv, CallBegin, AcquireReference, nativeVars, ghostVars
<1> QED BY <1>5, <1>6 DEF ConnectionInv

(* What Apply and RecordWork keep of the types. *)
LEMMA ApplyTypes ==
  ASSUME TypeInv, NEW t \in Threads, Apply(t), RecordWork(t)
  PROVE  /\ writes' \in 0 .. MaxWrites /\ inTransaction' \in BOOLEAN
         /\ work' \in [Threads -> SUBSET (0 .. MaxWrites)]
<1>1. writes \in 0 .. MaxWrites /\ writes < MaxWrites /\ writes' = writes + 1 /\ MaxWrites \in Nat
  BY SessionAssumption DEF Apply, TypeInv
<1>2. writes' \in 0 .. MaxWrites
  BY <1>1
<1>3. work \in [Threads -> SUBSET (0 .. MaxWrites)]
  BY DEF TypeInv
<1>4. work' = work \/ work' = [work EXCEPT ![t] = @ \cup {writes}]
  BY DEF RecordWork
<1>5. work' \in [Threads -> SUBSET (0 .. MaxWrites)]
  BY <1>1, <1>3, <1>4
<1>6. inTransaction' \in BOOLEAN
  BY DEF Apply, TypeInv
<1> QED BY <1>2, <1>5, <1>6

(* A call that runs with the connection: how often its session uses it. *)
LEMMA RunningUse ==
  ASSUME ConnectionInv, NEW t \in Threads, pc[t] = "run"
  PROVE  /\ useCount[t] \in {1, 2}
         /\ hasTransaction(t) <=> useCount[t] = 2
         /\ call[t].kind = "begin" => useCount[t] = 1
<1>1. UseInv(t)
  BY DEF ConnectionInv
<1> QED BY <1>1 DEF UseInv, InCall

LEMMA WriteKeeps ==
  ASSUME ConnectionInv, NEW t \in Threads, Write(t) \/ WriteRollsBack(t)
  PROVE  ConnectionInv'
<1>1. /\ pc[t] = "run" /\ call[t].kind = "write" /\ ReleaseConnection(t, "leave")
      /\ stack' = stack /\ call' = call /\ begins' = begins /\ spoiled' = spoiled
      /\ references' = references /\ closes' = closes /\ poolOpen' = poolOpen
  BY DEF Write, WriteRollsBack, databaseVars, ghostVars
<1>2. /\ useCount[t] \in {1, 2}
      /\ hasTransaction(t) <=> useCount[t] = 2
  BY <1>1, RunningUse
<1>3. /\ stack'[t] # <<>> <=> useCount[t] = 2
      /\ \A u \in Threads \ {t} : stack'[u] = stack[u]
  BY <1>1, <1>2 DEF hasTransaction
<1>4. /\ QueueInv' /\ \A u \in Threads : UseInv(u)'
      /\ pc' \in [Threads -> Places] /\ useCount' \in [Threads -> Int]
      /\ holder' \in Threads \cup {None} /\ waiters' \in Seq(Threads)
  <2>1. "leave" \in {"leave", "again"} /\ pc[t] \in {"run", "onBegin", "onEnd"}
    BY <1>1
  <2> QED BY <1>1, <1>2, <1>3, <2>1, ReleaseKeeps
<1>5. /\ writes' \in 0 .. MaxWrites /\ inTransaction' \in BOOLEAN
      /\ work' \in [Threads -> SUBSET (0 .. MaxWrites)]
  <2>1. CASE Apply(t) /\ RecordWork(t)
    BY <2>1, ApplyTypes DEF ConnectionInv
  <2>2. CASE writes' = writes /\ work' = work /\ inTransaction' \in {inTransaction, FALSE}
    BY <2>2 DEF ConnectionInv, TypeInv
  <2> QED BY <2>1, <2>2 DEF Write, WriteRollsBack, nativeVars, ghostVars
<1>6. TypeInv'
  BY <1>1, <1>4, <1>5 DEF ConnectionInv, TypeInv
<1> QED BY <1>4, <1>6 DEF ConnectionInv

LEMMA ListenerWritesKeeps ==
  ASSUME ConnectionInv, NEW t \in Threads, ListenerWrites(t)
  PROVE  ConnectionInv'
<1>1. /\ references' = references /\ closes' = closes /\ poolOpen' = poolOpen
      /\ holder' = holder /\ waiters' = waiters /\ useCount' = useCount /\ stack' = stack
      /\ pc' = pc /\ call' = call /\ begins' = begins /\ spoiled' = spoiled
  BY DEF ListenerWrites, databaseVars, connectionVars
<1>2. /\ writes' \in 0 .. MaxWrites /\ inTransaction' \in BOOLEAN
      /\ work' \in [Threads -> SUBSET (0 .. MaxWrites)]
  BY ApplyTypes DEF ListenerWrites, ConnectionInv
<1>3. TypeInv'
  BY <1>1, <1>2 DEF ConnectionInv, TypeInv
<1>4. QueueInv' /\ \A u \in Threads : UseInv(u)'
  BY <1>1 DEF ConnectionInv, QueueInv, UseInv, InCall, hasTransaction
<1> QED BY <1>3, <1>4 DEF ConnectionInv

(* Close and Leave touch neither the connection nor a session. *)
LEMMA CloseLeaveKeeps ==
  ASSUME ConnectionInv, NEW t \in Threads, Close(t) \/ Leave(t)
  PROVE  ConnectionInv'
<1>1. /\ UNCHANGED <<connectionVars, nativeVars, useCount, stack, call, begins, writes, ghostVars>>
      /\ references' = references - 1 /\ poolOpen' \in BOOLEAN /\ closes' \in 0 .. MaxCloses
      /\ poolOpen' => poolOpen
  <2>1. /\ UNCHANGED <<connectionVars, nativeVars, useCount, stack, call, begins, writes, ghostVars>>
        /\ ReleaseReference
    BY DEF Close, Leave
  <2>2. closes' \in 0 .. MaxCloses
    <3>1. closes \in 0 .. MaxCloses /\ MaxCloses \in Nat
      BY SessionAssumption DEF ConnectionInv, TypeInv
    <3>2. closes' = closes \/ (closes < MaxCloses /\ closes' = closes + 1)
      BY DEF Close, Leave
    <3> QED BY <3>1, <3>2
  <2>3. poolOpen' \in BOOLEAN /\ (poolOpen' => poolOpen)
    BY <2>1 DEF ReleaseReference, ConnectionInv, TypeInv
  <2> QED BY <2>1, <2>2, <2>3 DEF ReleaseReference
<1>2. CASE pc' = pc
  <2>1. TypeInv'
    BY <1>1, <1>2 DEF ConnectionInv, TypeInv, connectionVars, nativeVars, ghostVars
  <2>2. QueueInv' /\ \A u \in Threads : UseInv(u)'
    BY <1>1, <1>2 DEF ConnectionInv, QueueInv, UseInv, InCall, hasTransaction, connectionVars
  <2> QED BY <2>1, <2>2 DEF ConnectionInv
<1>3. CASE pc[t] = "leave" /\ pc' = [pc EXCEPT ![t] = "idle"]
  <2>1. pc' \in [Threads -> Places] /\ pc'[t] = "idle"
    BY <1>3 DEF ConnectionInv, TypeInv, Places
  <2>2. TypeInv'
    BY <1>1, <2>1 DEF ConnectionInv, TypeInv, connectionVars, nativeVars, ghostVars
  <2>3. UseInv(t)'
    BY <1>1, <1>3, <2>1 DEF ConnectionInv, UseInv, InCall, hasTransaction, connectionVars
  <2>4. QueueInv' /\ \A u \in Threads : UseInv(u)'
    BY <1>1, <1>3, <2>3, RestKeeps DEF Places
  <2> QED BY <2>2, <2>4 DEF ConnectionInv
<1>4. pc' = pc \/ (pc[t] = "leave" /\ pc' = [pc EXCEPT ![t] = "idle"])
  BY DEF Close, Leave
<1> QED BY <1>2, <1>3, <1>4

(* Whoever stops waiting for a closed pool had neither the connection nor a  *)
(* transaction.                                                             *)
LEMMA WaitFailsKeeps ==
  ASSUME ConnectionInv, NEW t \in Threads, WaitFails(t)
  PROVE  ConnectionInv'
<1>1. /\ pc[t] = "wait" /\ ~poolOpen /\ pc' = [pc EXCEPT ![t] = "leave"]
      /\ useCount' = [useCount EXCEPT ![t] = @ - 1]
      /\ UNCHANGED <<databaseVars, connectionVars, nativeVars, stack, call, begins, writes, ghostVars>>
  BY DEF WaitFails
<1>2. pc \in [Threads -> Places] /\ useCount \in [Threads -> Int] /\ UseInv(t) /\ QueueInv
  BY DEF ConnectionInv, TypeInv
<1>3. /\ pc' \in [Threads -> Places] /\ pc'[t] = "leave" /\ \A u \in Threads \ {t} : pc'[u] = pc[u]
      /\ useCount' \in [Threads -> Int] /\ useCount'[t] = useCount[t] - 1
      /\ \A u \in Threads \ {t} : useCount'[u] = useCount[u]
  BY <1>1, <1>2 DEF Places
<1>4. /\ waiters' = waiters /\ holder' = holder /\ poolOpen' = poolOpen /\ stack' = stack
      /\ call' = call
  BY <1>1 DEF databaseVars, connectionVars
<1>5. TypeInv'
  BY <1>1, <1>3 DEF ConnectionInv, TypeInv, databaseVars, connectionVars, nativeVars, ghostVars
<1>6. QueueInv'
  BY <1>1, <1>2, <1>3, <1>4 DEF QueueInv
<1>7. UseInv(t)'
  <2>1. ~hasTransaction(t) /\ useCount[t] = 1 /\ holder # t
    BY <1>1, <1>2 DEF UseInv, InCall
  <2> QED BY <1>3, <1>4, <2>1 DEF UseInv, InCall, hasTransaction
<1>8. ASSUME NEW u \in Threads \ {t} PROVE UseInv(u)'
  BY <1>3, <1>4, OthersKeep DEF ConnectionInv
<1> QED BY <1>5, <1>6, <1>7, <1>8 DEF ConnectionInv

LEMMA BeginFailsKeeps ==
  ASSUME ConnectionInv, NEW t \in Threads, BeginFails(t)
  PROVE  ConnectionInv'
<1>1. /\ pc[t] = "run" /\ call[t].kind = "begin" /\ ReleaseConnection(t, "leave")
      /\ UNCHANGED <<databaseVars, nativeVars, stack, call, begins, writes, ghostVars>>
  BY DEF BeginFails
<1>2. /\ useCount[t] \in {1, 2}
      /\ hasTransaction(t) <=> useCount[t] = 2
  BY <1>1, RunningUse
<1>3. /\ stack'[t] # <<>> <=> useCount[t] = 2
      /\ \A u \in Threads \ {t} : stack'[u] = stack[u]
  BY <1>1, <1>2 DEF hasTransaction
<1>4. "leave" \in {"leave", "again"} /\ pc[t] \in {"run", "onBegin", "onEnd"} /\ call' = call
  BY <1>1
<1>5. /\ QueueInv' /\ \A u \in Threads : UseInv(u)'
      /\ pc' \in [Threads -> Places] /\ useCount' \in [Threads -> Int]
      /\ holder' \in Threads \cup {None} /\ waiters' \in Seq(Threads)
  BY <1>1, <1>2, <1>3, <1>4, ReleaseKeeps DEF databaseVars
<1>6. TypeInv'
  BY <1>1, <1>5 DEF ConnectionInv, TypeInv, databaseVars, nativeVars, ghostVars
<1> QED BY <1>5, <1>6 DEF ConnectionInv

LEMMA BeginKeeps ==
  ASSUME ConnectionInv, NEW t \in Threads, Begin(t)
  PROVE  ConnectionInv'
<1>1. /\ pc[t] = "run" /\ call[t].kind = "begin" /\ pc' = [pc EXCEPT ![t] = "onBegin"]
      /\ inTransaction' = TRUE /\ work' = [work EXCEPT ![t] = {}] /\ spoiled' = spoiled \ {t}
      /\ UNCHANGED <<databaseVars, connectionVars, useCount, stack, call, begins, writes>>
  BY DEF Begin
<1>2. pc' \in [Threads -> Places] /\ pc'[t] = "onBegin"
  BY <1>1 DEF ConnectionInv, TypeInv, Places
<1>3. work' \in [Threads -> SUBSET (0 .. MaxWrites)]
  BY <1>1 DEF ConnectionInv, TypeInv
<1>4. TypeInv'
  BY <1>1, <1>2, <1>3 DEF ConnectionInv, TypeInv, databaseVars, connectionVars
<1>5. UseInv(t)'
  BY <1>1, <1>2 DEF ConnectionInv, UseInv, InCall, hasTransaction, connectionVars
<1>6. QueueInv' /\ \A u \in Threads : UseInv(u)'
  BY <1>1, <1>5, RestKeeps DEF Places, databaseVars
<1> QED BY <1>4, <1>6 DEF ConnectionInv

(* A transaction is pushed on top of those the thread has. *)
LEMMA PushKeeps ==
  ASSUME ConnectionInv, NEW t \in Threads, Push(t)
  PROVE  ConnectionInv'
<1> DEFINE new == [listener |-> call[t].listener, marked |-> FALSE, childFailed |-> FALSE]
<1>1. /\ pc[t] = "onBegin" /\ pc' = [pc EXCEPT ![t] = "leave"]
      /\ stack' = [stack EXCEPT ![t] = <<new>> \o @]
      /\ UNCHANGED <<databaseVars, connectionVars, nativeVars, useCount, call, begins, writes, ghostVars>>
  BY DEF Push
<1>2. pc' \in [Threads -> Places] /\ pc'[t] = "leave"
  BY <1>1 DEF ConnectionInv, TypeInv, Places
<1>3. new \in Transaction /\ stack[t] \in Seq(Transaction) /\ stack \in [Threads -> Seq(Transaction)]
  BY DEF ConnectionInv, TypeInv, Call, Transaction
<1> HIDE DEF new
<1>4. <<new>> \o stack[t] \in Seq(Transaction) /\ <<new>> \o stack[t] # <<>>
  BY <1>3
<1>5. stack' \in [Threads -> Seq(Transaction)] /\ stack'[t] # <<>>
  BY <1>1, <1>3, <1>4
<1>6. TypeInv'
  BY <1>1, <1>2, <1>5 DEF ConnectionInv, TypeInv, databaseVars, connectionVars, nativeVars, ghostVars
<1>7. UseInv(t)'
  <2>1. UseInv(t) /\ useCount[t] = 1
    BY <1>1 DEF ConnectionInv, UseInv, InCall
  <2> QED BY <1>1, <1>2, <1>5, <2>1 DEF UseInv, InCall, hasTransaction, connectionVars
<1>8. \A u \in Threads \ {t} : stack'[u] = stack[u] /\ call'[u] = call[u]
  BY <1>1, <1>3
<1>9. QueueInv' /\ \A u \in Threads : UseInv(u)'
  BY <1>1, <1>7, <1>8, RestKeeps DEF Places, databaseVars
<1> QED BY <1>6, <1>9 DEF ConnectionInv

LEMMA OnBeginThrowsKeeps ==
  ASSUME ConnectionInv, NEW t \in Threads, OnBeginThrows(t)
  PROVE  ConnectionInv'
<1>1. /\ pc[t] = "onBegin"
      /\ UNCHANGED <<databaseVars, stack, call, begins, writes, work, spoiled, promised>>
  BY DEF OnBeginThrows
<1>2. UseInv(t) /\ useCount[t] = 1
  BY <1>1 DEF ConnectionInv, UseInv, InCall
<1>3. CASE hasTransaction(t)
  <2>1. pc' = [pc EXCEPT ![t] = "leave"] /\ UNCHANGED <<connectionVars, nativeVars, useCount>>
    BY <1>3 DEF OnBeginThrows
  <2>2. pc' \in [Threads -> Places] /\ pc'[t] = "leave"
    BY <2>1 DEF ConnectionInv, TypeInv, Places
  <2>3. TypeInv'
    BY <1>1, <2>1, <2>2 DEF ConnectionInv, TypeInv, databaseVars, connectionVars, nativeVars
  <2>4. UseInv(t)'
    BY <1>1, <1>2, <1>3, <2>1, <2>2 DEF UseInv, InCall, hasTransaction, connectionVars
  <2>5. QueueInv' /\ \A u \in Threads : UseInv(u)'
    BY <1>1, <2>1, <2>4, RestKeeps DEF Places, databaseVars
  <2> QED BY <2>3, <2>5 DEF ConnectionInv
<1>4. CASE ~hasTransaction(t)
  <2>1. ReleaseConnection(t, "leave") /\ inTransaction' = FALSE
    BY <1>4 DEF OnBeginThrows, Undo
  <2>2. /\ stack'[t] # <<>> <=> useCount[t] = 2
        /\ \A u \in Threads \ {t} : stack'[u] = stack[u]
    BY <1>1, <1>2, <1>4 DEF hasTransaction
  <2>3. "leave" \in {"leave", "again"} /\ pc[t] \in {"run", "onBegin", "onEnd"} /\ call' = call
    BY <1>1
  <2>4. /\ QueueInv' /\ \A u \in Threads : UseInv(u)'
        /\ pc' \in [Threads -> Places] /\ useCount' \in [Threads -> Int]
        /\ holder' \in Threads \cup {None} /\ waiters' \in Seq(Threads)
    BY <1>1, <1>2, <2>1, <2>2, <2>3, ReleaseKeeps DEF databaseVars
  <2>5. TypeInv'
    BY <1>1, <2>1, <2>4 DEF ConnectionInv, TypeInv, databaseVars
  <2> QED BY <2>4, <2>5 DEF ConnectionInv
<1> QED BY <1>3, <1>4

(* Changing flags of one transaction leaves a stack a stack of its length. *)
LEMMA FlagChange ==
  ASSUME NEW s \in Seq(Transaction), Len(s) > 0, NEW b \in BOOLEAN
  PROVE  /\ [s EXCEPT ![1].marked = b] \in Seq(Transaction)
         /\ [s EXCEPT ![1].marked = b] # <<>>
         /\ [s EXCEPT ![1].childFailed = b] \in Seq(Transaction)
         /\ [s EXCEPT ![1].childFailed = b] # <<>>
<1>1. s \in [1 .. Len(s) -> Transaction] /\ Len(s) \in Nat /\ 1 \in 1 .. Len(s)
  OBVIOUS
<1>2. /\ [s[1] EXCEPT !.marked = b] \in Transaction
      /\ [s[1] EXCEPT !.childFailed = b] \in Transaction
  BY <1>1 DEF Transaction
<1>3. ASSUME NEW r \in Transaction
      PROVE  [s EXCEPT ![1] = r] \in Seq(Transaction) /\ [s EXCEPT ![1] = r] # <<>>
  <2>1. [s EXCEPT ![1] = r] \in [1 .. Len(s) -> Transaction]
    BY <1>1
  <2>2. [s EXCEPT ![1] = r] \in Seq(Transaction)
    BY <1>1, <2>1, SeqDef
  <2>3. Len([s EXCEPT ![1] = r]) = Len(s)
    OBVIOUS
  <2> QED BY <2>2, <2>3
<1>4. /\ [s EXCEPT ![1].marked = b] = [s EXCEPT ![1] = [s[1] EXCEPT !.marked = b]]
      /\ [s EXCEPT ![1].childFailed = b] = [s EXCEPT ![1] = [s[1] EXCEPT !.childFailed = b]]
  OBVIOUS
<1> QED BY <1>2, <1>3, <1>4

LEMMA SetTransactionSuccessfulKeeps ==
  ASSUME ConnectionInv, NEW t \in Threads, SetTransactionSuccessful(t)
  PROVE  ConnectionInv'
<1>1. /\ stack' = [stack EXCEPT ![t][1].marked = TRUE] /\ stack[t] # <<>>
      /\ UNCHANGED <<databaseVars, connectionVars, nativeVars, useCount, pc, call, begins, writes,
                     ghostVars>>
  BY DEF SetTransactionSuccessful, hasTransaction
<1>2. stack[t] \in Seq(Transaction) /\ stack \in [Threads -> Seq(Transaction)] /\ Len(stack[t]) > 0
  BY <1>1 DEF ConnectionInv, TypeInv
<1>3. stack' = [stack EXCEPT ![t] = [stack[t] EXCEPT ![1].marked = TRUE]]
  BY <1>1, <1>2
<1>4. /\ stack' \in [Threads -> Seq(Transaction)] /\ stack'[t] # <<>>
      /\ \A u \in Threads \ {t} : stack'[u] = stack[u]
  BY <1>2, <1>3, FlagChange
<1>5. TypeInv'
  BY <1>1, <1>4 DEF ConnectionInv, TypeInv, databaseVars, connectionVars, nativeVars, ghostVars
<1>6. \A u \in Threads : hasTransaction(u)' <=> hasTransaction(u)
  BY <1>1, <1>4 DEF hasTransaction
<1>7. /\ holder' = holder /\ waiters' = waiters /\ useCount' = useCount /\ pc' = pc /\ call' = call
      /\ poolOpen' = poolOpen
  BY <1>1 DEF connectionVars, databaseVars
<1>8. \A u \in Threads : UseInv(u)'
  BY <1>6, <1>7 DEF ConnectionInv, UseInv, InCall
<1>9. QueueInv'
  BY <1>7 DEF ConnectionInv, QueueInv
<1> QED BY <1>5, <1>8, <1>9 DEF ConnectionInv

LEMMA CallEndKeeps ==
  ASSUME ConnectionInv, NEW t \in Threads, CallEnd(t) \/ CallYield(t)
  PROVE  ConnectionInv'
<1>1. /\ pc[t] = "idle" /\ pc' = [pc EXCEPT ![t] = "onEnd"] /\ stack[t] # <<>>
      /\ \E kind \in {"end", "yield"} :
            call' = [call EXCEPT ![t] = [kind |-> kind, listener |-> Head(stack[t]).listener]]
      /\ references' = references + 1 /\ closes' = closes /\ poolOpen' = poolOpen
      /\ UNCHANGED <<connectionVars, nativeVars, useCount, stack, writes, ghostVars>>
      /\ begins' = begins \/ (begins < MaxBegins /\ begins' = begins + 1)
  BY DEF CallEnd, CallYield, AcquireReference, Free, hasTransaction
<1>2. /\ stack[t] \in Seq(Transaction) /\ pc \in [Threads -> Places] /\ call \in [Threads -> Call]
      /\ begins \in 0 .. MaxBegins /\ references \in Int
  BY DEF ConnectionInv, TypeInv
<1>3. Head(stack[t]).listener \in BOOLEAN
  <2>1. Head(stack[t]) \in Transaction
    BY <1>1, <1>2
  <2> QED BY <2>1 DEF Transaction
<1>4. /\ call' \in [Threads -> Call] /\ \A u \in Threads \ {t} : call'[u] = call[u]
      /\ pc' \in [Threads -> Places] /\ pc'[t] = "onEnd"
      /\ begins' \in 0 .. MaxBegins /\ references' \in Int
  BY <1>1, <1>2, <1>3, SessionAssumption DEF Call, Places
<1>5. TypeInv'
  BY <1>1, <1>4 DEF ConnectionInv, TypeInv, connectionVars, nativeVars, ghostVars
<1>6. UseInv(t)'
  BY <1>1, <1>4 DEF ConnectionInv, UseInv, InCall, hasTransaction, connectionVars
<1>7. QueueInv' /\ \A u \in Threads : UseInv(u)'
  BY <1>1, <1>4, <1>6, RestKeeps DEF Places, AcquireReference
<1> QED BY <1>5, <1>7 DEF ConnectionInv

(* What the end of a nested transaction leaves on the stack: its outer      *)
(* transactions, the innermost marked as having a failed child or not.      *)
LEMMA OnEndNestedStack ==
  ASSUME ConnectionInv, NEW t \in Threads, OnEndNested(t)
  PROVE  /\ stack' \in [Threads -> Seq(Transaction)] /\ stack'[t] # <<>>
         /\ \A u \in Threads \ {t} : stack'[u] = stack[u]
<1>1. /\ Len(stack[t]) > 1
      /\ \E b \in {TRUE, FALSE} : stack' = [stack EXCEPT ![t] =
             IF b THEN Tail(stack[t]) ELSE [Tail(stack[t]) EXCEPT ![1].childFailed = TRUE]]
  <2>1. PICK threw \in Throws(t) : EndNested(t, successful(t) /\ ~threw)
    BY DEF OnEndNested
  <2>2. CASE successful(t) /\ ~threw
    BY <2>1, <2>2 DEF OnEndNested, EndNested
  <2>3. CASE ~(successful(t) /\ ~threw)
    BY <2>1, <2>3 DEF OnEndNested, EndNested
  <2> QED BY <2>2, <2>3
<1>2. stack[t] \in Seq(Transaction) /\ stack \in [Threads -> Seq(Transaction)]
  BY DEF ConnectionInv, TypeInv
<1>3. Tail(stack[t]) \in Seq(Transaction) /\ Len(Tail(stack[t])) > 0
  BY <1>1, <1>2
<1>4. PICK b \in {TRUE, FALSE} : stack' = [stack EXCEPT ![t] =
          IF b THEN Tail(stack[t]) ELSE [Tail(stack[t]) EXCEPT ![1].childFailed = TRUE]]
  BY <1>1
<1> DEFINE new == IF b THEN Tail(stack[t]) ELSE [Tail(stack[t]) EXCEPT ![1].childFailed = TRUE]
<1>5. new \in Seq(Transaction) /\ new # <<>>
  <2>1. CASE b
    <3>1. \A s \in Seq(Transaction) : Len(s) > 0 => s # <<>>
      OBVIOUS
    <3> QED BY <1>3, <2>1, <3>1
  <2>2. CASE ~b
    BY <1>3, <2>2, FlagChange
  <2> QED BY <2>1, <2>2
<1>6. stack' = [stack EXCEPT ![t] = new]
  BY <1>4
<1> QED BY <1>2, <1>5, <1>6

LEMMA OnEndNestedKeeps ==
  ASSUME ConnectionInv, NEW t \in Threads, OnEndNested(t)
  PROVE  ConnectionInv'
<1>1. /\ pc[t] = "onEnd" /\ Len(stack[t]) > 1 /\ pc' = [pc EXCEPT ![t] = "leave"]
      /\ spoiled' \in {spoiled, spoiled \cup {t}}
      /\ UNCHANGED <<databaseVars, connectionVars, nativeVars, useCount, call, begins, writes, work>>
  BY DEF OnEndNested
<1>2. stack[t] \in Seq(Transaction)
  BY DEF ConnectionInv, TypeInv
<1>4. /\ stack' \in [Threads -> Seq(Transaction)] /\ stack'[t] # <<>>
      /\ \A u \in Threads \ {t} : stack'[u] = stack[u]
  BY OnEndNestedStack
<1>5. pc' \in [Threads -> Places] /\ pc'[t] = "leave"
  BY <1>1 DEF ConnectionInv, TypeInv, Places
<1>6. TypeInv'
  BY <1>1, <1>4, <1>5 DEF ConnectionInv, TypeInv, databaseVars, connectionVars, nativeVars
<1>7. UseInv(t)'
  <2>1. UseInv(t) /\ hasTransaction(t)
    BY <1>1, <1>2 DEF ConnectionInv, hasTransaction
  <2>2. useCount[t] = 1 /\ holder = t
    BY <1>1, <2>1 DEF UseInv, InCall
  <2> QED BY <1>1, <1>4, <1>5, <2>2 DEF UseInv, InCall, hasTransaction, connectionVars
<1>8. QueueInv' /\ \A u \in Threads : UseInv(u)'
  BY <1>1, <1>4, <1>7, RestKeeps DEF Places, databaseVars
<1> QED BY <1>6, <1>8 DEF ConnectionInv

LEMMA OnEndOutermostKeeps ==
  ASSUME ConnectionInv, NEW t \in Threads, OnEndOutermost(t)
  PROVE  ConnectionInv'
<1>1. /\ pc[t] = "onEnd" /\ Len(stack[t]) = 1 /\ stack' = [stack EXCEPT ![t] = <<>>]
      /\ UNCHANGED <<databaseVars, call, begins, writes, work, spoiled>>
      /\ \E next \in {"leave", "again"} : ReleaseConnection(t, next)
      /\ inTransaction' \in BOOLEAN
  <2>1. \E next \in {"leave", "again"} : ReleaseConnection(t, next)
    <3>1. (IF call[t].kind = "yield" THEN "again" ELSE "leave") \in {"leave", "again"}
      OBVIOUS
    <3>2. PICK succeeds \in BOOLEAN : NativeEnd(t, succeeds)
      BY DEF OnEndOutermost
    <3> QED BY <3>1, <3>2 DEF NativeEnd
  <2>2. inTransaction' \in BOOLEAN
    BY DEF OnEndOutermost, NativeEnd, Commit, Undo, nativeVars, ConnectionInv, TypeInv
  <2> QED BY <2>1, <2>2 DEF OnEndOutermost
<1>2. UseInv(t) /\ useCount[t] = 1 /\ stack \in [Threads -> Seq(Transaction)]
  <2>1. UseInv(t) /\ stack \in [Threads -> Seq(Transaction)]
    BY DEF ConnectionInv, TypeInv
  <2>2. useCount[t] = 1
    BY <1>1, <2>1 DEF UseInv, InCall
  <2> QED BY <2>1, <2>2
<1>3. /\ stack'[t] # <<>> <=> useCount[t] = 2
      /\ \A u \in Threads \ {t} : stack'[u] = stack[u]
      /\ stack' \in [Threads -> Seq(Transaction)]
  <2>1. <<>> \in Seq(Transaction)
    OBVIOUS
  <2>2. stack'[t] = <<>> /\ useCount[t] # 2
    BY <1>1, <1>2
  <2>3. stack' \in [Threads -> Seq(Transaction)]
    BY <1>1, <1>2, <2>1
  <2>4. \A u \in Threads \ {t} : stack'[u] = stack[u]
    BY <1>1, <1>2
  <2> QED BY <2>2, <2>3, <2>4
<1>4. pc[t] \in {"run", "onBegin", "onEnd"} /\ call' = call
  BY <1>1
<1>5. /\ QueueInv' /\ \A u \in Threads : UseInv(u)'
      /\ pc' \in [Threads -> Places] /\ useCount' \in [Threads -> Int]
      /\ holder' \in Threads \cup {None} /\ waiters' \in Seq(Threads)
  BY <1>1, <1>2, <1>3, <1>4, ReleaseKeeps DEF databaseVars
<1>6. TypeInv'
  BY <1>1, <1>3, <1>5 DEF ConnectionInv, TypeInv, databaseVars
<1> QED BY <1>5, <1>6 DEF ConnectionInv

-----------------------------------------------------------------------------
(* References: a thread counts as calling from the step that takes its      *)
(* reference to the step that gives it back.                                *)

LEMMA CallingFinite ==
  IsFiniteSet(Calling) /\ Cardinality(Calling) \in Nat
<1>1. IsFiniteSet(Threads) /\ Calling \subseteq Threads
  BY SessionAssumption DEF Calling
<1>2. IsFiniteSet(Calling)
  BY <1>1, FS_Subset
<1> QED BY <1>2, FS_CardinalityType

Enters(t) == CallWrite(t) \/ (\E listener \in BOOLEAN : CallBegin(t, listener)) \/ CallEnd(t) \/ CallYield(t)
Stays(t) ==
    \/ Write(t) \/ WriteRollsBack(t) \/ ListenerWrites(t) \/ Begin(t) \/ BeginFails(t)
    \/ Push(t) \/ OnBeginThrows(t) \/ SetTransactionSuccessful(t)
    \/ OnEndNested(t) \/ OnEndOutermost(t) \/ BeginAgain(t) \/ WaitFails(t)

(* Acquiring and releasing make no other thread idle or busy. *)
LEMMA OthersStay ==
  ASSUME ConnectionInv, NEW t \in Threads, pc[t] # "wait",
         \/ AcquireConnection(t)
         \/ \E next \in {"leave", "again"} : ReleaseConnection(t, next)
         \/ \E next \in Places \ {"idle"} : pc' = [pc EXCEPT ![t] = next]
  PROVE  pc'[t] # "idle" /\ \A u \in Threads \ {t} : pc'[u] = "idle" <=> pc[u] = "idle"
<1>0. TypeInv /\ QueueInv /\ pc \in [Threads -> Places]
  BY DEF ConnectionInv, TypeInv
<1>1. CASE AcquireConnection(t)
  <2>1. pc'[t] \in {"run", "wait", "leave"} /\ \A u \in Threads \ {t} : pc'[u] = pc[u]
    BY <1>0, <1>1, AcquireEffect
  <2> QED BY <2>1
<1>2. CASE \E next \in {"leave", "again"} : ReleaseConnection(t, next)
  <2>1. PICK next \in {"leave", "again"} : ReleaseConnection(t, next)
    BY <1>2
  <2>2. /\ pc'[t] = next
        /\ \A u \in Threads \ {t} :
              pc'[u] = IF ~(useCount[t] > 1) /\ holder' = u THEN "run" ELSE pc[u]
        /\ ~(useCount[t] > 1) =>
              \/ holder' = None
              \/ holder' \in Threads \ {t} /\ pc[holder'] = "wait"
    BY <1>0, <2>1, ReleaseEffect
  <2> QED BY <2>2, SessionAssumption
<1>3. CASE \E next \in Places \ {"idle"} : pc' = [pc EXCEPT ![t] = next]
  BY <1>0, <1>3
<1> QED BY <1>1, <1>2, <1>3

LEMMA EntersCalling ==
  ASSUME ConnectionInv, NEW t \in Threads, Enters(t)
  PROVE  /\ pc[t] = "idle" /\ pc'[t] # "idle"
         /\ \A u \in Threads \ {t} : pc'[u] = "idle" <=> pc[u] = "idle"
         /\ AcquireReference /\ references > 0
<1>1. Free(t) /\ AcquireReference
  BY DEF Enters, CallWrite, CallBegin, CallEnd, CallYield
<1>2. AcquireConnection(t) \/ \E next \in Places \ {"idle"} : pc' = [pc EXCEPT ![t] = next]
  BY DEF Enters, CallWrite, CallBegin, CallEnd, CallYield, Places
<1> QED BY <1>1, <1>2, OthersStay DEF Free

LEMMA StaysCalling ==
  ASSUME ConnectionInv, NEW t \in Threads, Stays(t)
  PROVE  (\A u \in Threads : pc'[u] = "idle" <=> pc[u] = "idle") /\ UNCHANGED databaseVars
<1>1. UNCHANGED databaseVars
  BY DEF Stays, Write, WriteRollsBack, ListenerWrites, Begin, BeginFails, Push, OnBeginThrows,
         SetTransactionSuccessful, OnEndNested, OnEndOutermost, BeginAgain, WaitFails
<1>2. CASE pc' = pc
  BY <1>1, <1>2
<1>3. CASE /\ pc[t] \notin {"idle", "wait"}
           /\ \/ AcquireConnection(t)
              \/ \E next \in {"leave", "again"} : ReleaseConnection(t, next)
              \/ \E next \in Places \ {"idle"} : pc' = [pc EXCEPT ![t] = next]
  BY <1>1, <1>3, OthersStay
<1>4. CASE Write(t) \/ WriteRollsBack(t) \/ BeginFails(t)
  <2>1. pc[t] = "run" /\ ReleaseConnection(t, "leave")
    BY <1>4 DEF Write, WriteRollsBack, BeginFails
  <2> QED BY <1>3, <2>1
<1>5. CASE ListenerWrites(t) \/ SetTransactionSuccessful(t)
  BY <1>2, <1>5 DEF ListenerWrites, SetTransactionSuccessful
<1>6. CASE Begin(t) \/ Push(t) \/ OnEndNested(t)
  <2>1. pc[t] \in {"run", "onBegin", "onEnd"} /\ \E next \in Places \ {"idle"} : pc' = [pc EXCEPT ![t] = next]
    BY <1>6 DEF Begin, Push, OnEndNested, Places
  <2> QED BY <1>3, <2>1
<1>7. CASE OnBeginThrows(t)
  <2>1. /\ pc[t] = "onBegin"
        /\ ReleaseConnection(t, "leave") \/ pc' = [pc EXCEPT ![t] = "leave"]
    BY <1>7 DEF OnBeginThrows
  <2>2. "leave" \in {"leave", "again"} /\ "leave" \in Places \ {"idle"}
    BY DEF Places
  <2> QED BY <1>3, <2>1, <2>2
<1>8. CASE OnEndOutermost(t)
  <2>1. pc[t] = "onEnd" /\ \E next \in {"leave", "again"} : ReleaseConnection(t, next)
    <3>1. (IF call[t].kind = "yield" THEN "again" ELSE "leave") \in {"leave", "again"}
      OBVIOUS
    <3>2. PICK succeeds \in BOOLEAN : NativeEnd(t, succeeds)
      BY <1>8 DEF OnEndOutermost
    <3> QED BY <1>8, <3>1, <3>2 DEF NativeEnd, OnEndOutermost
  <2> QED BY <1>3, <2>1
<1>9. CASE BeginAgain(t)
  BY <1>3, <1>9 DEF BeginAgain
<1>10. CASE WaitFails(t)
  <2>1. pc[t] = "wait" /\ pc' = [pc EXCEPT ![t] = "leave"] /\ pc \in [Threads -> Places]
    BY <1>10 DEF WaitFails, ConnectionInv, TypeInv
  <2> QED BY <1>1, <2>1
<1> QED BY <1>4, <1>5, <1>6, <1>7, <1>8, <1>9, <1>10 DEF Stays

LEMMA ReferenceKeeps ==
  ASSUME ConnectionInv, ReferenceInv, NEW t \in Threads, Enters(t) \/ Stays(t) \/ Leave(t) \/ Close(t)
  PROVE  ReferenceInv'
<1>0. /\ references \in Int /\ closes \in Nat /\ poolOpen \in BOOLEAN
      /\ IsFiniteSet(Calling) /\ Cardinality(Calling) \in Nat
      /\ pc \in [Threads -> Places]
  BY CallingFinite, SessionAssumption DEF ConnectionInv, TypeInv
<1>1. CASE Enters(t)
  <2>1. /\ t \notin Calling /\ Calling' = Calling \cup {t}
        /\ references' = references + 1 /\ closes' = closes /\ poolOpen' = poolOpen /\ references > 0
    BY <1>1, EntersCalling DEF Calling, AcquireReference
  <2>2. Cardinality(Calling') = Cardinality(Calling) + 1
    BY <1>0, <2>1, FS_AddElement
  <2> QED BY <1>0, <2>1, <2>2 DEF ReferenceInv
<1>2. CASE Stays(t)
  <2>1. Calling' = Calling /\ UNCHANGED <<references, closes, poolOpen>>
    BY <1>2, StaysCalling DEF Calling, databaseVars
  <2> QED BY <2>1 DEF ReferenceInv
<1>3. CASE Leave(t)
  <2>1. /\ t \in Calling /\ Calling' = Calling \ {t}
        /\ references' = references - 1 /\ closes' = closes
        /\ poolOpen' <=> poolOpen /\ references # 1
    BY <1>0, <1>3 DEF Leave, ReleaseReference, Calling
  <2>2. Cardinality(Calling') = Cardinality(Calling) - 1
    BY <1>0, <2>1, FS_RemoveElement
  <2>3. Cardinality(Calling') \in Nat
    <3>1. IsFiniteSet(Calling')
      BY <1>0, <2>1, FS_RemoveElement
    <3> QED BY <3>1, FS_CardinalityType
  <2> QED BY <1>0, <2>1, <2>2, <2>3 DEF ReferenceInv
<1>4. CASE Close(t)
  <2>1. /\ Calling' = Calling /\ closes' = closes + 1
        /\ references' = references - 1 /\ (poolOpen' <=> poolOpen /\ references # 1)
    BY <1>4 DEF Close, ReleaseReference, Calling
  <2> QED BY <1>0, <2>1 DEF ReferenceInv
<1> QED BY <1>1, <1>2, <1>3, <1>4

LEMMA NextIsAction ==
  ASSUME Next
  PROVE  \E t \in Threads : Enters(t) \/ Stays(t) \/ Leave(t) \/ Close(t)
BY DEF Next, Step, Enters, Stays

LEMMA ConnectionKeeps ==
  ASSUME ConnectionInv, NEW t \in Threads, Enters(t) \/ Stays(t) \/ Leave(t) \/ Close(t)
  PROVE  ConnectionInv'
<1>1. CASE Enters(t)
  BY <1>1, CallWriteKeeps, CallBeginKeeps, CallEndKeeps DEF Enters
<1>2. CASE Stays(t)
  BY <1>2, WriteKeeps, ListenerWritesKeeps, BeginKeeps, BeginFailsKeeps, PushKeeps,
     OnBeginThrowsKeeps, SetTransactionSuccessfulKeeps, OnEndNestedKeeps, OnEndOutermostKeeps,
     BeginAgainKeeps, WaitFailsKeeps DEF Stays
<1>3. CASE Leave(t) \/ Close(t)
  BY <1>3, CloseLeaveKeeps
<1> QED BY <1>1, <1>2, <1>3

-----------------------------------------------------------------------------
(* Writes: a step either makes one, or only moves those that were made. *)

Applies(t) == Apply(t) /\ (RecordWork(t) /\ (promised' = promised \/ promised' = promised \cup {writes})
                             /\ denied' = denied)
Moves(t) ==
    /\ writes' = writes
    /\ pending' = pending \/ pending' = {}
    /\ committed' = committed \/ committed' = committed \cup pending
    /\ promised' = promised \/ promised' = promised \cup work[t]
    /\ denied' = denied \/ denied' = denied \cup work[t]
    /\ work' = work \/ work' = [work EXCEPT ![t] = {}]

LEMMA AppliesOrMoves ==
  ASSUME NEW t \in Threads, Enters(t) \/ Stays(t) \/ Leave(t) \/ Close(t)
  PROVE  Applies(t) \/ Moves(t)
<1>1. CASE Enters(t) \/ Leave(t) \/ Close(t)
  BY <1>1 DEF Enters, CallWrite, CallBegin, CallEnd, CallYield, Leave, Close, Moves, nativeVars, ghostVars
<1>2. CASE Write(t)
  BY <1>2 DEF Write, Applies, Moves, nativeVars
<1>3. CASE WriteRollsBack(t)
  BY <1>3 DEF WriteRollsBack, Moves, ghostVars
<1>4. CASE ListenerWrites(t)
  BY <1>4 DEF ListenerWrites, Applies
<1>5. CASE Begin(t)
  BY <1>5 DEF Begin, Moves
<1>6. CASE BeginFails(t) \/ Push(t) \/ SetTransactionSuccessful(t) \/ BeginAgain(t) \/ WaitFails(t)
  BY <1>6 DEF BeginFails, Push, SetTransactionSuccessful, BeginAgain, WaitFails, Moves, nativeVars, ghostVars
<1>7. CASE OnBeginThrows(t)
  BY <1>7 DEF OnBeginThrows, Moves, Undo, nativeVars
<1>8. CASE OnEndNested(t)
  BY <1>8 DEF OnEndNested, Moves, nativeVars
<1>9. CASE OnEndOutermost(t)
  <2>1. writes' = writes /\ work' = work /\ (denied' = denied \/ denied' = denied \cup work[t])
    BY <1>9 DEF OnEndOutermost
  <2>2. PICK succeeds \in BOOLEAN : NativeEnd(t, succeeds)
    BY <1>9 DEF OnEndOutermost
  <2> QED BY <2>1, <2>2 DEF NativeEnd, Commit, Undo, Moves, nativeVars
<1> QED BY <1>1, <1>2, <1>3, <1>4, <1>5, <1>6, <1>7, <1>8, <1>9 DEF Stays

LEMMA FreshKeeps ==
  ASSUME TypeInv, FreshInv, NEW t \in Threads, Applies(t) \/ Moves(t)
  PROVE  FreshInv'
<1>0. writes \in Nat /\ work \in [Threads -> SUBSET (0 .. MaxWrites)]
  BY SessionAssumption DEF TypeInv
<1>1. CASE Applies(t)
  <2>1. /\ writes' = writes + 1
        /\ pending' = pending \/ pending' = pending \cup {writes}
        /\ committed' = committed \/ committed' = committed \cup {writes}
        /\ promised' = promised \/ promised' = promised \cup {writes}
        /\ denied' = denied
        /\ work' = work \/ work' = [work EXCEPT ![t] = @ \cup {writes}]
    BY <1>1 DEF Applies, Apply, RecordWork
  <2>2. Made \subseteq Made' /\ writes \in Made'
    BY <1>0, <2>1 DEF Made
  <2>3. \A u \in Threads : work'[u] \subseteq work[u] \cup {writes}
    BY <1>0, <2>1
  <2> QED BY <2>1, <2>2, <2>3 DEF FreshInv
<1>2. CASE Moves(t)
  <2>1. Made' = Made
    BY <1>2 DEF Moves, Made
  <2>2. \A u \in Threads : work'[u] \subseteq work[u]
    BY <1>0, <1>2 DEF Moves
  <2> QED BY <1>2, <2>1, <2>2 DEF Moves, FreshInv
<1> QED BY <1>1, <1>2

-----------------------------------------------------------------------------
(* The theorems. *)

LEMMA InitHolds ==
  ASSUME Init
  PROVE  IInv
<1>1. TypeInv
  <2>1. <<>> \in Seq(Threads) /\ <<>> \in Seq(Transaction)
    OBVIOUS
  <2>2. stack \in [Threads -> Seq(Transaction)]
    BY <2>1 DEF Init
  <2>3. /\ useCount \in [Threads -> Int] /\ pc \in [Threads -> Places]
        /\ work \in [Threads -> SUBSET (0 .. MaxWrites)]
    BY DEF Init, Places
  <2>4. call \in [Threads -> Call]
    BY DEF Init, Call
  <2>5. begins \in 0 .. MaxBegins /\ writes \in 0 .. MaxWrites
    BY SessionAssumption DEF Init
  <2>6. poolOpen \in BOOLEAN /\ inTransaction \in BOOLEAN
    BY Zenon DEF Init
  <2>9. closes \in 0 .. MaxCloses
    BY SessionAssumption DEF Init
  <2>7. references \in Int /\ holder \in Threads \cup {None} /\ spoiled \subseteq Threads
    <3>1. references = 1 /\ holder = None /\ spoiled = {}
      BY DEF Init
    <3> QED BY <3>1
  <2>8. waiters \in Seq(Threads)
    BY <2>1 DEF Init
  <2> QED BY <2>2, <2>3, <2>4, <2>5, <2>6, <2>7, <2>8, <2>9 DEF TypeInv
<1>2. QueueInv
  BY DEF Init, QueueInv
<1>3. \A t \in Threads : UseInv(t)
  BY SessionAssumption DEF Init, UseInv, InCall, hasTransaction
<1>4. ReferenceInv
  <2>1. Calling = {}
    BY DEF Init, Calling
  <2> QED BY <2>1, FS_EmptySet DEF Init, ReferenceInv
<1>5. FreshInv
  BY DEF Init, FreshInv
<1> QED BY <1>1, <1>2, <1>3, <1>4, <1>5 DEF IInv, ConnectionInv

LEMMA StutterKeeps ==
  ASSUME UNCHANGED vars
  PROVE  IInv <=> IInv'
BY DEF vars, databaseVars, connectionVars, nativeVars, ghostVars, IInv, ConnectionInv, TypeInv,
       QueueInv, UseInv, InCall, hasTransaction, ReferenceInv, Calling, FreshInv, Made

(* The inductive invariant: each session's use count is what its            *)
(* transaction and its call need, the queue holds the waiters, the          *)
(* references are the calls in progress, and no write appears that was not  *)
(* made (SQLiteSession.java and SQLiteClosable.java as a whole).            *)
THEOREM InvariantHolds == Spec => []IInv
<1>1. Init => IInv
  BY InitHolds
<1>2. IInv /\ [Next]_vars => IInv'
  <2> SUFFICES ASSUME IInv, [Next]_vars PROVE IInv'
    OBVIOUS
  <2>1. CASE Next
    <3>1. PICK t \in Threads : Enters(t) \/ Stays(t) \/ Leave(t) \/ Close(t)
      BY <2>1, NextIsAction
    <3>2. ConnectionInv'
      BY <3>1, ConnectionKeeps DEF IInv
    <3>3. ReferenceInv'
      BY <3>1, ReferenceKeeps DEF IInv
    <3>4. FreshInv'
      BY <3>1, AppliesOrMoves, FreshKeeps DEF IInv, ConnectionInv
    <3> QED BY <3>2, <3>3, <3>4 DEF IInv
  <2>2. CASE UNCHANGED vars
    BY <2>2, StutterKeeps
  <2> QED BY <2>1, <2>2
<1> QED BY <1>1, <1>2, PTL DEF Spec

(* Every variable keeps its type, and no session uses its connection for    *)
(* more than its transaction and one call: mConnectionUseCount of           *)
(* SQLiteSession.java stays at most 2 and never goes below 0.               *)
THEOREM TypeCorrectness == Spec => []TypeOK
<1>1. IInv => TypeOK
  <2> SUFFICES ASSUME IInv PROVE TypeOK
    OBVIOUS
  <2>1. \A t \in Threads : useCount[t] \in 0 .. 2
    <3> SUFFICES ASSUME NEW t \in Threads PROVE useCount[t] \in 0 .. 2
      OBVIOUS
    <3>1. useCount[t] = (IF hasTransaction(t) THEN 1 ELSE 0) + (IF InCall(t) THEN 1 ELSE 0)
      BY DEF IInv, ConnectionInv, UseInv
    <3> QED BY <3>1
  <2>2. useCount \in [Threads -> 0 .. 2]
    BY <2>1 DEF IInv, ConnectionInv, TypeInv
  <2>4. Made \subseteq 0 .. MaxWrites
    BY SessionAssumption DEF IInv, ConnectionInv, TypeInv, Made
  <2>5. /\ pending \subseteq 0 .. MaxWrites /\ committed \subseteq 0 .. MaxWrites
        /\ promised \subseteq 0 .. MaxWrites /\ denied \subseteq 0 .. MaxWrites
    BY <2>4 DEF IInv, FreshInv
  <2> QED BY <2>2, <2>5 DEF IInv, ConnectionInv, TypeInv, TypeOK, Places
<1> QED BY <1>1, InvariantHolds, PTL

(* Between calls a session holds the connection if and only if it has a     *)
(* transaction, whatever failed, threw or was rolled back                   *)
(* (acquireConnection and releaseConnection of SQLiteSession.java).         *)
THEOREM ConnectionHeldForTransaction == Spec => []HeldForTransaction
<1>1. IInv => HeldForTransaction
  <2> SUFFICES ASSUME IInv, NEW t \in Threads, pc[t] \in {"idle", "leave"}
               PROVE  /\ (holder = t) = hasTransaction(t)
                      /\ useCount[t] = IF hasTransaction(t) THEN 1 ELSE 0
    BY DEF HeldForTransaction
  <2>1. UseInv(t) /\ ~InCall(t) /\ pc[t] # "wait"
    BY DEF IInv, ConnectionInv, InCall
  <2>2. useCount[t] = IF hasTransaction(t) THEN 1 ELSE 0
    BY <2>1 DEF UseInv
  <2>3. holder = t <=> hasTransaction(t)
    BY <2>1, <2>2 DEF UseInv
  <2>4. hasTransaction(t) \in BOOLEAN
    BY DEF hasTransaction
  <2> QED BY <2>2, <2>3, <2>4
<1> QED BY <1>1, InvariantHolds, PTL

(* The pool is closed when, and only when, close() has been called more     *)
(* often than calls are in progress: one close() never closes it under a    *)
(* call, whoever makes it, and the last call to return closes it            *)
(* (acquireReference, releaseReference, close and dispose).                 *)
THEOREM ClosedByLastReference == Spec => []PoolOutlivesCalls
<1>1. IInv => PoolOutlivesCalls
  <2> SUFFICES ASSUME IInv PROVE PoolOutlivesCalls
    OBVIOUS
  <2>1. Cardinality(Calling) \in Nat /\ closes \in Nat
    BY CallingFinite, SessionAssumption DEF IInv, ConnectionInv, TypeInv
  <2> QED BY <2>1 DEF IInv, ReferenceInv, PoolOutlivesCalls
<1> QED BY <1>1, InvariantHolds, PTL

-----------------------------------------------------------------------------
(* What is in the file.  SQLite's transaction belongs to the holder of the  *)
(* connection, as long as COMMIT; and ROLLBACK; leave none open behind.     *)

LEMMA OnlyHolderWithin ==
  ASSUME ConnectionInv, NEW u \in Threads
  PROVE  /\ Within(u) => holder = u
         /\ pc[u] \in {"run", "onBegin", "onEnd"} => holder = u
<1>1. UseInv(u)
  BY DEF ConnectionInv
<1> QED BY <1>1 DEF UseInv, Within, InCall

LEMMA NoneOutside ==
  ASSUME ConnectionInv, NativeInv, NEW t \in Threads,
         pc[t] \in {"run", "onBegin", "onEnd"}, ~Within(t)
  PROVE  ~inTransaction /\ pending = {}
<1>1. holder = t
  BY OnlyHolderWithin
<1> QED BY <1>1 DEF NativeInv

(* Steps that move no writes and open or close no transaction. *)
LEMMA DataUnchanged ==
  ASSUME ConnectionInv, FileInv, UNCHANGED <<nativeVars, work, promised, denied>>,
         \A u \in Threads : Within(u)' <=> Within(u),
         inTransaction => holder' = holder
  PROVE  FileInv'
<1>1. /\ inTransaction' = inTransaction /\ pending' = pending /\ committed' = committed
      /\ work' = work /\ promised' = promised /\ denied' = denied
  BY DEF nativeVars
<1>2. NativeInv'
  <2>1. CASE inTransaction
    <3>1. holder \in Threads /\ Within(holder) /\ pending = work[holder] /\ holder' = holder
      BY <2>1 DEF FileInv, NativeInv
    <3>2. Within(holder)'
      BY <3>1 DEF Within, hasTransaction
    <3> QED BY <1>1, <2>1, <3>1, <3>2 DEF NativeInv
  <2>2. CASE ~inTransaction
    BY <1>1, <2>2 DEF FileInv, NativeInv
  <2> QED BY <2>1, <2>2
<1>3. UndecidedInv'
  BY <1>1 DEF FileInv, UndecidedInv
<1>4. PromisedIsDurable' /\ DeniedIsGone'
  BY <1>1 DEF FileInv, PromisedIsDurable, DeniedIsGone
<1> QED BY <1>2, <1>3, <1>4 DEF FileInv

(* Who is within a transaction does not change by acquiring or releasing.   *)
LEMMA WithinOthers ==
  ASSUME ConnectionInv, NEW t \in Threads, pc[t] # "wait",
         \/ AcquireConnection(t)
         \/ \E next \in {"leave", "again"} : ReleaseConnection(t, next)
         \/ \E next \in Places : pc' = [pc EXCEPT ![t] = next],
         \A u \in Threads \ {t} : stack'[u] = stack[u]
  PROVE  \A u \in Threads \ {t} : Within(u)' <=> Within(u)
<1>0. TypeInv /\ QueueInv /\ pc \in [Threads -> Places]
  BY DEF ConnectionInv, TypeInv
<1>1. \A u \in Threads \ {t} : pc'[u] = "onBegin" <=> pc[u] = "onBegin"
  <2>1. CASE AcquireConnection(t)
    <3>1. \A u \in Threads \ {t} : pc'[u] = pc[u]
      BY <1>0, <2>1, AcquireEffect
    <3> QED BY <3>1
  <2>2. CASE \E next \in {"leave", "again"} : ReleaseConnection(t, next)
    <3>1. PICK next \in {"leave", "again"} : ReleaseConnection(t, next)
      BY <2>2
    <3>2. /\ \A u \in Threads \ {t} :
                pc'[u] = IF ~(useCount[t] > 1) /\ holder' = u THEN "run" ELSE pc[u]
          /\ ~(useCount[t] > 1) =>
                \/ holder' = None
                \/ holder' \in Threads \ {t} /\ pc[holder'] = "wait"
      BY <1>0, <3>1, ReleaseEffect
    <3> QED BY <3>2, SessionAssumption
  <2>3. CASE \E next \in Places : pc' = [pc EXCEPT ![t] = next]
    BY <1>0, <2>3
  <2> QED BY <2>1, <2>2, <2>3
<1> QED BY <1>1 DEF Within, hasTransaction

LEMMA AcquiringKeepsFile ==
  ASSUME ConnectionInv, FileInv, NEW t \in Threads, pc[t] \in {"idle", "again"},
         AcquireConnection(t), stack' = stack, UNCHANGED <<nativeVars, work, promised, denied>>
  PROVE  FileInv'
<1>1. /\ pc'[t] \in {"run", "wait", "leave"}
      /\ holder' = holder \/ holder = None
  BY AcquireEffect DEF ConnectionInv
<1>2. Within(t)' <=> Within(t)
  BY <1>1 DEF Within, hasTransaction
<1>3. \A u \in Threads \ {t} : Within(u)' <=> Within(u)
  BY WithinOthers
<1>4. inTransaction => holder' = holder
  BY <1>1, SessionAssumption DEF FileInv, NativeInv
<1> QED BY <1>2, <1>3, <1>4, DataUnchanged

LEMMA QuietKeepsFile ==
  ASSUME ConnectionInv, FileInv, NEW t \in Threads,
         \/ Enters(t) \/ BeginAgain(t) \/ BeginFails(t) \/ Push(t) \/ SetTransactionSuccessful(t)
         \/ OnEndNested(t) \/ WaitFails(t) \/ Leave(t) \/ Close(t)
  PROVE  FileInv'
<1>0. pc \in [Threads -> Places] /\ stack \in [Threads -> Seq(Transaction)] /\ UseInv(t)
  BY DEF ConnectionInv, TypeInv
<1>1. UNCHANGED <<nativeVars, work, promised, denied>>
  BY DEF Enters, CallWrite, CallBegin, CallEnd, CallYield, BeginAgain, BeginFails, Push,
         SetTransactionSuccessful, OnEndNested, WaitFails, Leave, Close, ghostVars
<1>2. CASE pc[t] \in {"idle", "again"} /\ AcquireConnection(t) /\ stack' = stack
  BY <1>1, <1>2, AcquiringKeepsFile
<1>3. CASE /\ UNCHANGED connectionVars /\ pc[t] # "wait"
           /\ \E next \in Places : pc' = [pc EXCEPT ![t] = next]
           /\ \A u \in Threads \ {t} : stack'[u] = stack[u]
           /\ Within(t)' <=> Within(t)
  <2>1. \A u \in Threads \ {t} : Within(u)' <=> Within(u)
    BY <1>3, WithinOthers
  <2>2. holder' = holder
    BY <1>3 DEF connectionVars
  <2> QED BY <1>1, <1>3, <2>1, <2>2, DataUnchanged
<1>4. CASE CallWrite(t) \/ BeginAgain(t)
  BY <1>2, <1>4 DEF CallWrite, BeginAgain, Free
<1>5. CASE \E listener \in BOOLEAN : CallBegin(t, listener)
  <2>1. CASE hasTransaction(t)
    <3>1. /\ UNCHANGED connectionVars /\ pc[t] # "wait" /\ stack' = stack
          /\ pc' = [pc EXCEPT ![t] = "onBegin"]
      BY <1>5, <2>1 DEF CallBegin, Free
    <3>2. Within(t)' <=> Within(t)
      BY <2>1, <3>1 DEF Within, hasTransaction
    <3>3. "onBegin" \in Places
      BY DEF Places
    <3> QED BY <1>3, <3>1, <3>2, <3>3
  <2>2. CASE ~hasTransaction(t)
    BY <1>2, <1>5, <2>2 DEF CallBegin, Free
  <2> QED BY <2>1, <2>2
<1>6. CASE CallEnd(t) \/ CallYield(t) \/ Leave(t)
  <2>1. /\ UNCHANGED connectionVars /\ pc[t] \notin {"wait", "onBegin"} /\ stack' = stack
        /\ \E next \in Places \ {"onBegin"} : pc' = [pc EXCEPT ![t] = next]
    BY <1>6 DEF CallEnd, CallYield, Leave, Free, Places
  <2>2. Within(t)' <=> Within(t)
    BY <1>0, <2>1 DEF Within, hasTransaction
  <2> QED BY <1>3, <2>1, <2>2
<1>7. CASE BeginFails(t)
  <2>1. pc[t] = "run" /\ call[t].kind = "begin" /\ ReleaseConnection(t, "leave") /\ stack' = stack
    BY <1>7 DEF BeginFails
  <2>2. pc'[t] = "leave"
    BY <2>1, ReleaseEffect DEF ConnectionInv
  <2>3. ~Within(t) /\ ~inTransaction
    <3>1. ~Within(t)
      BY <1>0, <2>1 DEF UseInv, Within
    <3> QED BY <2>1, <3>1, NoneOutside DEF FileInv
  <2>4. Within(t)' <=> Within(t)
    BY <2>1, <2>2 DEF Within, hasTransaction
  <2>5. \A u \in Threads \ {t} : Within(u)' <=> Within(u)
    BY <2>1, WithinOthers
  <2> QED BY <1>1, <2>3, <2>4, <2>5, DataUnchanged
<1>8. CASE Push(t)
  <2>1. /\ UNCHANGED connectionVars /\ pc[t] = "onBegin" /\ pc' = [pc EXCEPT ![t] = "leave"]
        /\ \A u \in Threads \ {t} : stack'[u] = stack[u]
    BY <1>0, <1>8 DEF Push
  <2>2. stack'[t] # <<>>
    <3> DEFINE new == [listener |-> call[t].listener, marked |-> FALSE, childFailed |-> FALSE]
    <3>1. new \in Transaction /\ stack[t] \in Seq(Transaction)
      BY DEF ConnectionInv, TypeInv, Call, Transaction
    <3>2. stack'[t] = <<new>> \o stack[t]
      BY <1>0, <1>8 DEF Push
    <3> HIDE DEF new
    <3> QED BY <3>1, <3>2
  <2>3. Within(t)' <=> Within(t)
    BY <2>1, <2>2 DEF Within, hasTransaction
  <2> QED BY <1>3, <2>1, <2>3 DEF Places
<1>9. CASE SetTransactionSuccessful(t)
  <2>1. /\ UNCHANGED connectionVars /\ pc' = pc /\ stack[t] # <<>>
        /\ stack' = [stack EXCEPT ![t] = [stack[t] EXCEPT ![1].marked = TRUE]]
    BY <1>9 DEF SetTransactionSuccessful, hasTransaction
  <2>2. stack'[t] # <<>> /\ \A u \in Threads \ {t} : stack'[u] = stack[u]
    <3>1. stack[t] \in Seq(Transaction) /\ Len(stack[t]) > 0
      BY <1>0, <2>1
    <3> QED BY <1>0, <2>1, <3>1, FlagChange
  <2>3. \A u \in Threads : Within(u)' <=> Within(u)
    BY <2>1, <2>2 DEF Within, hasTransaction
  <2> QED BY <1>1, <2>1, <2>3, DataUnchanged DEF connectionVars
<1>10. CASE OnEndNested(t)
  <2>1. /\ UNCHANGED connectionVars /\ pc[t] = "onEnd" /\ pc' = [pc EXCEPT ![t] = "leave"]
        /\ Len(stack[t]) > 1
    BY <1>10 DEF OnEndNested
  <2>2. /\ \A u \in Threads \ {t} : stack'[u] = stack[u]
        /\ hasTransaction(t)'
    BY <1>10, OnEndNestedStack DEF hasTransaction
  <2>3. Within(t)' <=> Within(t)
    BY <1>0, <2>1, <2>2 DEF Within, hasTransaction
  <2> QED BY <1>3, <2>1, <2>2, <2>3 DEF Places
<1>11. CASE Close(t)
  <2>1. UNCHANGED connectionVars /\ pc' = pc /\ stack' = stack
    BY <1>11 DEF Close
  <2> QED BY <1>1, <2>1, DataUnchanged DEF connectionVars, Within, hasTransaction
<1>12. CASE WaitFails(t)
  <2>1. /\ UNCHANGED connectionVars /\ pc[t] = "wait" /\ pc' = [pc EXCEPT ![t] = "leave"]
        /\ stack' = stack
    BY <1>12 DEF WaitFails
  <2>2. \A u \in Threads : pc'[u] = "onBegin" <=> pc[u] = "onBegin"
    BY <1>0, <2>1
  <2> QED BY <1>1, <2>1, <2>2, DataUnchanged DEF connectionVars, Within, hasTransaction
<1> QED BY <1>4, <1>5, <1>6, <1>7, <1>8, <1>9, <1>10, <1>11, <1>12 DEF Enters

(* A new write goes to SQLite's transaction and to the thread's part of it, *)
(* or straight to the file.                                                 *)
LEMMA ApplyKeepsFile ==
  ASSUME ConnectionInv, FreshInv, FileInv, NEW t \in Threads, Apply(t), RecordWork(t), holder = t,
         promised' = promised \/ (~inTransaction /\ promised' = promised \cup {writes}),
         denied' = denied,
         \A u \in Threads : Within(u)' <=> Within(u),
         inTransaction => holder' = holder
  PROVE  FileInv'
<1>0. /\ work \in [Threads -> SUBSET (0 .. MaxWrites)] /\ writes \in Nat
      /\ inTransaction' = inTransaction
  BY SessionAssumption DEF ConnectionInv, TypeInv, Apply
<1>1. writes \notin committed \cup denied \cup promised /\ \A u \in Threads : writes \notin work[u]
  BY <1>0 DEF FreshInv, Made
<1>2. CASE inTransaction
  <2>1. /\ pending' = pending \cup {writes} /\ committed' = committed /\ promised' = promised
        /\ work'[t] = work[t] \cup {writes} /\ \A u \in Threads \ {t} : work'[u] = work[u]
        /\ holder' = t
    BY <1>0, <1>2 DEF Apply, RecordWork
  <2>2. Within(t) /\ pending = work[t]
    BY <1>2 DEF FileInv, NativeInv
  <2>3. Within(t)' /\ pending' = work'[t]
    BY <2>1, <2>2
  <2>4. Within(holder)'
    BY <2>1, <2>3 DEF Within, hasTransaction
  <2>5. NativeInv'
    BY <1>0, <1>2, <2>1, <2>3, <2>4 DEF NativeInv
  <2>6. UndecidedInv'
    BY <1>1, <2>1 DEF FileInv, UndecidedInv
  <2>7. PromisedIsDurable' /\ DeniedIsGone'
    BY <2>1 DEF FileInv, PromisedIsDurable, DeniedIsGone
  <2> QED BY <2>5, <2>6, <2>7 DEF FileInv
<1>3. CASE ~inTransaction
  <2>1. /\ pending' = pending /\ committed' = committed \cup {writes} /\ work' = work
        /\ promised' = promised \/ promised' = promised \cup {writes}
    BY <1>3 DEF Apply, RecordWork
  <2>2. NativeInv'
    BY <1>0, <1>3, <2>1 DEF FileInv, NativeInv
  <2>3. UndecidedInv'
    BY <1>1, <2>1 DEF FileInv, UndecidedInv
  <2>4. PromisedIsDurable' /\ DeniedIsGone'
    BY <1>1, <2>1 DEF FileInv, PromisedIsDurable, DeniedIsGone
  <2> QED BY <2>2, <2>3, <2>4 DEF FileInv
<1> QED BY <1>2, <1>3

LEMMA WriteKeepsFile ==
  ASSUME ConnectionInv, FreshInv, FileInv, NEW t \in Threads, Write(t) \/ WriteRollsBack(t)
  PROVE  FileInv'
<1>1. pc[t] = "run" /\ ReleaseConnection(t, "leave") /\ stack' = stack
  BY DEF Write, WriteRollsBack
<1>2. /\ pc'[t] = "leave"
      /\ useCount[t] > 1 => holder' = holder
  BY <1>1, ReleaseEffect DEF ConnectionInv
<1>3. \A u \in Threads : Within(u)' <=> Within(u)
  <2>1. Within(t)' <=> Within(t)
    BY <1>1, <1>2 DEF Within, hasTransaction
  <2>2. \A u \in Threads \ {t} : Within(u)' <=> Within(u)
    BY <1>1, WithinOthers
  <2> QED BY <2>1, <2>2
<1>4. holder = t
  BY <1>1, OnlyHolderWithin
<1>5. inTransaction => holder' = holder /\ hasTransaction(t)
  <2>1. CASE hasTransaction(t)
    <3>1. useCount[t] = 2
      BY <1>1, <2>1, RunningUse
    <3> QED BY <1>2, <2>1, <3>1
  <2>2. CASE ~hasTransaction(t)
    BY <1>1, <2>2, NoneOutside DEF Within, FileInv
  <2> QED BY <2>1, <2>2
<1>6. CASE Apply(t) /\ RecordWork(t) /\ Write(t)
  <2>1. /\ promised' = promised \/ (~inTransaction /\ promised' = promised \cup {writes})
        /\ denied' = denied
    BY <1>5, <1>6 DEF Write, Apply, nativeVars
  <2> QED BY <1>3, <1>4, <1>5, <1>6, <2>1, ApplyKeepsFile
<1>7. CASE UNCHANGED <<nativeVars, work, promised, denied>>
  BY <1>3, <1>5, <1>7, DataUnchanged
<1>8. CASE WriteRollsBack(t)
  <2>1. /\ inTransaction' = FALSE /\ pending' = {} /\ committed' = committed
        /\ work' = work /\ promised' = promised /\ denied' = denied
    BY <1>8 DEF WriteRollsBack, ghostVars
  <2> QED BY <1>3, <2>1 DEF FileInv, NativeInv, UndecidedInv, PromisedIsDurable, DeniedIsGone
<1> QED BY <1>6, <1>7, <1>8 DEF Write

LEMMA ListenerWritesKeepsFile ==
  ASSUME ConnectionInv, FreshInv, FileInv, NEW t \in Threads, ListenerWrites(t)
  PROVE  FileInv'
<1>1. /\ pc[t] \in {"onBegin", "onEnd"} /\ pc' = pc /\ stack' = stack /\ holder' = holder
      /\ Apply(t) /\ RecordWork(t) /\ promised' = promised /\ denied' = denied
  BY DEF ListenerWrites, connectionVars
<1>2. holder = t
  BY <1>1, OnlyHolderWithin
<1>3. \A u \in Threads : Within(u)' <=> Within(u)
  BY <1>1 DEF Within, hasTransaction
<1> QED BY <1>1, <1>2, <1>3, ApplyKeepsFile

LEMMA BeginKeepsFile ==
  ASSUME ConnectionInv, FileInv, NEW t \in Threads, Begin(t)
  PROVE  FileInv'
<1>1. /\ pc[t] = "run" /\ ~inTransaction /\ inTransaction' = TRUE /\ pending' = pending
      /\ committed' = committed /\ pc' = [pc EXCEPT ![t] = "onBegin"] /\ stack' = stack
      /\ work' = [work EXCEPT ![t] = {}] /\ holder' = holder
      /\ promised' = promised /\ denied' = denied
  BY DEF Begin, connectionVars
<1>2. /\ pc'[t] = "onBegin" /\ \A u \in Threads \ {t} : pc'[u] = pc[u] /\ work'[u] = work[u]
      /\ work'[t] = {}
  BY <1>1 DEF ConnectionInv, TypeInv
<1>3. holder' = t /\ pending' = {}
  BY <1>1, OnlyHolderWithin DEF FileInv, NativeInv
<1>4. Within(holder)'
  BY <1>2, <1>3 DEF Within
<1>5. NativeInv'
  BY <1>1, <1>2, <1>3, <1>4 DEF NativeInv
<1>6. UndecidedInv'
  BY <1>1, <1>2 DEF FileInv, UndecidedInv, Within, hasTransaction
<1>7. PromisedIsDurable' /\ DeniedIsGone'
  BY <1>1 DEF FileInv, PromisedIsDurable, DeniedIsGone
<1> QED BY <1>5, <1>6, <1>7 DEF FileInv

(* The end of SQLite's transaction, with the thread's own: nothing of it is *)
(* left pending, and the others are not within one.                         *)
LEMMA EndKeepsFile ==
  ASSUME ConnectionInv, FileInv, NEW t \in Threads, pc[t] \in {"onBegin", "onEnd"}, Within(t),
         \E next \in {"leave", "again"} : ReleaseConnection(t, next),
         stack'[t] = <<>>, \A u \in Threads \ {t} : stack'[u] = stack[u],
         work' = work, inTransaction' = FALSE, pending' = {},
         denied' = denied \/ denied' = denied \cup work[t],
         \/ committed' = committed /\ promised' = promised
         \/ /\ committed' = committed \cup pending /\ promised' = promised \cup work[t]
            /\ inTransaction /\ denied' = denied
  PROVE  FileInv'
<1>1. PICK next \in {"leave", "again"} : ReleaseConnection(t, next)
  OBVIOUS
<1>2. pc'[t] = next
  BY <1>1, ReleaseEffect DEF ConnectionInv
<1>3. ~Within(t)' /\ \A u \in Threads \ {t} : ~Within(u)'
  <2>1. ~Within(t)'
    BY <1>2 DEF Within, hasTransaction
  <2>2. \A u \in Threads \ {t} : Within(u)' <=> Within(u)
    BY WithinOthers
  <2>3. holder = t /\ \A u \in Threads : Within(u) => holder = u
    BY OnlyHolderWithin
  <2> QED BY <2>1, <2>2, <2>3
<1>4. NativeInv'
  BY DEF NativeInv
<1>5. UndecidedInv'
  BY <1>3 DEF UndecidedInv
<1>6. work[t] \cap (committed \cup denied) = {}
  BY DEF FileInv, UndecidedInv
<1>7. inTransaction => pending = work[t]
  BY OnlyHolderWithin DEF FileInv, NativeInv
<1>8. PromisedIsDurable' /\ DeniedIsGone'
  BY <1>6, <1>7 DEF FileInv, PromisedIsDurable, DeniedIsGone
<1> QED BY <1>4, <1>5, <1>8 DEF FileInv

LEMMA OnBeginThrowsKeepsFile ==
  ASSUME ConnectionInv, FileInv, NEW t \in Threads, OnBeginThrows(t)
  PROVE  FileInv'
<1>1. /\ pc[t] = "onBegin" /\ stack' = stack /\ work' = work /\ promised' = promised
  BY DEF OnBeginThrows
<1>2. CASE hasTransaction(t)
  <2>1. /\ pc' = [pc EXCEPT ![t] = "leave"] /\ holder' = holder
        /\ UNCHANGED <<nativeVars, denied>>
    BY <1>2 DEF OnBeginThrows, connectionVars
  <2>2. \A u \in Threads : Within(u)' <=> Within(u)
    <3>1. Within(t)' <=> Within(t)
      BY <1>1, <1>2 DEF Within, hasTransaction
    <3>2. \A u \in Threads \ {t} : pc'[u] = pc[u]
      BY <2>1 DEF ConnectionInv, TypeInv
    <3> QED BY <1>1, <3>1, <3>2 DEF Within, hasTransaction
  <2> QED BY <1>1, <2>1, <2>2, DataUnchanged
<1>3. CASE ~hasTransaction(t)
  <2>1. /\ ReleaseConnection(t, "leave") /\ inTransaction' = FALSE /\ pending' = {}
        /\ committed' = committed /\ denied' = denied \cup work[t]
    BY <1>3 DEF OnBeginThrows, Undo
  <2>2. stack'[t] = <<>> /\ Within(t)
    BY <1>1, <1>3 DEF hasTransaction, Within
  <2>3. \E next \in {"leave", "again"} : ReleaseConnection(t, next)
    BY <2>1
  <2>4. \A u \in Threads \ {t} : stack'[u] = stack[u]
    BY <1>1
  <2> QED BY <1>1, <2>1, <2>2, <2>3, <2>4, EndKeepsFile
<1> QED BY <1>2, <1>3

(* Without "endRefused" no end leaves SQLite's transaction open; a commit   *)
(* is only tried when no part of the transaction was unsuccessful.          *)
LEMMA OnEndOutermostKeepsFile ==
  ASSUME ConnectionInv, FileInv, SpoiledInv, "endRefused" \notin Faults,
         NEW t \in Threads, OnEndOutermost(t)
  PROVE  FileInv'
<1>1. /\ pc[t] = "onEnd" /\ Len(stack[t]) = 1 /\ stack' = [stack EXCEPT ![t] = <<>>] /\ work' = work
  BY DEF OnEndOutermost
<1>2. PICK threw \in Throws(t) :
         /\ NativeEnd(t, successful(t) /\ ~threw)
         /\ denied' = IF t \in spoiled \/ Spoils(t, threw) THEN denied \cup work[t] ELSE denied
  BY DEF OnEndOutermost
<1>3. stack \in [Threads -> Seq(Transaction)] /\ stack[t] # <<>> /\ Within(t)
  <2>1. stack[t] # <<>>
    BY <1>1
  <2> QED BY <2>1 DEF ConnectionInv, TypeInv, Within, hasTransaction
<1>4. stack'[t] = <<>> /\ \A u \in Threads \ {t} : stack'[u] = stack[u]
  BY <1>1, <1>3
<1>5. \E next \in {"leave", "again"} : ReleaseConnection(t, next)
  <2>1. (IF call[t].kind = "yield" THEN "again" ELSE "leave") \in {"leave", "again"}
    OBVIOUS
  <2> QED BY <1>2, <2>1 DEF NativeEnd
<1>6. ~inTransaction => pending = {}
  BY DEF FileInv, NativeInv
<1>7. /\ inTransaction' = FALSE /\ pending' = {}
      /\ \/ committed' = committed /\ promised' = promised
         \/ /\ successful(t) /\ ~threw /\ inTransaction
            /\ committed' = committed \cup pending /\ promised' = promised \cup work[t]
  <2>1. CASE successful(t) /\ ~threw /\ Commit /\ promised' = promised \cup work[t]
    BY <2>1 DEF Commit
  <2>2. CASE Undo /\ UNCHANGED promised
    BY <2>2 DEF Undo
  <2>3. CASE ~inTransaction /\ UNCHANGED <<nativeVars, promised>>
    <3>1. inTransaction = FALSE
      BY <2>3 DEF ConnectionInv, TypeInv
    <3> QED BY <1>6, <2>3, <3>1 DEF nativeVars
  <2> QED BY <1>2, <2>1, <2>2, <2>3 DEF NativeEnd
<1>8. successful(t) /\ ~threw => denied' = denied
  <2> SUFFICES ASSUME successful(t), ~threw PROVE denied' = denied
    OBVIOUS
  <2>1. ~Head(stack[t]).childFailed /\ ~Spoils(t, threw)
    BY DEF successful, Spoils
  <2>2. t \notin spoiled
    <3>1. Head(stack[t]) = stack[t][1]
      BY <1>1, <1>3
    <3>2. \A k \in 1 .. Len(stack[t]) : ~stack[t][k].childFailed
      BY <1>1, <2>1, <3>1
    <3> QED BY <1>3, <3>2 DEF SpoiledInv
  <2> QED BY <1>2, <2>1, <2>2
<1>9. denied' = denied \/ denied' = denied \cup work[t]
  BY <1>2
<1>10. \/ committed' = committed /\ promised' = promised
       \/ /\ committed' = committed \cup pending /\ promised' = promised \cup work[t]
          /\ inTransaction /\ denied' = denied
  BY <1>7, <1>8
<1> QED BY <1>1, <1>3, <1>4, <1>5, <1>7, <1>9, <1>10, EndKeepsFile

-----------------------------------------------------------------------------
(* The failure of a part is remembered until the transaction has ended.     *)

LEMMA PlainKeepsSpoiled ==
  ASSUME SpoiledInv, spoiled' \subseteq spoiled, stack' = stack,
         \A u \in spoiled' : pc'[u] = "onBegin" => Within(u)
  PROVE  SpoiledInv'
BY DEF SpoiledInv, Within, hasTransaction

(* Of the other threads none comes to a listener's onBegin by a step of t.  *)
LEMMA OthersOnBegin ==
  ASSUME ConnectionInv, NEW t \in Threads, pc[t] # "wait",
         \/ AcquireConnection(t)
         \/ \E next \in {"leave", "again"} : ReleaseConnection(t, next)
         \/ \E next \in Places : pc' = [pc EXCEPT ![t] = next],
         stack' = stack, spoiled' \subseteq spoiled, SpoiledInv,
         pc'[t] = "onBegin" => Within(t)
  PROVE  SpoiledInv'
<1>1. \A u \in Threads \ {t} : Within(u)' <=> Within(u)
  BY WithinOthers
<1>2. \A u \in Threads \ {t} : pc'[u] = "onBegin" => Within(u)
  BY <1>1 DEF Within
<1>3. spoiled' \subseteq Threads
  BY DEF ConnectionInv, TypeInv
<1> QED BY <1>2, <1>3, PlainKeepsSpoiled

LEMMA OnEndNestedKeepsSpoiled ==
  ASSUME ConnectionInv, SpoiledInv, NEW t \in Threads, OnEndNested(t)
  PROVE  SpoiledInv'
<1>0. /\ stack[t] \in Seq(Transaction) /\ stack \in [Threads -> Seq(Transaction)]
      /\ pc \in [Threads -> Places] /\ Len(stack[t]) > 1 /\ pc' = [pc EXCEPT ![t] = "leave"]
  BY DEF ConnectionInv, TypeInv, OnEndNested
<1>1. \A u \in Threads \ {t} : stack'[u] = stack[u] /\ pc'[u] = pc[u]
  BY <1>0, OnEndNestedStack
<1>2. PICK threw \in Throws(t) :
         /\ EndNested(t, successful(t) /\ ~threw)
         /\ spoiled' = IF Spoils(t, threw) THEN spoiled \cup {t} ELSE spoiled
  BY DEF OnEndNested
<1> DEFINE outer == Tail(stack[t])
<1>3. /\ outer \in Seq(Transaction) /\ Len(outer) = Len(stack[t]) - 1 /\ 1 \in 1 .. Len(outer)
      /\ \A k \in 1 .. Len(outer) : outer[k] = stack[t][k + 1]
      /\ Head(stack[t]) = stack[t][1]
  BY <1>0
<1>4. CASE successful(t) /\ ~threw
  <2>1. stack'[t] = outer
    BY <1>0, <1>2, <1>4 DEF EndNested
  <2>2. spoiled' = spoiled /\ ~stack[t][1].childFailed
    BY <1>2, <1>3, <1>4 DEF Spoils, successful
  <2>3. t \in spoiled => \E k \in 1 .. Len(outer) : outer[k].childFailed
    <3> SUFFICES ASSUME t \in spoiled PROVE \E k \in 1 .. Len(outer) : outer[k].childFailed
      OBVIOUS
    <3>1. stack[t] # <<>>
      BY <1>0
    <3>2. PICK k \in 1 .. Len(stack[t]) : stack[t][k].childFailed
      BY <3>1 DEF SpoiledInv, Within, hasTransaction
    <3>3. k # 1 /\ k - 1 \in 1 .. Len(outer)
      BY <1>0, <1>3, <2>2, <3>2
    <3>4. outer[k - 1].childFailed
      <4>1. outer[k - 1] = stack[t][(k - 1) + 1] /\ (k - 1) + 1 = k
        BY <1>3, <3>3
      <4> QED BY <3>2, <4>1
    <3> QED BY <3>3, <3>4
  <2> HIDE DEF outer
  <2> QED BY <1>1, <2>1, <2>2, <2>3 DEF SpoiledInv, Within, hasTransaction
<1>5. CASE ~(successful(t) /\ ~threw)
  <2>1. stack'[t] = [outer EXCEPT ![1].childFailed = TRUE]
    BY <1>0, <1>2, <1>5 DEF EndNested
  <2>2. stack'[t] = [outer EXCEPT ![1] = [outer[1] EXCEPT !.childFailed = TRUE]]
    BY <2>1
  <2> HIDE DEF outer
  <2>3. [outer[1] EXCEPT !.childFailed = TRUE].childFailed
    BY <1>3 DEF Transaction
  <2>4. stack'[t][1].childFailed /\ 1 \in 1 .. Len(stack'[t])
    BY <1>3, <2>2, <2>3
  <2>5. spoiled' \subseteq spoiled \cup {t}
    BY <1>2
  <2> QED BY <1>1, <2>4, <2>5 DEF SpoiledInv, Within, hasTransaction
<1> QED BY <1>4, <1>5

LEMMA PushKeepsSpoiled ==
  ASSUME ConnectionInv, SpoiledInv, NEW t \in Threads, Push(t)
  PROVE  SpoiledInv'
<1> DEFINE new == [listener |-> call[t].listener, marked |-> FALSE, childFailed |-> FALSE]
<1>1. /\ pc[t] = "onBegin" /\ pc' = [pc EXCEPT ![t] = "leave"] /\ spoiled' = spoiled
      /\ stack \in [Threads -> Seq(Transaction)] /\ pc \in [Threads -> Places]
      /\ stack' = [stack EXCEPT ![t] = <<new>> \o @]
  BY DEF Push, ghostVars, ConnectionInv, TypeInv
<1>2. new \in Transaction
  BY DEF ConnectionInv, TypeInv, Call, Transaction
<1> HIDE DEF new
<1>3. \A u \in Threads \ {t} : stack'[u] = stack[u] /\ pc'[u] = pc[u]
  BY <1>1
<1>4. /\ stack'[t] = <<new>> \o stack[t] /\ Len(stack'[t]) = Len(stack[t]) + 1
      /\ Len(stack[t]) \in Nat
      /\ \A k \in 1 .. Len(stack[t]) : stack'[t][k + 1] = stack[t][k]
  BY <1>1, <1>2
<1>5. t \in spoiled => \E k \in 1 .. Len(stack'[t]) : stack'[t][k].childFailed
  <2> SUFFICES ASSUME t \in spoiled PROVE \E k \in 1 .. Len(stack'[t]) : stack'[t][k].childFailed
    OBVIOUS
  <2>1. PICK k \in 1 .. Len(stack[t]) : stack[t][k].childFailed
    BY <1>1 DEF SpoiledInv, Within
  <2>2. k + 1 \in 1 .. Len(stack'[t]) /\ stack'[t][k + 1].childFailed
    BY <1>4, <2>1
  <2> QED BY <2>2
<1> QED BY <1>1, <1>3, <1>5 DEF SpoiledInv, Within, hasTransaction

LEMMA MarkKeepsSpoiled ==
  ASSUME ConnectionInv, SpoiledInv, NEW t \in Threads, SetTransactionSuccessful(t)
  PROVE  SpoiledInv'
<1>1. /\ stack[t] # <<>> /\ pc' = pc /\ spoiled' = spoiled
      /\ stack' = [stack EXCEPT ![t] = [stack[t] EXCEPT ![1] = [stack[t][1] EXCEPT !.marked = TRUE]]]
      /\ stack \in [Threads -> Seq(Transaction)] /\ stack[t] \in Seq(Transaction)
  BY DEF SetTransactionSuccessful, hasTransaction, ghostVars, ConnectionInv, TypeInv
<1>2. Len(stack[t]) > 0 /\ 1 \in 1 .. Len(stack[t]) /\ stack[t][1] \in Transaction
  BY <1>1
<1>3. [stack[t][1] EXCEPT !.marked = TRUE].childFailed = stack[t][1].childFailed
  BY <1>2 DEF Transaction
<1>4. /\ Len(stack'[t]) = Len(stack[t])
      /\ \A k \in 1 .. Len(stack[t]) : stack'[t][k].childFailed = stack[t][k].childFailed
  BY <1>1, <1>2, <1>3
<1>5. \A u \in Threads \ {t} : stack'[u] = stack[u]
  BY <1>1
<1> QED BY <1>1, <1>4, <1>5 DEF SpoiledInv, Within, hasTransaction

LEMMA SpoiledKeeps ==
  ASSUME ConnectionInv, SpoiledInv, NEW t \in Threads, Enters(t) \/ Stays(t) \/ Leave(t) \/ Close(t)
  PROVE  SpoiledInv'
<1>0. TypeInv /\ QueueInv /\ pc \in [Threads -> Places] /\ spoiled \subseteq Threads
  BY DEF ConnectionInv, TypeInv
<1>1. CASE AcquireConnection(t) /\ pc[t] \in {"idle", "again"} /\ stack' = stack /\ spoiled' = spoiled
  <2>1. pc'[t] \in {"run", "wait", "leave"}
    BY <1>0, <1>1, AcquireEffect
  <2> QED BY <1>1, <2>1, OthersOnBegin
<1>2. CASE /\ ReleaseConnection(t, "leave") /\ pc[t] \in {"run", "onBegin"}
           /\ stack' = stack /\ spoiled' = spoiled
  <2>1. pc'[t] = "leave" /\ \E next \in {"leave", "again"} : ReleaseConnection(t, next)
    BY <1>0, <1>2, ReleaseEffect
  <2> QED BY <1>2, <2>1, OthersOnBegin
<1>3. CASE pc' = pc /\ stack' = stack /\ spoiled' = spoiled
  BY <1>3, PlainKeepsSpoiled DEF Within
<1>4. CASE /\ \E next \in Places : pc' = [pc EXCEPT ![t] = next] /\ (next = "onBegin" => Within(t))
           /\ pc[t] # "wait" /\ stack' = stack /\ spoiled' = spoiled
  <2>1. PICK next \in Places : pc' = [pc EXCEPT ![t] = next] /\ (next = "onBegin" => Within(t))
    BY <1>4
  <2>2. pc'[t] = "onBegin" => Within(t)
    BY <1>0, <2>1
  <2> QED BY <1>4, <2>1, <2>2, OthersOnBegin
<1>5. CASE CallWrite(t) \/ BeginAgain(t)
  BY <1>1, <1>5 DEF CallWrite, BeginAgain, Free, ghostVars
<1>6. CASE \E listener \in BOOLEAN : CallBegin(t, listener)
  <2>1. pc[t] = "idle" /\ stack' = stack /\ spoiled' = spoiled
    BY <1>6 DEF CallBegin, Free, ghostVars
  <2>2. CASE hasTransaction(t)
    <3>1. pc' = [pc EXCEPT ![t] = "onBegin"] /\ Within(t) /\ "onBegin" \in Places
      BY <1>6, <2>2 DEF CallBegin, Within, Places
    <3> QED BY <1>4, <2>1, <3>1
  <2>3. CASE ~hasTransaction(t)
    <3>1. AcquireConnection(t)
      BY <1>6, <2>3 DEF CallBegin
    <3> QED BY <1>1, <2>1, <3>1
  <2> QED BY <2>2, <2>3
<1>7. CASE CallEnd(t) \/ CallYield(t) \/ Leave(t)
  <2>1. pc[t] \in {"idle", "leave"} /\ stack' = stack /\ spoiled' = spoiled
    BY <1>7 DEF CallEnd, CallYield, Leave, Free, ghostVars
  <2>2. pc' = [pc EXCEPT ![t] = "onEnd"] \/ pc' = [pc EXCEPT ![t] = "idle"]
    BY <1>7 DEF CallEnd, CallYield, Leave
  <2>3. "onEnd" \in Places /\ "idle" \in Places /\ "onEnd" # "onBegin" /\ "idle" # "onBegin"
    BY DEF Places
  <2> QED BY <1>4, <2>1, <2>2, <2>3
<1>8. CASE Write(t) \/ WriteRollsBack(t) \/ BeginFails(t)
  <2>1. /\ ReleaseConnection(t, "leave") /\ pc[t] = "run" /\ stack' = stack /\ spoiled' = spoiled
    BY <1>8 DEF Write, WriteRollsBack, BeginFails, ghostVars
  <2> QED BY <1>2, <2>1
<1>9. CASE ListenerWrites(t) \/ Close(t)
  BY <1>3, <1>9 DEF ListenerWrites, Close, ghostVars
<1>10. CASE Begin(t)
  <2>1. /\ pc' = [pc EXCEPT ![t] = "onBegin"] /\ stack' = stack /\ spoiled' = spoiled \ {t}
    BY <1>10 DEF Begin
  <2>2. \A u \in spoiled' : pc'[u] = "onBegin" => Within(u)
    BY <1>0, <2>1 DEF Within
  <2> QED BY <2>1, <2>2, PlainKeepsSpoiled
<1>11. CASE OnBeginThrows(t)
  <2>1. pc[t] = "onBegin" /\ stack' = stack /\ spoiled' = spoiled
    BY <1>11 DEF OnBeginThrows
  <2>2. ReleaseConnection(t, "leave") \/ pc' = [pc EXCEPT ![t] = "leave"]
    BY <1>11 DEF OnBeginThrows
  <2>3. "leave" \in Places /\ "leave" # "onBegin"
    BY DEF Places
  <2> QED BY <1>2, <1>4, <2>1, <2>2, <2>3
<1>12. CASE OnEndOutermost(t)
  <2>1. /\ pc[t] = "onEnd" /\ stack' = [stack EXCEPT ![t] = <<>>] /\ spoiled' = spoiled
        /\ stack \in [Threads -> Seq(Transaction)]
    BY <1>12 DEF OnEndOutermost, ConnectionInv, TypeInv
  <2>2. PICK next \in {"leave", "again"} : ReleaseConnection(t, next)
    <3>1. (IF call[t].kind = "yield" THEN "again" ELSE "leave") \in {"leave", "again"}
      OBVIOUS
    <3>2. PICK succeeds \in BOOLEAN : NativeEnd(t, succeeds)
      BY <1>12 DEF OnEndOutermost
    <3> QED BY <3>1, <3>2 DEF NativeEnd
  <2>3. pc'[t] = next
    BY <1>0, <2>1, <2>2, ReleaseEffect
  <2>4. ~Within(t)'
    BY <2>1, <2>3 DEF Within, hasTransaction
  <2>5. \A u \in Threads \ {t} : stack'[u] = stack[u]
    BY <2>1
  <2>6. \A u \in Threads \ {t} : Within(u)' <=> Within(u)
    BY <2>1, <2>2, <2>5, WithinOthers
  <2> QED BY <2>1, <2>4, <2>5, <2>6 DEF SpoiledInv
<1>13. CASE Push(t) \/ SetTransactionSuccessful(t) \/ OnEndNested(t)
  BY <1>13, PushKeepsSpoiled, MarkKeepsSpoiled, OnEndNestedKeepsSpoiled
<1>14. CASE WaitFails(t)
  <2>1. /\ pc' = [pc EXCEPT ![t] = "leave"] /\ stack' = stack /\ spoiled' = spoiled
    BY <1>14 DEF WaitFails, ghostVars
  <2>2. \A u \in spoiled' : pc'[u] = "onBegin" => Within(u)
    BY <1>0, <2>1 DEF Within
  <2> QED BY <2>1, <2>2, PlainKeepsSpoiled
<1> QED BY <1>5, <1>6, <1>7, <1>8, <1>9, <1>10, <1>11, <1>12, <1>13, <1>14 DEF Enters, Stays

(* The writes and the file together: an invariant on top of IInv. *)
LEMMA DataHolds ==
  ASSUME "endRefused" \notin Faults
  PROVE  Spec => []DataInv
<1>1. Init => DataInv
  BY DEF Init, DataInv, FileInv, NativeInv, UndecidedInv, SpoiledInv, PromisedIsDurable, DeniedIsGone
<1>2. IInv /\ DataInv /\ [Next]_vars => DataInv'
  <2> SUFFICES ASSUME IInv, DataInv, [Next]_vars PROVE DataInv'
    OBVIOUS
  <2>0. ConnectionInv /\ FreshInv /\ FileInv /\ SpoiledInv
    BY DEF IInv, DataInv
  <2>1. CASE Next
    <3>1. PICK t \in Threads : Enters(t) \/ Stays(t) \/ Leave(t) \/ Close(t)
      BY <2>1, NextIsAction
    <3>2. SpoiledInv'
      BY <2>0, <3>1, SpoiledKeeps
    <3>3. FileInv'
      <4>1. CASE \/ Enters(t) \/ BeginAgain(t) \/ BeginFails(t) \/ Push(t)
                 \/ SetTransactionSuccessful(t) \/ OnEndNested(t) \/ WaitFails(t) \/ Leave(t) \/ Close(t)
        BY <2>0, <4>1, QuietKeepsFile
      <4>2. CASE Write(t) \/ WriteRollsBack(t)
        BY <2>0, <4>2, WriteKeepsFile
      <4>3. CASE ListenerWrites(t)
        BY <2>0, <4>3, ListenerWritesKeepsFile
      <4>4. CASE Begin(t)
        BY <2>0, <4>4, BeginKeepsFile
      <4>5. CASE OnBeginThrows(t)
        BY <2>0, <4>5, OnBeginThrowsKeepsFile
      <4>6. CASE OnEndOutermost(t)
        BY <2>0, <4>6, OnEndOutermostKeepsFile
      <4> QED BY <3>1, <4>1, <4>2, <4>3, <4>4, <4>5, <4>6 DEF Stays
    <3> QED BY <3>2, <3>3 DEF DataInv
  <2>2. CASE UNCHANGED vars
    BY <2>2 DEF vars, databaseVars, connectionVars, nativeVars, ghostVars, DataInv, FileInv,
       NativeInv, UndecidedInv, SpoiledInv, PromisedIsDurable, DeniedIsGone, Within, hasTransaction
  <2> QED BY <2>1, <2>2
<1> QED BY <1>1, <1>2, InvariantHolds, PTL DEF Spec

(* Unless SQLite refuses to end a transaction, what a call reported as      *)
(* committed is in the file, be it a write of its own, a transaction with   *)
(* nested ones or the part of one before a yield (endTransaction and        *)
(* yieldTransaction of SQLiteSession.java).  The run session_commit shows   *)
(* that the assumption is needed.                                           *)
THEOREM Durability ==
  ASSUME "endRefused" \notin Faults
  PROVE  Spec => []PromisedIsDurable
<1>1. DataInv => PromisedIsDurable
  BY DEF DataInv, FileInv
<1> QED BY <1>1, DataHolds, PTL

(* Unless SQLite refuses to end a transaction, nothing of a transaction of  *)
(* which any part was unsuccessful is in the file, at whatever depth and    *)
(* whatever its listeners threw or wrote (endTransactionUnchecked of        *)
(* SQLiteSession.java).                                                     *)
THEOREM Atomicity ==
  ASSUME "endRefused" \notin Faults
  PROVE  Spec => []DeniedIsGone
<1>1. DataInv => DeniedIsGone
  BY DEF DataInv, FileInv
<1> QED BY <1>1, DataHolds, PTL

-----------------------------------------------------------------------------
(* The pool of the sessions behaves as Lending promises.                    *)

(* The connection is free only while nobody waits for it, unless the pool    *)
(* is closed.                                                               *)
TurnInv == poolOpen /\ waiters # <<>> => holder # None

(* A step either acquires, or releases, or leaves the connection alone. *)
Acquires(t) == pc[t] \in {"idle", "again"} /\ AcquireConnection(t) /\ UNCHANGED poolOpen
Releases(t) ==
  /\ pc[t] \in {"run", "onBegin", "onEnd"} /\ holder = t /\ UNCHANGED poolOpen
  /\ \E next \in {"leave", "again"} : ReleaseConnection(t, next)
Rests == UNCHANGED connectionVars /\ (poolOpen' = poolOpen \/ poolOpen' = FALSE)

LEMMA ConnectionStep ==
  ASSUME IInv, [Next]_vars
  PROVE  Rests \/ \E t \in Threads : Acquires(t) \/ Releases(t)
<1>1. CASE UNCHANGED vars
  BY <1>1 DEF vars, databaseVars, Rests
<1>2. ASSUME NEW t \in Threads, Enters(t)
      PROVE  Rests \/ Acquires(t)
  BY <1>2 DEF Enters, CallWrite, CallBegin, CallEnd, CallYield, Free, AcquireReference, Rests,
     Acquires, connectionVars
<1>3. ASSUME NEW t \in Threads, Leave(t) \/ Close(t) PROVE Rests
  BY <1>3 DEF IInv, ConnectionInv, TypeInv, Leave, Close, ReleaseReference, Rests
<1>4. ASSUME NEW t \in Threads, Stays(t) PROVE Rests \/ Acquires(t) \/ Releases(t)
  <2>0. UNCHANGED poolOpen
    BY <1>4 DEF Stays, Write, WriteRollsBack, ListenerWrites, Begin, BeginFails, Push, OnBeginThrows,
       SetTransactionSuccessful, OnEndNested, OnEndOutermost, BeginAgain, WaitFails, databaseVars
  <2>1. UseInv(t) /\ useCount \in [Threads -> Int]
    BY DEF IInv, ConnectionInv, TypeInv
  <2>2. ASSUME NEW next \in {"leave", "again"}, ReleaseConnection(t, next),
               pc[t] = "run" \/ (pc[t] = "onBegin" /\ ~hasTransaction(t)) \/ pc[t] = "onEnd"
        PROVE  Releases(t)
    <3>1. useCount[t] > 0 /\ pc[t] # "wait"
      BY <2>1, <2>2 DEF UseInv, InCall
    <3>2. holder = t
      BY <2>1, <3>1 DEF UseInv
    <3> QED BY <2>0, <2>2, <3>2 DEF Releases
  <2>3. CASE UNCHANGED connectionVars
    BY <2>0, <2>3 DEF Rests
  <2>4. CASE BeginAgain(t)
    BY <2>0, <2>4 DEF BeginAgain, Acquires
  <2>5. CASE Write(t) \/ WriteRollsBack(t) \/ BeginFails(t)
    BY <2>2, <2>5 DEF Write, WriteRollsBack, BeginFails
  <2>6. CASE OnBeginThrows(t)
    BY <2>2, <2>3, <2>6 DEF OnBeginThrows
  <2>7. CASE OnEndOutermost(t)
    <3>1. pc[t] = "onEnd" /\ \E next \in {"leave", "again"} : ReleaseConnection(t, next)
      BY <2>7 DEF OnEndOutermost, NativeEnd
    <3> QED BY <2>2, <3>1
  <2>8. CASE ListenerWrites(t) \/ Begin(t) \/ Push(t) \/ SetTransactionSuccessful(t) \/ OnEndNested(t)
           \/ WaitFails(t)
    BY <2>3, <2>8 DEF WaitFails, ListenerWrites, Begin, Push, SetTransactionSuccessful, OnEndNested
  <2> QED BY <1>4, <2>4, <2>5, <2>6, <2>7, <2>8 DEF Stays
<1> QED BY <1>1, <1>2, <1>3, <1>4, NextIsAction

LEMMA TurnKeeps ==
  ASSUME IInv, TurnInv, [Next]_vars
  PROVE  TurnInv'
<1>0. waiters \in Seq(Threads) /\ None \notin Threads
  BY SessionAssumption DEF IInv, ConnectionInv, TypeInv
<1>1. CASE Rests
  BY <1>1 DEF Rests, connectionVars, TurnInv
<1>2. ASSUME NEW t \in Threads, Acquires(t) PROVE TurnInv'
  <2>1. \/ UNCHANGED <<holder, waiters>>
        \/ holder' = t
        \/ ~(holder = None /\ waiters = <<>>) /\ holder' = holder
    BY <1>2 DEF Acquires, AcquireConnection, connectionVars
  <2> QED BY <1>0, <1>2, <2>1 DEF TurnInv, Acquires
<1>3. ASSUME NEW t \in Threads, Releases(t) PROVE TurnInv'
  <2>1. \/ UNCHANGED <<holder, waiters>>
        \/ waiters = <<>> /\ UNCHANGED waiters
        \/ ~poolOpen'
        \/ waiters # <<>> /\ holder' = Head(waiters)
    BY <1>3 DEF Releases, ReleaseConnection, connectionVars
  <2>2. waiters # <<>> => Head(waiters) \in Threads
    BY <1>0
  <2> QED BY <1>0, <1>3, <2>1, <2>2 DEF TurnInv, Releases
<1> QED BY <1>1, <1>2, <1>3, ConnectionStep

TurnSafe == IInv /\ TurnInv

(* Whoever returns the connection hands it to the first that waits, so that *)
(* it is free only when nobody waits (releaseConnection).                   *)
THEOREM TurnHolds == Spec => []TurnSafe
<1>1. Init => TurnInv
  BY DEF Init, TurnInv
<1>2. TurnSafe /\ [Next]_vars => TurnInv'
  BY TurnKeeps DEF TurnSafe
<1>3. IInv /\ TurnInv => TurnSafe
  BY DEF TurnSafe
<1> QED BY <1>1, <1>2, <1>3, InvariantHolds, PTL DEF Spec

(* Who waits for the connection of an open pool does so for another thread  *)
(* that is in the middle of a call or may end its transaction.  That        *)
(* close() has been called does not matter as long as the pool is open, and *)
(* who waits for a closed one stops by itself (acquireConnection and        *)
(* releaseConnection of SQLiteSession.java, acquireReference of             *)
(* SQLiteClosable.java, waitForConnection of SQLiteConnectionPool.java).    *)
THEOREM NoDeadlock == Spec => []NobodyWaitsInVain
<1>1. TurnSafe => NobodyWaitsInVain
  <2> SUFFICES ASSUME TurnSafe, NEW t \in Threads, pc[t] = "wait", poolOpen
               PROVE  holder \in Threads \ {t} /\ ~hasTransaction(t) /\ CanGoOn(holder)
    BY DEF NobodyWaitsInVain
  <2> USE DEF TurnSafe, IInv, ConnectionInv
  <2>1. ~hasTransaction(t) /\ holder # t
    BY DEF UseInv
  <2>2. holder \in Threads
    <3>1. waiters # <<>>
      BY DEF QueueInv, TypeInv
    <3> QED BY <3>1 DEF TurnInv, TypeInv, Places
  <2>3. references > 0
    BY DEF ReferenceInv
  <2>4. useCount[holder] > 0 /\ pc[holder] # "wait"
    BY <2>2 DEF UseInv
  <2>5. hasTransaction(holder) \/ InCall(holder)
    BY <2>2, <2>4 DEF UseInv
  <2>6. pc[holder] # "again"
    BY <2>2, <2>5 DEF UseInv, InCall
  <2>7. CASE pc[holder] = "idle"
    BY <2>1, <2>2, <2>3, <2>5, <2>7 DEF InCall, CanGoOn, Free
  <2>8. CASE pc[holder] # "idle"
    BY <2>1, <2>2, <2>4, <2>6, <2>8 DEF CanGoOn, TypeInv, Places
  <2> QED BY <2>7, <2>8
<1> QED BY <1>1, TurnHolds, PTL

(* What AcquireConnection and ReleaseConnection do is what Lending says. *)
LEMMA InsertLast ==
  ASSUME NEW S, NEW s \in Seq(S), NEW e \in S
  PROVE  Pool!InsertAt(s, Len(s) + 1, e) = Append(s, e)
<1> SUFFICES ASSUME NEW i \in Nat, i = Len(s) + 1 PROVE Pool!InsertAt(s, i, e) = Append(s, e)
  OBVIOUS
<1> DEFINE A == SubSeq(s, 1, i - 1)
           B == SubSeq(s, i, Len(s))
<1>1. /\ Len(s) \in Nat /\ \A k \in 1 .. Len(s) : s[k] \in S
  BY LenProperties, ElementOfSeq
<1>2. A = s
  BY <1>1
<1>3. B = << >>
  BY <1>1
<1>4. Pool!InsertAt(s, i, e) = A \o <<e>> \o B
  BY DEF Pool!InsertAt
<1> HIDE DEF A, B
<1>5. s \o <<e>> = Append(s, e) /\ Append(s, e) \in Seq(S)
  BY <1>1
<1>6. Append(s, e) \o << >> = Append(s, e)
  BY <1>5
<1> QED BY <1>2, <1>3, <1>4, <1>5, <1>6

Entry(t) == [thread |-> t, priority |-> 0]
LineOf(q) == [i \in DOMAIN q |-> Entry(q[i])]
Entries == [thread : Threads, priority : {0}]

LEMMA LineOfSeq ==
  ASSUME NEW q \in Seq(Threads)
  PROVE  /\ LineOf(q) \in Seq(Entries) /\ Len(LineOf(q)) = Len(q) /\ Len(q) \in Nat
         /\ DOMAIN LineOf(q) = 1 .. Len(q)
         /\ \A i \in 1 .. Len(q) : LineOf(q)[i] = Entry(q[i]) /\ q[i] \in Threads
         /\ LineOf(q) = << >> <=> q = << >>
<1>1. /\ Len(q) \in Nat /\ DOMAIN q = 1 .. Len(q) /\ \A k \in 1 .. Len(q) : q[k] \in Threads
  BY LenProperties, ElementOfSeq
<1>2. LineOf(q) \in [1 .. Len(q) -> Entries]
  BY <1>1 DEF LineOf, Entry, Entries
<1>3. LineOf(q) \in Seq(Entries) /\ Len(LineOf(q)) = Len(q)
  BY <1>1, <1>2
<1> QED BY <1>1, <1>2, <1>3 DEF LineOf

LEMMA LineOfAppend ==
  ASSUME NEW q \in Seq(Threads), NEW t \in Threads
  PROVE  LineOf(Append(q, t)) = Pool!InsertAt(LineOf(q), Len(LineOf(q)) + 1, Entry(t))
<1>1. Append(q, t) \in Seq(Threads) /\ Len(Append(q, t)) = Len(q) + 1 /\ Entry(t) \in Entries
  BY DEF Entry, Entries
<1>2. Pool!InsertAt(LineOf(q), Len(LineOf(q)) + 1, Entry(t)) = Append(LineOf(q), Entry(t))
  BY <1>1, LineOfSeq, InsertLast
<1>3. /\ \A i \in 1 .. Len(q) : Append(q, t)[i] = q[i]
      /\ Append(q, t)[Len(q) + 1] = t
  OBVIOUS
<1>4. /\ Append(LineOf(q), Entry(t)) \in Seq(Entries)
      /\ Len(Append(LineOf(q), Entry(t))) = Len(q) + 1
      /\ \A i \in 1 .. Len(q) : Append(LineOf(q), Entry(t))[i] = Entry(q[i])
      /\ Append(LineOf(q), Entry(t))[Len(q) + 1] = Entry(t)
  BY <1>1, LineOfSeq
<1>5. /\ LineOf(Append(q, t)) \in Seq(Entries) /\ Len(LineOf(Append(q, t))) = Len(q) + 1
      /\ \A i \in 1 .. Len(q) + 1 : LineOf(Append(q, t))[i] = Entry(Append(q, t)[i])
  BY <1>1, LineOfSeq
<1>6. \A i \in 1 .. Len(q) + 1 : LineOf(Append(q, t))[i] = Append(LineOf(q), Entry(t))[i]
  BY <1>3, <1>4, <1>5, LineOfSeq
<1>7. LineOf(Append(q, t)) = Append(LineOf(q), Entry(t))
  BY <1>4, <1>5, <1>6, SeqEqual
<1> QED BY <1>2, <1>7

LEMMA LineOfTail ==
  ASSUME NEW q \in Seq(Threads), q # << >>
  PROVE  LineOf(Tail(q)) = Tail(LineOf(q)) /\ Head(LineOf(q)) = Entry(Head(q))
<1>1. /\ Tail(q) \in Seq(Threads) /\ Len(Tail(q)) = Len(q) - 1 /\ Len(q) \in Nat \ {0}
      /\ \A i \in 1 .. Len(q) - 1 : Tail(q)[i] = q[i + 1]
      /\ Head(q) = q[1]
  OBVIOUS
<1>2. /\ Tail(LineOf(q)) \in Seq(Entries) /\ Len(Tail(LineOf(q))) = Len(q) - 1
      /\ \A i \in 1 .. Len(q) - 1 : Tail(LineOf(q))[i] = Entry(q[i + 1])
      /\ Head(LineOf(q)) = Entry(q[1])
  BY <1>1, LineOfSeq
<1>3. /\ LineOf(Tail(q)) \in Seq(Entries) /\ Len(LineOf(Tail(q))) = Len(q) - 1
      /\ \A i \in 1 .. Len(q) - 1 : LineOf(Tail(q))[i] = Entry(Tail(q)[i])
  BY <1>1, LineOfSeq
<1>4. \A i \in 1 .. Len(q) - 1 : LineOf(Tail(q))[i] = Tail(LineOf(q))[i]
  BY <1>1, <1>2, <1>3
<1>5. LineOf(Tail(q)) = Tail(LineOf(q))
  BY <1>2, <1>3, <1>4, SeqEqual
<1> QED BY <1>1, <1>2, <1>5

LEMMA LineIs == Line = LineOf(waiters)
  BY DEF Line, LineOf, Entry

LEMMA StepLends ==
  ASSUME TurnSafe, IInv', [Next]_vars
  PROVE  [Pool!Next]_(Pool!vars)
<1>0. /\ waiters \in Seq(Threads) /\ None \notin Threads /\ holder \in Threads \cup {None}
      /\ poolOpen \in BOOLEAN /\ pc \in [Threads -> Places] /\ QueueInv /\ IInv
      /\ \A t \in Threads : UseInv(t)
  BY SessionAssumption DEF TurnSafe, IInv, ConnectionInv, TypeInv
<1>1. /\ Line = LineOf(waiters) /\ Line' = LineOf(waiters')
      /\ Line = << >> <=> waiters = << >>
      /\ Line \in Seq(Entries) /\ Len(Line) = Len(waiters) /\ Len(waiters) \in Nat
      /\ DOMAIN Line = 1 .. Len(waiters)
      /\ \A i \in 1 .. Len(waiters) : Line[i] = Entry(waiters[i])
  BY <1>0, LineOfSeq, LineIs DEF Line, LineOf, Entry
<1>2. CASE Rests
  <2>1. UNCHANGED <<holder, waiters>> /\ Line' = Line
    BY <1>1, <1>2 DEF Rests, connectionVars
  <2> QED BY <1>2, <2>1 DEF Rests, Pool!Next, Pool!Close, Pool!vars
<1>3. ASSUME NEW t \in Threads, Acquires(t) PROVE [Pool!Next]_(Pool!vars)
  <2>1. UNCHANGED poolOpen
    BY <1>3 DEF Acquires
  <2>2. CASE UNCHANGED <<holder, waiters>>
    BY <1>1, <2>1, <2>2 DEF Pool!vars
  <2>3. CASE poolOpen /\ holder = None /\ waiters = << >> /\ holder' = t /\ UNCHANGED waiters
    <3>1. Pool!Take(t)
      BY <1>1, <2>1, <2>3 DEF Pool!Take
    <3> QED BY <3>1 DEF Pool!Next
  <2>4. CASE /\ poolOpen /\ ~(holder = None /\ waiters = << >>) /\ ~(useCount[t] > 0)
             /\ waiters' = Append(waiters, t) /\ UNCHANGED holder
    <3>1. holder # None /\ holder # t
      <4>1. holder # t
        BY <1>0, <2>4 DEF UseInv
      <4> QED BY <2>4, <4>1 DEF TurnSafe, TurnInv
    <3>2. ~Pool!Waits(t)
      <4>1. pc[t] # "wait"
        BY <1>3 DEF Acquires
      <4>2. \A i \in 1 .. Len(waiters) : waiters[i] # t
        BY <1>0, <2>4, <4>1 DEF QueueInv
      <4> QED BY <1>1, <4>2 DEF Pool!Waits, Entry
    <3>3. Line' = Pool!InsertAt(Line, Len(Line) + 1, [thread |-> t, priority |-> 0])
      BY <1>0, <1>1, <2>4, LineOfAppend DEF Entry
    <3>4. \A j \in 1 .. Len(Line) + 1 - 1 : Line[j].priority >= 0
      BY <1>1 DEF Entry
    <3>5. \A j \in Len(Line) + 1 .. Len(Line) : Line[j].priority < 0
      BY <1>1
    <3>6. Len(Line) + 1 \in 1 .. Len(Line) + 1
      BY <1>1
    <3>7. Pool!Join(t, 0)
      BY <2>1, <2>4, <3>1, <3>2, <3>3, <3>4, <3>5, <3>6 DEF Pool!Join
    <3> QED BY <3>7 DEF Pool!Next
  <2>5. \/ UNCHANGED <<holder, waiters>>
        \/ poolOpen /\ holder = None /\ waiters = << >> /\ holder' = t /\ UNCHANGED waiters
        \/ /\ poolOpen /\ ~(holder = None /\ waiters = << >>) /\ ~(useCount[t] > 0)
           /\ waiters' = Append(waiters, t) /\ UNCHANGED holder
    BY <1>3 DEF Acquires, AcquireConnection, connectionVars
  <2> QED BY <2>2, <2>3, <2>4, <2>5
<1>4. ASSUME NEW t \in Threads, Releases(t) PROVE [Pool!Next]_(Pool!vars)
  <2>1. CASE UNCHANGED <<holder, waiters>>
    BY <1>1, <1>4, <2>1 DEF Pool!vars, Releases
  <2>2. CASE ~(poolOpen /\ waiters # << >>) /\ holder' = None /\ UNCHANGED waiters
    <3>1. Pool!Return(t)
      BY <1>1, <1>4, <2>2 DEF Pool!Return, Releases
    <3> QED BY <3>1 DEF Pool!Next
  <2>3. CASE poolOpen /\ waiters # << >> /\ holder' = Head(waiters) /\ waiters' = Tail(waiters)
    <3>2. Line' = Tail(Line) /\ holder' = Head(Line).thread
      BY <1>0, <1>1, <2>3, LineOfTail DEF Entry
    <3>3. Pool!Return(t)
      BY <1>1, <1>4, <2>3, <3>2 DEF Pool!Return, Releases
    <3> QED BY <3>3 DEF Pool!Next
  <2>4. \/ UNCHANGED <<holder, waiters>>
        \/ ~(poolOpen /\ waiters # << >>) /\ holder' = None /\ UNCHANGED waiters
        \/ poolOpen /\ waiters # << >> /\ holder' = Head(waiters) /\ waiters' = Tail(waiters)
    BY <1>4 DEF Releases, ReleaseConnection, connectionVars
  <2> QED BY <2>1, <2>2, <2>3, <2>4
<1> QED BY <1>0, <1>2, <1>3, <1>4, ConnectionStep

(* Every step of the sessions lends the connection as Lending promises, or  *)
(* does not touch it: to one thread at a time, to whom waits before any     *)
(* newcomer, in the order they came, and to nobody once the database is     *)
(* closed.  That no thread joins the line twice, or joins it for what it    *)
(* holds, is where the use counts of acquireConnection and                  *)
(* releaseConnection (SQLiteSession.java) are needed.                       *)
THEOREM SessionsLendInTurn == Spec => LentInTurn
<1>1. Init => Pool!Init
  BY DEF Init, Pool!Init, Line
<1>2. TurnSafe /\ IInv' /\ [Next]_vars => [Pool!Next]_(Pool!vars)
  BY StepLends
<1> QED BY <1>1, <1>2, TurnHolds, InvariantHolds, PTL DEF Spec, LentInTurn, Pool!Spec

=============================================================================

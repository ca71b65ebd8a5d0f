----------------------- MODULE SQLiteConnectionProofs -----------------------
(* Proofs about SQLiteConnection: the statements in use and their           *)
(* cancellation, for any statements, signals, size of the cache and depth.  *)
EXTENDS SQLiteConnection, TLAPS, SequenceTheorems, FiniteSetTheorems, FunctionTheorems

ObjectStates ==
    [sql : SQLs \cup {"none"}, statement : Statements \cup {0}, inCache : BOOLEAN, inUse : BOOLEAN]

PCs == {"acquired", "running", "ended"}

Frames ==
    [sql : SQLs, object : Objects, statement : Statements, marked : BOOLEAN,
     signal : Signals \cup {NoSignal}, pc : PCs, failed : BOOLEAN]

-----------------------------------------------------------------------------
(* The objects objs, with the cached ones C, the pool pl and the native     *)
(* statements nat, and the calls fr[i] with i in D.                         *)

Live(objs, o) == objs[o].inCache \/ objs[o].inUse

Typed(objs, C, pl, nat, D, fr) ==
    /\ objs \in [Objects -> ObjectStates]
    /\ C \subseteq Objects /\ pl \subseteq Objects /\ nat \subseteq Statements
    /\ \A i \in D : fr[i].object \in Objects /\ fr[i].statement \in Statements

(* An object has a native statement of its own exactly while it is in the   *)
(* cache or in use, and is not in the pool then.                            *)
ObjectsInv(objs, C, pl, nat) ==
    /\ C \cap pl = {}
    /\ \A o \in Objects : objs[o].inCache <=> o \in C
    /\ \A o \in Objects : Live(objs, o) => objs[o].statement \in nat /\ o \notin pl
    /\ \A o \in Objects : objs[o].statement # 0 => Live(objs, o)
    /\ \A s \in nat : \E o \in Objects : objs[o].statement = s
    /\ \A o, p \in Objects :
           objs[o].statement # 0 /\ objs[o].statement = objs[p].statement => o = p

(* An object is in use by one call, and by no other, and a statement that   *)
(* is not finalized is still that of the object of its call.                *)
CallsInv(objs, nat, D, fr) ==
    /\ \A i \in D : fr[i].marked => /\ objs[fr[i].object].inUse
                                    /\ objs[fr[i].object].statement = fr[i].statement
    /\ \A o \in Objects : objs[o].inUse => \E i \in D : fr[i].marked /\ fr[i].object = o
    /\ \A i, j \in D : fr[i].marked /\ i # j => fr[i].object # fr[j].object
    /\ \A i \in D : fr[i].statement \in nat => objs[fr[i].object].statement = fr[i].statement

Consistent(objs, C, pl, nat, D, fr) ==
    /\ Typed(objs, C, pl, nat, D, fr)
    /\ ObjectsInv(objs, C, pl, nat)
    /\ CallsInv(objs, nat, D, fr)

LEMMA StatementNumbers == 0 \notin Statements
  BY ConnectionAssumption DEF Statements

(* The cache lets go of the objects in S. *)
LetsGo(objs, objs2, S, freed) ==
    /\ freed = {o \in S : ~objs[o].inUse}
    /\ objs2 \in [Objects -> ObjectStates]
    /\ \A o \in freed : objs2[o].statement = 0 /\ ~Live(objs2, o)
    /\ \A o \in Objects \ freed :
           /\ objs2[o].statement = objs[o].statement
           /\ objs2[o].inUse <=> objs[o].inUse
           /\ objs2[o].inCache <=> objs[o].inCache /\ o \notin S

LEMMA LettingGo ==
    ASSUME NEW objs, NEW C, NEW pl, NEW nat, NEW D, NEW fr, Consistent(objs, C, pl, nat, D, fr),
           NEW S \in SUBSET C, NEW freed, NEW objs2, LetsGo(objs, objs2, S, freed)
    PROVE  Consistent(objs2, C \ S, pl \cup freed, nat \ {objs[o].statement : o \in freed}, D, fr)
<1> DEFINE nat2 == nat \ {objs[o].statement : o \in freed}
<1> USE DEF Consistent, Live, LetsGo
<1>1. Typed(objs2, C \ S, pl \cup freed, nat2, D, fr)
  BY DEF Typed
<1>2. \A o \in freed : o \in Objects /\ o \in C /\ objs[o].statement # 0 /\ ~objs[o].inUse
  BY StatementNumbers DEF Typed, ObjectsInv
<1>3. \A o \in Objects \ freed : objs[o].statement \in nat => objs[o].statement \in nat2
  BY <1>2 DEF ObjectsInv
<1>4. \A o \in Objects : ~objs2[o].inCache /\ ~objs2[o].inUse => objs2[o].statement = 0
  BY <1>2 DEF ObjectsInv, Typed
<1>5. ObjectsInv(objs2, C \ S, pl \cup freed, nat2)
  <2>1. (C \ S) \cap (pl \cup freed) = {}
    BY DEF ObjectsInv
  <2>2. \A o \in Objects : objs2[o].inCache <=> o \in C \ S
    BY <1>2 DEF ObjectsInv
  <2>3. \A o \in Objects : Live(objs2, o) => objs2[o].statement \in nat2 /\ o \notin pl \cup freed
    BY <1>2, <1>3 DEF ObjectsInv
  <2>4. \A o \in Objects : objs2[o].statement # 0 => Live(objs2, o)
    BY <1>4
  <2>5. \A s \in nat2 : \E o \in Objects : objs2[o].statement = s
    <3> TAKE s \in nat2
    <3>1. PICK o \in Objects : objs[o].statement = s
      BY DEF ObjectsInv
    <3>2. o \notin freed
      BY <3>1
    <3> QED
      BY <3>1, <3>2
  <2>6. \A o, p \in Objects :
            objs2[o].statement # 0 /\ objs2[o].statement = objs2[p].statement => o = p
    <3> SUFFICES ASSUME NEW o \in Objects, NEW p \in Objects, objs2[o].statement # 0,
                        objs2[o].statement = objs2[p].statement
                 PROVE  o = p
      OBVIOUS
    <3>1. o \notin freed /\ p \notin freed
      OBVIOUS
    <3> QED
      BY <3>1 DEF ObjectsInv
  <2> HIDE DEF nat2
  <2> QED
    BY <2>1, <2>2, <2>3, <2>4, <2>5, <2>6 DEF ObjectsInv
<1>6. CallsInv(objs2, nat2, D, fr)
  <2>1. \A i \in D : fr[i].marked => fr[i].object \in Objects \ freed
    BY <1>2 DEF CallsInv, Typed
  <2>2. \A i \in D : fr[i].statement \in nat2 => objs2[fr[i].object].statement = fr[i].statement
    <3> SUFFICES ASSUME NEW i \in D, fr[i].statement \in nat2
                 PROVE  objs2[fr[i].object].statement = fr[i].statement
      OBVIOUS
    <3>1. objs[fr[i].object].statement = fr[i].statement /\ fr[i].object \in Objects
      BY DEF CallsInv, Typed
    <3>2. fr[i].object \notin freed
      BY <3>1
    <3> QED
      BY <3>1, <3>2
  <2>3. \A o \in Objects : objs2[o].inUse => \E i \in D : fr[i].marked /\ fr[i].object = o
    BY DEF CallsInv
  <2>4. \A i \in D : fr[i].marked => /\ objs2[fr[i].object].inUse
                                     /\ objs2[fr[i].object].statement = fr[i].statement
    BY <2>1 DEF CallsInv
  <2> HIDE DEF nat2
  <2> QED
    BY <2>2, <2>3, <2>4 DEF CallsInv
<1> QED
  BY <1>1, <1>5, <1>6

(* A call n begins with a statement s that is prepared for it. *)
Prepares(objs, C, nat, D, fr, o, s, objs2, C2, n, fr2) ==
    /\ o \in Objects /\ o \notin C /\ (\A i \in D : fr[i].object # o) /\ ~Live(objs, o)
    /\ s \in Statements /\ s \notin nat /\ \A i \in D : fr[i].statement # s
    /\ C2 = C \/ C2 = C \cup {o}
    /\ objs2 \in [Objects -> ObjectStates]
    /\ objs2[o].statement = s /\ objs2[o].inUse /\ (objs2[o].inCache <=> o \in C2)
    /\ \A p \in Objects \ {o} : objs2[p] = objs[p]
    /\ n \notin D /\ \A i \in D : fr2[i] = fr[i]
    /\ fr2[n].object = o /\ fr2[n].statement = s /\ fr2[n].marked

LEMMA Preparing ==
    ASSUME NEW objs, NEW C, NEW pl, NEW nat, NEW D, NEW fr, Consistent(objs, C, pl, nat, D, fr),
           NEW o, NEW s, NEW objs2, NEW C2, NEW n, NEW fr2,
           Prepares(objs, C, nat, D, fr, o, s, objs2, C2, n, fr2)
    PROVE  Consistent(objs2, C2, pl \ {o}, nat \cup {s}, D \cup {n}, fr2)
<1> USE DEF Consistent, Live, Prepares
<1>1. Typed(objs2, C2, pl \ {o}, nat \cup {s}, D \cup {n}, fr2)
  BY DEF Typed
<1>2. \A p \in Objects \ {o} : objs[p].statement # s
  BY StatementNumbers DEF ObjectsInv
<1>3. ObjectsInv(objs2, C2, pl \ {o}, nat \cup {s})
  <2>1. C2 \cap (pl \ {o}) = {}
    BY DEF ObjectsInv
  <2>2. \A p \in Objects : objs2[p].inCache <=> p \in C2
    BY DEF ObjectsInv
  <2>3. \A p \in Objects : Live(objs2, p) => objs2[p].statement \in nat \cup {s} /\ p \notin pl \ {o}
    BY DEF ObjectsInv
  <2>4. \A p \in Objects : objs2[p].statement # 0 => Live(objs2, p)
    BY DEF ObjectsInv
  <2>5. \A t \in nat \cup {s} : \E p \in Objects : objs2[p].statement = t
    <3> TAKE t \in nat \cup {s}
    <3>1. CASE t = s
      BY <3>1
    <3>2. CASE t # s
      <4>1. PICK p \in Objects : objs[p].statement = t
        BY <3>2 DEF ObjectsInv
      <4>2. t # 0
        BY <3>2, StatementNumbers DEF Typed
      <4>3. p # o
        BY <4>1, <4>2 DEF ObjectsInv
      <4> QED
        BY <4>1, <4>3
    <3> QED
      BY <3>1, <3>2
  <2>6. \A p, q \in Objects :
            objs2[p].statement # 0 /\ objs2[p].statement = objs2[q].statement => p = q
    BY <1>2 DEF ObjectsInv
  <2> QED
    BY <2>1, <2>2, <2>3, <2>4, <2>5, <2>6 DEF ObjectsInv
<1>4. CallsInv(objs2, nat \cup {s}, D \cup {n}, fr2)
  BY DEF CallsInv, Typed
<1> QED
  BY <1>1, <1>3, <1>4

(* A call n begins with a statement that it finds in the cache. *)
LEMMA Finding ==
    ASSUME NEW objs, NEW C, NEW pl, NEW nat, NEW D, NEW fr, Consistent(objs, C, pl, nat, D, fr),
           NEW o \in C, ~objs[o].inUse,
           NEW n, n \notin D, NEW fr2, \A i \in D : fr2[i] = fr[i],
           fr2[n].object = o, fr2[n].statement = objs[o].statement, ~fr2[n].marked
    PROVE  Consistent(objs, C, pl, nat, D \cup {n}, fr2)
<1> USE DEF Consistent, Live
<1>1. o \in Objects /\ objs[o].statement \in nat
  BY DEF Typed, ObjectsInv
<1>2. Typed(objs, C, pl, nat, D \cup {n}, fr2)
  BY <1>1 DEF Typed
<1>3. CallsInv(objs, nat, D \cup {n}, fr2)
  BY <1>1 DEF CallsInv, Typed
<1> QED
  BY <1>2, <1>3

(* The call n, whose statement is not finalized, ends, and no other call    *)
(* has that statement: its object is not in use any more.                   *)
Unmarks(objs, nat, D, fr, n, objs2) ==
    /\ n \in D /\ fr[n].statement \in nat
    /\ objs2 \in [Objects -> ObjectStates] /\ ~objs2[fr[n].object].inUse
    /\ \A p \in Objects : /\ objs2[p].statement = objs[p].statement
                          /\ objs2[p].inCache <=> objs[p].inCache
                          /\ p # fr[n].object => (objs2[p].inUse <=> objs[p].inUse)
    /\ objs[fr[n].object].inCache

LEMMA Unmarking ==
    ASSUME NEW objs, NEW C, NEW pl, NEW nat, NEW D, NEW fr, Consistent(objs, C, pl, nat, D, fr),
           NEW n, NEW objs2, Unmarks(objs, nat, D, fr, n, objs2)
    PROVE  Consistent(objs2, C, pl, nat, D \ {n}, fr)
<1> USE DEF Consistent, Live, Unmarks
<1> DEFINE o == fr[n].object
<1>1. Typed(objs2, C, pl, nat, D \ {n}, fr)
  BY DEF Typed
<1>2. ObjectsInv(objs2, C, pl, nat)
  BY <1>1 DEF ObjectsInv, Typed
<1>3. \A i \in D \ {n} : fr[i].marked => fr[i].object # o /\ fr[i].object \in Objects
  BY DEF CallsInv, Typed
<1>4. CallsInv(objs2, nat, D \ {n}, fr)
  <2>1. \A p \in Objects : objs2[p].inUse => \E i \in D \ {n} : fr[i].marked /\ fr[i].object = p
    BY DEF CallsInv
  <2>2. \A i \in D \ {n} : fr[i].marked => /\ objs2[fr[i].object].inUse
                                           /\ objs2[fr[i].object].statement = fr[i].statement
    BY <1>3 DEF CallsInv, Typed
  <2>3. \A i, j \in D \ {n} : fr[i].marked /\ i # j => fr[i].object # fr[j].object
    BY DEF CallsInv
  <2>4. \A i \in D \ {n} : fr[i].statement \in nat =>
                               objs2[fr[i].object].statement = fr[i].statement
    BY DEF CallsInv, Typed
  <2> QED
    BY <2>1, <2>2, <2>3, <2>4 DEF CallsInv
<1> QED
  BY <1>1, <1>2, <1>4

(* The call n ends, and its statement, which is not in the cache, is        *)
(* finalized.                                                               *)
Finalizes(objs, nat, D, fr, n, o, objs2) ==
    /\ n \in D /\ fr[n].statement \in nat /\ o = fr[n].object /\ ~objs[o].inCache
    /\ objs2 \in [Objects -> ObjectStates]
    /\ objs2[o].statement = 0 /\ ~Live(objs2, o)
    /\ \A p \in Objects \ {o} : objs2[p] = objs[p]

LEMMA Finalizing ==
    ASSUME NEW objs, NEW C, NEW pl, NEW nat, NEW D, NEW fr, Consistent(objs, C, pl, nat, D, fr),
           NEW n, NEW o, NEW objs2, Finalizes(objs, nat, D, fr, n, o, objs2)
    PROVE  Consistent(objs2, C, pl \cup {o}, nat \ {objs[o].statement}, D \ {n}, fr)
<1> USE DEF Consistent, Live, Finalizes
<1> DEFINE nat2 == nat \ {objs[o].statement}
<1>1. o \in Objects /\ objs[o].statement = fr[n].statement /\ objs[o].statement # 0
  BY StatementNumbers DEF Typed, CallsInv
<1>2. \A p \in Objects \ {o} : objs[p].statement # objs[o].statement
  BY <1>1 DEF ObjectsInv
<1>3. Typed(objs2, C, pl \cup {o}, nat2, D \ {n}, fr)
  BY <1>1 DEF Typed
<1>4. ObjectsInv(objs2, C, pl \cup {o}, nat2)
  <2>1. C \cap (pl \cup {o}) = {}
    BY <1>1 DEF ObjectsInv
  <2>2. \A p \in Objects : objs2[p].inCache <=> p \in C
    BY <1>1 DEF ObjectsInv
  <2>3. \A p \in Objects : Live(objs2, p) => objs2[p].statement \in nat2 /\ p \notin pl \cup {o}
    BY <1>2 DEF ObjectsInv
  <2>4. \A p \in Objects : objs2[p].statement # 0 => Live(objs2, p)
    BY DEF ObjectsInv
  <2>5. \A s \in nat2 : \E p \in Objects : objs2[p].statement = s
    <3> TAKE s \in nat2
    <3>1. PICK p \in Objects : objs[p].statement = s
      BY DEF ObjectsInv
    <3> QED
      BY <3>1
  <2>6. \A p, q \in Objects :
            objs2[p].statement # 0 /\ objs2[p].statement = objs2[q].statement => p = q
    BY DEF ObjectsInv
  <2> HIDE DEF nat2
  <2> QED
    BY <2>1, <2>2, <2>3, <2>4, <2>5, <2>6 DEF ObjectsInv
<1>5. objs[o].inUse
  BY <1>1 DEF ObjectsInv
<1>6. \A i \in D \ {n} : fr[i].object # o \/ fr[i].statement \notin nat2
  BY <1>1 DEF CallsInv
<1>7. fr[n].marked
  <2>1. PICK i \in D : fr[i].marked /\ fr[i].object = o
    BY <1>1, <1>5 DEF CallsInv
  <2> QED
    BY <2>1 DEF CallsInv
<1>8. CallsInv(objs2, nat2, D \ {n}, fr)
  <2>1. \A p \in Objects : objs2[p].inUse => \E i \in D \ {n} : fr[i].marked /\ fr[i].object = p
    BY DEF CallsInv
  <2>2. \A i \in D \ {n} : fr[i].marked => /\ objs2[fr[i].object].inUse
                                           /\ objs2[fr[i].object].statement = fr[i].statement
    BY <1>7 DEF CallsInv, Typed
  <2>3. \A i, j \in D \ {n} : fr[i].marked /\ i # j => fr[i].object # fr[j].object
    BY DEF CallsInv
  <2>4. \A i \in D \ {n} : fr[i].statement \in nat2 =>
                               objs2[fr[i].object].statement = fr[i].statement
    BY <1>6 DEF CallsInv, Typed
  <2> HIDE DEF nat2
  <2> QED
    BY <2>1, <2>2, <2>3, <2>4 DEF CallsInv
<1> QED
  BY <1>3, <1>4, <1>8

-----------------------------------------------------------------------------
(* Sequences: the cache and the calls. *)

NoRepeats(s) == \A i, j \in DOMAIN s : s[i] = s[j] => i = j

LEMMA WithoutElement ==
    ASSUME NEW s \in Seq(Objects), NoRepeats(s), NEW o \in Elements(s)
    PROVE  /\ Without(s, o) \in Seq(Objects) /\ NoRepeats(Without(s, o))
           /\ Elements(Without(s, o)) = Elements(s) \ {o}
           /\ Len(Without(s, o)) = Len(s) - 1
<1> DEFINE k == CHOOSE i \in DOMAIN s : s[i] = o
           t == Without(s, o)
<1>1. DOMAIN s = 1 .. Len(s) /\ Len(s) \in Nat /\ \A i \in 1 .. Len(s) : s[i] \in Objects
  OBVIOUS
<1>2. k \in 1 .. Len(s) /\ s[k] = o
  BY <1>1 DEF Elements
<1>3. Len(s) - 1 \in Nat
  BY <1>1, <1>2
<1>4. t = [i \in 1 .. Len(s) - 1 |-> IF i < k THEN s[i] ELSE s[i + 1]]
  BY DEF Without
<1> HIDE DEF k
<1>5. \A i \in 1 .. Len(s) - 1 : i \in 1 .. Len(s) /\ i + 1 \in 1 .. Len(s)
  BY <1>1
<1>6. t \in [1 .. Len(s) - 1 -> Objects]
  BY <1>1, <1>4, <1>5
<1>7. t \in Seq(Objects) /\ Len(t) = Len(s) - 1 /\ DOMAIN t = 1 .. Len(s) - 1
  BY <1>3, <1>6, SeqDef
<1>8. \A i \in DOMAIN t : t[i] = IF i < k THEN s[i] ELSE s[i + 1]
  BY <1>4, <1>7
<1>9. NoRepeats(t)
  <2> SUFFICES ASSUME NEW i \in DOMAIN t, NEW j \in DOMAIN t, t[i] = t[j] PROVE i = j
    BY DEF NoRepeats
  <2>1. i \in 1 .. Len(s) /\ j \in 1 .. Len(s) /\ i + 1 \in 1 .. Len(s) /\ j + 1 \in 1 .. Len(s)
    BY <1>5, <1>7
  <2> QED
    BY <1>1, <1>2, <1>8, <2>1 DEF NoRepeats
<1>10. \A x \in Elements(t) : x \in Elements(s) \ {o}
  <2> TAKE x \in Elements(t)
  <2>1. PICK i \in DOMAIN t : x = t[i]
    BY DEF Elements
  <2>2. i \in 1 .. Len(s) /\ i + 1 \in 1 .. Len(s)
    BY <1>5, <1>7, <2>1
  <2> QED
    BY <1>1, <1>2, <1>8, <2>1, <2>2 DEF Elements, NoRepeats
<1>11. \A x \in Elements(s) \ {o} : x \in Elements(t)
  <2> TAKE x \in Elements(s) \ {o}
  <2>1. PICK i \in 1 .. Len(s) : x = s[i] /\ i # k
    BY <1>1, <1>2 DEF Elements
  <2>2. CASE i < k
    <3>1. i \in DOMAIN t
      BY <1>1, <1>2, <1>7, <2>1, <2>2
    <3> QED
      BY <1>8, <2>1, <2>2, <3>1 DEF Elements
  <2>3. CASE i > k
    <3>1. i - 1 \in DOMAIN t /\ ~(i - 1 < k) /\ (i - 1) + 1 = i
      BY <1>1, <1>2, <1>7, <2>1, <2>3
    <3> QED
      BY <1>8, <2>1, <3>1 DEF Elements
  <2> QED
    BY <1>1, <1>2, <2>1, <2>2, <2>3
<1> QED
  BY <1>7, <1>9, <1>10, <1>11

LEMMA Appending ==
    ASSUME NEW s \in Seq(Objects), NoRepeats(s), NEW o \in Objects, o \notin Elements(s)
    PROVE  /\ Append(s, o) \in Seq(Objects) /\ NoRepeats(Append(s, o))
           /\ Elements(Append(s, o)) = Elements(s) \cup {o}
           /\ Len(Append(s, o)) = Len(s) + 1
<1> DEFINE t == Append(s, o)
<1>1. t \in Seq(Objects) /\ Len(t) = Len(s) + 1 /\ DOMAIN t = 1 .. Len(s) + 1
      /\ Len(s) \in Nat /\ DOMAIN s = 1 .. Len(s)
  OBVIOUS
<1>2. t[Len(s) + 1] = o /\ \A i \in 1 .. Len(s) : t[i] = s[i]
  OBVIOUS
<1> HIDE DEF t
<1>3. \A i \in DOMAIN t : i = Len(s) + 1 \/ i \in DOMAIN s
  BY <1>1
<1>4. \A i \in DOMAIN s : i \in DOMAIN t
  BY <1>1
<1>5. NoRepeats(t)
  BY <1>1, <1>2, <1>3 DEF NoRepeats, Elements
<1>6. Elements(t) = Elements(s) \cup {o}
  <2>1. \A x \in Elements(t) : x \in Elements(s) \cup {o}
    BY <1>1, <1>2, <1>3 DEF Elements
  <2>2. \A x \in Elements(s) \cup {o} : x \in Elements(t)
    BY <1>1, <1>2, <1>4 DEF Elements
  <2> QED
    BY <2>1, <2>2
<1> QED
  BY <1>1, <1>5, <1>6 DEF t

LEMMA FirstRemoved ==
    ASSUME NEW s \in Seq(Objects), NoRepeats(s), s # <<>>
    PROVE  /\ Tail(s) \in Seq(Objects) /\ NoRepeats(Tail(s))
           /\ Elements(Tail(s)) = Elements(s) \ {Head(s)} /\ Head(s) \in Elements(s)
           /\ Len(Tail(s)) = Len(s) - 1
<1> DEFINE t == Tail(s)
           n == Len(s)
<1>1. t \in Seq(Objects) /\ Len(t) = n - 1 /\ n \in Nat /\ n >= 1 /\ DOMAIN s = 1 .. n
  OBVIOUS
<1>2. DOMAIN t = 1 .. n - 1 /\ \A i \in 1 .. n - 1 : t[i] = s[i + 1]
  <2>1. DOMAIN t = 1 .. Len(t)
    BY <1>1
  <2>2. \A i \in 1 .. Len(t) : t[i] = s[i + 1]
    OBVIOUS
  <2> QED
    BY <1>1, <2>1, <2>2
<1>3. Head(s) = s[1]
  OBVIOUS
<1> HIDE DEF t, n
<1>4. NoRepeats(t)
  <2> SUFFICES ASSUME NEW i \in DOMAIN t, NEW j \in DOMAIN t, t[i] = t[j] PROVE i = j
    BY DEF NoRepeats
  <2>1. i + 1 \in DOMAIN s /\ j + 1 \in DOMAIN s /\ i \in Nat /\ j \in Nat
    BY <1>1, <1>2
  <2>2. i + 1 = j + 1
    BY <1>2, <2>1 DEF NoRepeats
  <2> QED
    BY <2>1, <2>2
<1>5. \A x \in Elements(t) : x \in Elements(s) \ {s[1]}
  <2> TAKE x \in Elements(t)
  <2>1. PICK i \in DOMAIN t : x = t[i]
    BY DEF Elements
  <2>2. i + 1 \in DOMAIN s /\ i + 1 # 1 /\ 1 \in DOMAIN s
    BY <1>1, <1>2, <2>1
  <2>3. x = s[i + 1]
    BY <1>2, <2>1
  <2> QED
    BY <2>2, <2>3 DEF Elements, NoRepeats
<1>6. \A x \in Elements(s) \ {s[1]} : x \in Elements(t)
  <2> TAKE x \in Elements(s) \ {s[1]}
  <2>1. PICK i \in DOMAIN s : x = s[i] /\ i # 1
    BY DEF Elements
  <2>2. i - 1 \in DOMAIN t /\ (i - 1) + 1 = i
    BY <1>1, <1>2, <2>1
  <2>3. t[i - 1] = s[i]
    BY <1>2, <2>2
  <2> QED
    BY <2>1, <2>2, <2>3 DEF Elements
<1>7. s[1] \in Elements(s)
  BY <1>1 DEF Elements
<1> QED
  BY <1>1, <1>3, <1>4, <1>5, <1>6, <1>7 DEF t, n

(* The image of a set under a function has at most as many elements. *)
LEMMA ImageSize ==
    ASSUME NEW S, IsFiniteSet(S), NEW f, S \subseteq DOMAIN f
    PROVE  LET T == {f[x] : x \in S}
           IN  IsFiniteSet(T) /\ Cardinality(T) <= Cardinality(S)
<1> DEFINE T == {f[x] : x \in S}
           g == [x \in S |-> f[x]]
<1>1. g \in Surjection(S, T)
  BY DEF Surjection
<1> QED
  BY <1>1, FS_Surjection

LEMMA FewElements ==
    ASSUME NEW X, NEW s \in Seq(X)
    PROVE  IsFiniteSet(Elements(s)) /\ Cardinality(Elements(s)) <= Len(s)
           /\ IsFiniteSet(DOMAIN s) /\ Cardinality(DOMAIN s) = Len(s)
<1>1. DOMAIN s = 1 .. Len(s) /\ Len(s) \in Nat
  OBVIOUS
<1>2. IsFiniteSet(1 .. Len(s)) /\ Cardinality(1 .. Len(s)) = Len(s)
  BY <1>1, FS_Interval
<1> QED
  BY <1>1, <1>2, ImageSize DEF Elements

-----------------------------------------------------------------------------
(* The inductive invariant. *)

TypeInv ==
    /\ cache \in Seq(Objects) /\ NoRepeats(cache) /\ Len(cache) <= CacheSize
    /\ frames \in Seq(Frames) /\ Depth <= MaxDepth
    /\ signals \in [Signals -> {"armed", "calling", "canceled"}]

StatementInv == Consistent(objects, Elements(cache), pool, native, DOMAIN frames, frames)

Attached(frame) == frame.signal # NoSignal /\ frame.pc # "acquired"

AttachedCalls(fr) == {i \in DOMAIN fr : Attached(fr[i])}

(* The connection listens to the signal of the outermost call that has one. *)
CancelInv ==
    /\ attachCount = Cardinality(AttachedCalls(frames))
    /\ attachCount = 0 => listening = {} /\ ~canceled
    /\ listening # {} => \E i \in AttachedCalls(frames) :
           listening = {frames[i].signal} /\ \A j \in AttachedCalls(frames) : i <= j
    /\ \A s \in Signals : signals[s] = "calling" => s \in listening
    /\ closed => frames = <<>>

IInv == TypeInv /\ StatementInv /\ CancelInv

LEMMA EmptyElements == Elements(<<>>) = {}
  BY DEF Elements

LEMMA InitIInv == Init => IInv
<1> SUFFICES ASSUME Init PROVE IInv
  OBVIOUS
<1>1. TypeInv
  BY ConnectionAssumption DEF Init, TypeInv, NoRepeats, Depth
<1>2. StatementInv
  <2>1. Recycled \in ObjectStates
    BY DEF Recycled, ObjectStates
  <2>2. \A o \in Objects : objects[o] = Recycled
    BY DEF Init
  <2>3. Typed(objects, {}, {}, {}, {}, frames)
    BY <2>1 DEF Init, Typed
  <2>4. ObjectsInv(objects, {}, {}, {})
    BY <2>2 DEF ObjectsInv, Live, Recycled
  <2>5. CallsInv(objects, {}, {}, frames)
    BY <2>2 DEF CallsInv, Recycled
  <2>6. DOMAIN frames = {} /\ Elements(cache) = {} /\ pool = {} /\ native = {}
    BY EmptyElements DEF Init
  <2> QED
    BY <2>3, <2>4, <2>5, <2>6 DEF StatementInv, Consistent
<1>3. CancelInv
  <2>1. AttachedCalls(frames) = {}
    BY DEF Init, AttachedCalls
  <2> QED
    BY <2>1, FS_EmptySet DEF Init, CancelInv
<1> QED
  BY <1>1, <1>2, <1>3 DEF IInv

(* The calls. *)
LEMMA FramesSeq ==
    ASSUME IInv
    PROVE  /\ Depth \in Nat /\ DOMAIN frames = 1 .. Depth /\ frames \in [1 .. Depth -> Frames]
           /\ Len(cache) \in Nat
  BY DEF IInv, TypeInv, Depth

(* What the referred objects are, there is always one more. *)
LEMMA Referred ==
    ASSUME IInv, Depth < MaxDepth
    PROVE  LET referred == Elements(cache) \cup {frames[i].object : i \in DOMAIN frames}
           IN  /\ IsFiniteSet(referred) /\ Cardinality(referred) < CacheSize + MaxDepth
               /\ referred \subseteq Objects
<1> DEFINE C == Elements(cache)
           F == {frames[i].object : i \in DOMAIN frames}
           f == [i \in DOMAIN frames |-> frames[i].object]
<1>1. IsFiniteSet(C) /\ Cardinality(C) <= Len(cache) /\ Len(cache) \in Nat
  BY FewElements DEF IInv, TypeInv
<1>2. IsFiniteSet(DOMAIN frames) /\ Cardinality(DOMAIN frames) = Depth /\ Depth \in Nat
  BY FewElements DEF IInv, TypeInv, Depth
<1>3. IsFiniteSet(F) /\ Cardinality(F) <= Depth
  <2>1. F = {f[i] : i \in DOMAIN frames}
    OBVIOUS
  <2> HIDE DEF f
  <2>2. DOMAIN frames \subseteq DOMAIN f
    BY DEF f
  <2> HIDE DEF F
  <2> QED
    BY <1>2, <2>1, <2>2, ImageSize
<1> HIDE DEF C, F
<1>4. IsFiniteSet(C \cup F) /\ Cardinality(C \cup F) <= Cardinality(C) + Cardinality(F)
  <2>1. IsFiniteSet(C \cup F)
        /\ Cardinality(C \cup F) = Cardinality(C) + Cardinality(F) - Cardinality(C \cap F)
    BY <1>1, <1>3, FS_Union
  <2>2. IsFiniteSet(C \cap F)
    BY <1>1, FS_Intersection
  <2>3. Cardinality(C) \in Nat /\ Cardinality(F) \in Nat /\ Cardinality(C \cap F) \in Nat
    BY <1>1, <1>3, <2>2, FS_CardinalityType
  <2> QED
    BY <2>1, <2>3
<1>5. Cardinality(C) \in Nat /\ Cardinality(F) \in Nat /\ Cardinality(C \cup F) \in Nat
  BY <1>1, <1>3, <1>4, FS_CardinalityType
<1>6. Len(cache) <= CacheSize /\ CacheSize \in Nat /\ MaxDepth \in Nat
  BY ConnectionAssumption DEF IInv, TypeInv
<1>7. Cardinality(C \cup F) < CacheSize + MaxDepth
  BY <1>1, <1>2, <1>3, <1>4, <1>5, <1>6
<1>8. C \subseteq Objects /\ F \subseteq Objects
  BY DEF C, F, IInv, StatementInv, Consistent, Typed
<1> QED
  BY <1>4, <1>7, <1>8 DEF C, F

LEMMA OneMore ==
    ASSUME NEW T, IsFiniteSet(T), Cardinality(T) < CacheSize + MaxDepth
    PROVE  \E x \in 1 .. CacheSize + MaxDepth + 1 : x \notin T
<1> DEFINE n == CacheSize + MaxDepth + 1
<1>1. n \in Nat /\ n >= 1 /\ CacheSize + MaxDepth < n
  BY ConnectionAssumption
<1> HIDE DEF n
<1>2. IsFiniteSet(1 .. n) /\ Cardinality(1 .. n) = n
  BY <1>1, FS_Interval
<1>3. SUFFICES ASSUME 1 .. n \subseteq T PROVE FALSE
  BY DEF n
<1>4. Cardinality(1 .. n) <= Cardinality(T)
  BY <1>3, FS_Subset
<1>5. Cardinality(T) \in Nat /\ CacheSize + MaxDepth \in Nat
  BY FS_CardinalityType, ConnectionAssumption
<1> QED
  BY <1>1, <1>2, <1>4, <1>5

LEMMA NewObjectIsFree ==
    ASSUME IInv, Defined, Depth < MaxDepth
    PROVE  /\ NewObject \in Objects /\ NewObject \notin Elements(cache)
           /\ \A i \in DOMAIN frames : frames[i].object # NewObject
           /\ ~Live(objects, NewObject)
<1> DEFINE referred == Elements(cache) \cup {frames[i].object : i \in DOMAIN frames}
<1> USE DEF IInv, StatementInv, Consistent
<1>1. \A i \in DOMAIN frames : Live(objects, frames[i].object) /\ frames[i].object \in Objects
  BY StatementNumbers DEF Defined, Alive, CallsInv, ObjectsInv, Typed
<1>2. CASE pool # {}
  <2>1. NewObject \in pool
    BY <1>2 DEF NewObject
  <2>2. NewObject \in Objects
    BY <2>1 DEF Typed
  <2>3. NewObject \notin Elements(cache) /\ ~Live(objects, NewObject)
    BY <2>1, <2>2 DEF ObjectsInv
  <2> QED
    BY <1>1, <2>2, <2>3
<1>3. CASE pool = {}
  <2>1. \E o \in Objects : o \notin referred
    BY Referred, OneMore DEF Objects
  <2>2. NewObject \in Objects \ referred
    BY <1>3, <2>1 DEF NewObject
  <2>3. ~Live(objects, NewObject)
    BY <2>2 DEF ObjectsInv, CallsInv, Live
  <2> QED
    BY <2>2, <2>3
<1> QED
  BY <1>2, <1>3

LEMMA NewStatementIsNew ==
    ASSUME IInv, Defined, Depth < MaxDepth
    PROVE  /\ NewStatement \in Statements /\ NewStatement \notin native
           /\ \A i \in DOMAIN frames : frames[i].statement # NewStatement
<1> DEFINE referred == Elements(cache) \cup {frames[i].object : i \in DOMAIN frames}
           taken == native \cup {frames[i].statement : i \in DOMAIN frames}
           f == [o \in Objects |-> objects[o].statement]
           T == {f[o] : o \in referred}
<1> USE DEF IInv, StatementInv, Consistent
<1>1. IsFiniteSet(referred) /\ Cardinality(referred) < CacheSize + MaxDepth
      /\ referred \subseteq Objects
  BY Referred
<1>2. IsFiniteSet(T) /\ Cardinality(T) <= Cardinality(referred)
  <2>1. referred \subseteq DOMAIN f
    BY <1>1
  <2> HIDE DEF f, referred
  <2> QED
    BY <1>1, <2>1, ImageSize
<1>3. IsFiniteSet(T) /\ Cardinality(T) < CacheSize + MaxDepth
  <2>1. Cardinality(T) \in Nat /\ Cardinality(referred) \in Nat /\ CacheSize + MaxDepth \in Nat
    BY <1>1, <1>2, FS_CardinalityType, ConnectionAssumption
  <2> HIDE DEF T, referred
  <2> QED
    BY <1>1, <1>2, <2>1
<1>4. \A s \in native : s \in T
  <2> TAKE s \in native
  <2>1. PICK o \in Objects : objects[o].statement = s
    BY DEF ObjectsInv
  <2>2. Live(objects, o)
    BY <2>1, StatementNumbers DEF ObjectsInv, Typed
  <2>3. o \in referred
    BY <2>2 DEF Live, ObjectsInv, CallsInv
  <2> QED
    BY <2>1, <2>3
<1>5. \A s \in taken : s \in T
  BY <1>4 DEF Defined, Alive
<1>6. \E s \in Statements : s \notin taken
  <2>1. \E s \in Statements : s \notin T
    BY <1>3, OneMore DEF Statements
  <2> QED
    BY <1>5, <2>1
<1>7. NewStatement \in Statements \ taken
  <2>1. CASE NewObject \notin taken
    BY <2>1, NewObjectIsFree DEF NewStatement, Statements, Objects
  <2>2. CASE NewObject \in taken
    BY <1>6, <2>2 DEF NewStatement
  <2> QED
    BY <2>1, <2>2
<1> QED
  BY <1>7

-----------------------------------------------------------------------------
(* The statements, action by action. *)

(* EntriesRemoved() of objects in the cache. *)
LEMMA Removing ==
    ASSUME NEW objs, NEW C, NEW pl, NEW nat, NEW D, NEW fr, Consistent(objs, C, pl, nat, D, fr),
           NEW S \in SUBSET C, EntriesRemoved(S, objs, pl, nat)
    PROVE  Consistent(objects', C \ S, pool', native', D, fr)
<1> DEFINE freed == {o \in S : ~objs[o].inUse}
<1>1. /\ objects' = [o \in Objects |-> IF o \in freed THEN Recycled
                                       ELSE [objs[o] EXCEPT !.inCache = @ /\ o \notin S]]
      /\ native' = nat \ {objs[o].statement : o \in freed}
      /\ pool' = pl \cup freed
  BY DEF EntriesRemoved, IsFree
<1>2. objs \in [Objects -> ObjectStates]
  BY DEF Consistent, Typed
<1> HIDE DEF freed
<1>3. Recycled \in ObjectStates
  BY DEF Recycled, ObjectStates
<1>4. \A o \in Objects : [objs[o] EXCEPT !.inCache = @ /\ o \notin S] \in ObjectStates
  BY <1>2 DEF ObjectStates
<1>5. objects' \in [Objects -> ObjectStates]
  BY <1>1, <1>3, <1>4
<1>6. freed \subseteq Objects
  BY DEF freed, Consistent, Typed
<1>7. \A o \in freed : objects'[o].statement = 0 /\ ~Live(objects', o)
  BY <1>1, <1>6 DEF Recycled, Live
<1>8. \A o \in Objects \ freed : objects'[o] = [objs[o] EXCEPT !.inCache = @ /\ o \notin S]
  BY <1>1
<1>9. \A o \in Objects \ freed :
          /\ objects'[o].statement = objs[o].statement
          /\ objects'[o].inUse <=> objs[o].inUse
          /\ objects'[o].inCache <=> objs[o].inCache /\ o \notin S
  <2> TAKE o \in Objects \ freed
  <2>1. objs[o] \in ObjectStates
    BY <1>2
  <2> QED
    BY <1>8, <2>1 DEF ObjectStates
<1>10. LetsGo(objs, objects', S, freed)
  BY <1>5, <1>7, <1>9 DEF LetsGo, freed
<1> QED
  BY <1>1, <1>10, LettingGo

LEMMA NewFrame ==
    ASSUME IInv, Depth < MaxDepth, NEW frame \in Frames, frames' = Append(frames, frame)
    PROVE  /\ frames' \in Seq(Frames) /\ Len(frames') <= MaxDepth
           /\ DOMAIN frames' = DOMAIN frames \cup {Depth + 1} /\ Depth + 1 \notin DOMAIN frames
           /\ frames'[Depth + 1] = frame /\ \A i \in DOMAIN frames : frames'[i] = frames[i]
<1>1. frames \in Seq(Frames) /\ Depth \in Nat /\ DOMAIN frames = 1 .. Depth /\ MaxDepth \in Nat
  BY FramesSeq, ConnectionAssumption DEF IInv, TypeInv
<1>2. frames' \in Seq(Frames) /\ Len(frames') = Depth + 1 /\ DOMAIN frames' = 1 .. Depth + 1
      /\ frames'[Depth + 1] = frame /\ \A i \in 1 .. Depth : frames'[i] = frames[i]
  BY <1>1 DEF Depth
<1> QED
  BY <1>1, <1>2

(* A statement is prepared for a new call, and cached if C2 says so. *)
LEMMA PreparingNew ==
    ASSUME IInv, Defined, Depth < MaxDepth, NEW sql \in SQLs, NEW signal \in Signals \cup {NoSignal},
           NEW cached \in BOOLEAN,
           frames' = Append(frames, Frame(sql, NewObject, NewStatement, TRUE, signal)),
           NEW objs, objs = [objects EXCEPT ![NewObject] =
               [sql |-> sql, statement |-> NewStatement, inCache |-> cached, inUse |-> TRUE]],
           NEW C2, C2 = IF cached THEN Elements(cache) \cup {NewObject} ELSE Elements(cache)
    PROVE  /\ Consistent(objs, C2, PoolAfter, native \cup {NewStatement}, DOMAIN frames', frames')
           /\ frames' \in Seq(Frames) /\ Len(frames') <= MaxDepth
<1> DEFINE o == NewObject
           s == NewStatement
           frame == Frame(sql, o, s, TRUE, signal)
           r == [sql |-> sql, statement |-> s, inCache |-> cached, inUse |-> TRUE]
<1>1. o \in Objects /\ o \notin Elements(cache) /\ ~Live(objects, o)
      /\ \A i \in DOMAIN frames : frames[i].object # o
  BY NewObjectIsFree
<1>2. s \in Statements /\ s \notin native /\ \A i \in DOMAIN frames : frames[i].statement # s
  BY NewStatementIsNew
<1>3. frame \in Frames /\ frame.object = o /\ frame.statement = s /\ frame.marked
  BY <1>1, <1>2 DEF Frame, Frames, PCs
<1>4. r \in ObjectStates /\ r.statement = s /\ r.inUse /\ (r.inCache <=> cached)
  BY <1>2 DEF ObjectStates
<1>5. objects \in [Objects -> ObjectStates]
  BY DEF IInv, StatementInv, Consistent, Typed
<1>6. objs = [objects EXCEPT ![o] = r] /\ PoolAfter = pool \ {o}
  BY DEF PoolAfter
<1>7. Consistent(objects, Elements(cache), pool, native, DOMAIN frames, frames)
  BY DEF IInv, StatementInv
<1> HIDE DEF o, s, frame, r
<1>8. objs \in [Objects -> ObjectStates] /\ objs[o] = r /\ \A p \in Objects \ {o} : objs[p] = objects[p]
  BY <1>1, <1>4, <1>5, <1>6
<1>9. frames' = Append(frames, frame)
  BY DEF frame, o, s
<1>10. /\ frames' \in Seq(Frames) /\ Len(frames') <= MaxDepth
       /\ DOMAIN frames' = DOMAIN frames \cup {Depth + 1} /\ Depth + 1 \notin DOMAIN frames
       /\ frames'[Depth + 1] = frame /\ \A i \in DOMAIN frames : frames'[i] = frames[i]
  BY <1>3, <1>9, NewFrame
<1>11. C2 = Elements(cache) \/ C2 = Elements(cache) \cup {o}
  BY DEF o
<1>12. cached <=> o \in C2
  BY <1>1 DEF o
<1>13. objs[o].statement = s /\ objs[o].inUse /\ (objs[o].inCache <=> o \in C2)
  BY <1>4, <1>8, <1>12
<1>14. frames'[Depth + 1].object = o /\ frames'[Depth + 1].statement = s /\ frames'[Depth + 1].marked
  BY <1>3, <1>10
<1>15. Consistent(objs, C2, pool \ {o}, native \cup {s}, DOMAIN frames \cup {Depth + 1}, frames')
  <2>1. Prepares(objects, Elements(cache), native, DOMAIN frames, frames, o, s, objs, C2,
                 Depth + 1, frames')
    BY <1>1, <1>2, <1>8, <1>10, <1>11, <1>13, <1>14 DEF Prepares
  <2> QED
    BY <1>7, <2>1, Preparing
<1> QED
  BY <1>6, <1>10, <1>15 DEF s

(* The part of the invariant about the cache. *)
CacheInv == cache \in Seq(Objects) /\ NoRepeats(cache) /\ Len(cache) <= CacheSize

(* The element o of the cache becomes the one used most recently. *)
LEMMA Touching ==
    ASSUME IInv, NEW o \in Elements(cache), cache' = Append(Without(cache, o), o)
    PROVE  CacheInv' /\ Elements(cache') = Elements(cache)
<1> DEFINE t == Without(cache, o)
<1>1. cache \in Seq(Objects) /\ NoRepeats(cache) /\ Len(cache) <= CacheSize
  BY DEF IInv, TypeInv
<1>2. t \in Seq(Objects) /\ NoRepeats(t) /\ Elements(t) = Elements(cache) \ {o}
      /\ Len(t) = Len(cache) - 1
  BY <1>1, WithoutElement
<1>3. o \in Objects
  BY DEF IInv, StatementInv, Consistent, Typed
<1> HIDE DEF t
<1>4. /\ Append(t, o) \in Seq(Objects) /\ NoRepeats(Append(t, o))
      /\ Elements(Append(t, o)) = Elements(t) \cup {o} /\ Len(Append(t, o)) = Len(t) + 1
  BY <1>2, <1>3, Appending
<1>5. cache' = Append(t, o)
  BY DEF t
<1>6. Len(Append(t, o)) <= CacheSize
  BY <1>1, <1>2, <1>4
<1> QED
  BY <1>1, <1>2, <1>4, <1>5, <1>6 DEF CacheInv

LEMMA PrepareCopyInv ==
    ASSUME IInv, Defined, Depth < MaxDepth, NEW sql \in SQLs, NEW signal \in Signals \cup {NoSignal},
           PrepareCopy(sql, signal), CacheInv', Elements(cache') = Elements(cache), signals' = signals
    PROVE  TypeInv' /\ StatementInv'
<1> DEFINE objs == [objects EXCEPT ![NewObject] =
                [sql |-> sql, statement |-> NewStatement, inCache |-> FALSE, inUse |-> TRUE]]
<1>1. /\ objects' = objs /\ pool' = PoolAfter /\ native' = native \cup {NewStatement}
      /\ frames' = Append(frames, Frame(sql, NewObject, NewStatement, TRUE, signal))
  BY DEF PrepareCopy
<1>2. /\ Consistent(objs, Elements(cache), PoolAfter, native \cup {NewStatement},
                    DOMAIN frames', frames')
      /\ frames' \in Seq(Frames) /\ Len(frames') <= MaxDepth
  BY <1>1, PreparingNew
<1> HIDE DEF objs
<1> QED
  BY <1>1, <1>2 DEF StatementInv, TypeInv, CacheInv, Depth, IInv

LEMMA AcquireCachedInv ==
    ASSUME IInv, Depth < MaxDepth, NEW sql \in SQLs, NEW signal \in Signals \cup {NoSignal},
           NEW o \in Elements(cache), AcquireCached(sql, signal, o), signals' = signals
    PROVE  TypeInv' /\ StatementInv'
<1> DEFINE frame == Frame(sql, o, objects[o].statement, FALSE, signal)
<1>1. CacheInv' /\ Elements(cache') = Elements(cache)
  BY Touching DEF AcquireCached
<1>2. Consistent(objects, Elements(cache), pool, native, DOMAIN frames, frames)
  BY DEF IInv, StatementInv
<1>3. o \in Objects /\ objects[o].statement \in Statements
  BY <1>2 DEF Consistent, Typed, ObjectsInv, Live
<1>4. frame \in Frames /\ frame.object = o /\ frame.statement = objects[o].statement /\ ~frame.marked
  BY <1>3 DEF Frame, Frames, PCs
<1>5. frames' = Append(frames, frame) /\ ~objects[o].inUse
      /\ objects' = objects /\ pool' = pool /\ native' = native
  BY DEF AcquireCached
<1> HIDE DEF frame
<1>6. /\ frames' \in Seq(Frames) /\ Len(frames') <= MaxDepth
      /\ DOMAIN frames' = DOMAIN frames \cup {Depth + 1} /\ Depth + 1 \notin DOMAIN frames
      /\ frames'[Depth + 1] = frame /\ \A i \in DOMAIN frames : frames'[i] = frames[i]
  BY <1>4, <1>5, NewFrame
<1>7. Consistent(objects, Elements(cache), pool, native, DOMAIN frames \cup {Depth + 1}, frames')
  BY <1>2, <1>4, <1>5, <1>6, Finding
<1> QED
  BY <1>1, <1>5, <1>6, <1>7 DEF StatementInv, TypeInv, CacheInv, Depth, IInv

LEMMA AcquireNewInv ==
    ASSUME IInv, Defined, Depth < MaxDepth, NEW sql \in SQLs, NEW signal \in Signals \cup {NoSignal},
           AcquireNew(sql, signal), signals' = signals
    PROVE  TypeInv' /\ StatementInv'
<1>1. CASE sql \notin Cacheable
  <2>1. CacheInv' /\ Elements(cache') = Elements(cache) /\ PrepareCopy(sql, signal)
    BY <1>1 DEF AcquireNew, CacheInv, IInv, TypeInv
  <2> QED
    BY <2>1, PrepareCopyInv
<1>2. CASE sql \in Cacheable
  <2> DEFINE o == NewObject
             full == Len(cache) = CacheSize
             kept == IF full THEN Tail(cache) ELSE cache
             S == IF full THEN {Head(cache)} ELSE {}
             objs == [objects EXCEPT ![o] = [sql |-> sql, statement |-> NewStatement,
                                             inCache |-> TRUE, inUse |-> TRUE]]
             C2 == Elements(cache) \cup {o}
  <2>1. /\ cache' = Append(kept, o)
        /\ EntriesRemoved(S, objs, PoolAfter, native \cup {NewStatement})
        /\ frames' = Append(frames, Frame(sql, o, NewStatement, TRUE, signal))
    BY <1>2 DEF AcquireNew
  <2>2. /\ Consistent(objs, C2, PoolAfter, native \cup {NewStatement}, DOMAIN frames', frames')
        /\ frames' \in Seq(Frames) /\ Len(frames') <= MaxDepth
    BY <2>1, PreparingNew
  <2>3. o \in Objects /\ o \notin Elements(cache)
    BY NewObjectIsFree
  <2>4. /\ kept \in Seq(Objects) /\ NoRepeats(kept) /\ Elements(kept) = Elements(cache) \ S
        /\ S \subseteq Elements(cache) /\ Len(kept) + 1 <= CacheSize
    <3>1. /\ cache \in Seq(Objects) /\ NoRepeats(cache) /\ Len(cache) <= CacheSize
          /\ CacheSize \in Nat \ {0} /\ Len(cache) \in Nat
      BY ConnectionAssumption, FramesSeq DEF IInv, TypeInv
    <3>2. CASE full
      <4>1. cache # <<>>
        BY <3>1, <3>2
      <4> QED
        BY <3>1, <3>2, <4>1, FirstRemoved
    <3>3. CASE ~full
      BY <3>1, <3>3
    <3> QED
      BY <3>2, <3>3
  <2> HIDE DEF o, full, kept, S, objs
  <2>5. /\ Append(kept, o) \in Seq(Objects) /\ NoRepeats(Append(kept, o))
        /\ Elements(Append(kept, o)) = Elements(kept) \cup {o} /\ Len(Append(kept, o)) = Len(kept) + 1
    BY <2>3, <2>4, Appending
  <2>6. S \in SUBSET C2 /\ Elements(cache') = C2 \ S
    BY <2>1, <2>3, <2>4, <2>5
  <2>7. Consistent(objects', C2 \ S, pool', native', DOMAIN frames', frames')
    BY <2>1, <2>2, <2>6, Removing
  <2>8. StatementInv'
    BY <2>6, <2>7 DEF StatementInv
  <2>9. cache' \in Seq(Objects) /\ NoRepeats(cache') /\ Len(cache') <= CacheSize
    BY <2>1, <2>4, <2>5
  <2>10. TypeInv'
    BY <2>2, <2>9 DEF TypeInv, Depth, IInv
  <2> QED
    BY <2>8, <2>10
<1> QED
  BY <1>1, <1>2

(* A call goes on: its statement, its object and its mark stay. *)
LEMMA Relabelling ==
    ASSUME NEW objs, NEW C, NEW pl, NEW nat, NEW D, NEW fr, Consistent(objs, C, pl, nat, D, fr),
           NEW fr2, \A i \in D : /\ fr2[i].object = fr[i].object
                                 /\ fr2[i].statement = fr[i].statement
                                 /\ fr2[i].marked = fr[i].marked
    PROVE  Consistent(objs, C, pl, nat, D, fr2)
  BY DEF Consistent, Typed, CallsInv

LEMMA TopFrame ==
    ASSUME IInv, Depth > 0
    PROVE  Depth \in DOMAIN frames /\ Top = frames[Depth] /\ Top \in Frames
  BY FramesSeq DEF Top

LEMMA TopChanged ==
    ASSUME IInv, Depth > 0, NEW f \in Frames, frames' = [frames EXCEPT ![Depth] = f],
           f.object = Top.object, f.statement = Top.statement, f.marked = Top.marked,
           UNCHANGED statementVars, signals' = signals
    PROVE  /\ TypeInv' /\ StatementInv'
           /\ DOMAIN frames' = DOMAIN frames /\ frames'[Depth] = f
           /\ \A i \in DOMAIN frames \ {Depth} : frames'[i] = frames[i]
<1>1. frames \in Seq(Frames) /\ Depth \in Nat /\ DOMAIN frames = 1 .. Depth /\ Depth \in DOMAIN frames
  BY FramesSeq, TopFrame DEF IInv, TypeInv
<1>2. /\ frames' \in Seq(Frames) /\ Len(frames') = Depth /\ DOMAIN frames' = DOMAIN frames
      /\ frames'[Depth] = f /\ \A i \in DOMAIN frames \ {Depth} : frames'[i] = frames[i]
  BY <1>1 DEF Depth
<1>3. TypeInv'
  BY <1>2 DEF TypeInv, statementVars, Depth, IInv
<1>4. \A i \in DOMAIN frames : /\ frames'[i].object = frames[i].object
                               /\ frames'[i].statement = frames[i].statement
                               /\ frames'[i].marked = frames[i].marked
  BY <1>2, TopFrame
<1>5. Consistent(objects, Elements(cache), pool, native, DOMAIN frames, frames')
  BY <1>4, Relabelling DEF IInv, StatementInv
<1> QED
  BY <1>2, <1>3, <1>5 DEF StatementInv, statementVars

LEMMA ReleaseInv ==
    ASSUME IInv, Defined, Depth > 0, NEW resetFails \in BOOLEAN, Release(Top, resetFails)
    PROVE  /\ CacheInv'
           /\ Consistent(objects', Elements(cache'), pool', native', DOMAIN frames \ {Depth}, frames)
<1> DEFINE o == Top.object
           objs == [objects EXCEPT ![o].inUse = FALSE]
           C == Elements(cache)
           D == DOMAIN frames
<1>1. Consistent(objects, C, pool, native, D, frames)
  BY DEF IInv, StatementInv
<1>2. Depth \in D /\ Top = frames[Depth] /\ frames[Depth].statement \in native /\ o \in Objects
      /\ frames[Depth].object = o
  BY TopFrame DEF Frames, Defined, Alive
<1>3. objects \in [Objects -> ObjectStates]
  BY <1>1 DEF Consistent, Typed
<1>4. objs \in [Objects -> ObjectStates] /\ ~objs[o].inUse
      /\ \A p \in Objects : /\ objs[p].statement = objects[p].statement
                            /\ objs[p].inCache <=> objects[p].inCache
                            /\ p # o => objs[p] = objects[p]
  BY <1>2, <1>3 DEF ObjectStates
<1>5. CacheInv
  BY DEF CacheInv, IInv, TypeInv
<1>6. objects[o].inCache <=> o \in C
  BY <1>1, <1>2 DEF Consistent, ObjectsInv
<1>7. CASE objects[o].inCache
  <2>1. Unmarks(objects, native, D, frames, Depth, objs)
    BY <1>2, <1>4, <1>7 DEF Unmarks
  <2>2. Consistent(objs, C, pool, native, D \ {Depth}, frames)
    BY <1>1, <2>1, Unmarking
  <2>3. CASE resetFails
    <3>1. EntriesRemoved({o}, objs, pool, native) /\ cache' = Without(cache, o)
      BY <1>4, <1>2, <1>7, <2>3 DEF Release
    <3>2. o \in C
      BY <1>6, <1>7
    <3>3. CacheInv' /\ Elements(cache') = C \ {o}
      <4>1. /\ cache' \in Seq(Objects) /\ NoRepeats(cache') /\ Elements(cache') = C \ {o}
            /\ Len(cache') = Len(cache) - 1
        BY <1>5, <3>1, <3>2, WithoutElement DEF CacheInv
      <4>2. Len(cache) \in Nat /\ CacheSize \in Nat /\ Len(cache) <= CacheSize
        BY <1>5, FramesSeq, ConnectionAssumption DEF CacheInv
      <4> QED
        BY <4>1, <4>2 DEF CacheInv
    <3> HIDE DEF objs, C, D, o
    <3>4. Consistent(objects', C \ {o}, pool', native', D \ {Depth}, frames)
      BY <2>2, <3>1, <3>2, Removing
    <3> QED
      BY <3>3, <3>4 DEF D
  <2>4. CASE ~resetFails
    <3>1. objects' = objs /\ UNCHANGED <<cache, pool, native>>
      BY <1>4, <1>2, <1>7, <2>4 DEF Release
    <3> HIDE DEF objs
    <3> QED
      BY <1>5, <2>2, <3>1 DEF CacheInv
  <2> QED
    BY <2>3, <2>4
<1>8. CASE ~objects[o].inCache
  <2> DEFINE objs2 == [objs EXCEPT ![o] = Recycled]
  <2>1. /\ objects' = objs2 /\ native' = native \ {objects[o].statement}
        /\ pool' = pool \cup {o} /\ UNCHANGED cache
    <3>1. ~objs[o].inCache
      BY <1>2, <1>4, <1>8
    <3>2. /\ objects' = objs2 /\ native' = native \ {objs[o].statement}
          /\ pool' = pool \cup {o} /\ UNCHANGED cache
      BY <3>1 DEF Release
    <3> QED
      BY <1>2, <1>4, <3>2
  <2>2. Recycled \in ObjectStates /\ Recycled.statement = 0 /\ ~Recycled.inUse /\ ~Recycled.inCache
    BY DEF Recycled, ObjectStates
  <2> HIDE DEF objs
  <2>3. /\ objs2 \in [Objects -> ObjectStates] /\ objs2[o] = Recycled
        /\ \A p \in Objects \ {o} : objs2[p] = objects[p]
    BY <1>2, <1>4, <2>2
  <2> HIDE DEF objs2
  <2>4. Finalizes(objects, native, D, frames, Depth, o, objs2)
    BY <1>2, <1>8, <2>2, <2>3 DEF Finalizes, Live
  <2>5. Consistent(objs2, C, pool \cup {o}, native \ {objects[o].statement}, D \ {Depth}, frames)
    BY <1>1, <2>4, Finalizing
  <2> QED
    BY <1>5, <2>1, <2>5 DEF CacheInv
<1> QED
  BY <1>7, <1>8

LEMMA Popped ==
    ASSUME IInv, Depth > 0, Pop
    PROVE  /\ frames' \in Seq(Frames) /\ Len(frames') <= MaxDepth
           /\ DOMAIN frames' = DOMAIN frames \ {Depth}
           /\ \A i \in DOMAIN frames' : frames'[i] = frames[i]
<1>1. frames \in Seq(Frames) /\ Depth \in Nat /\ DOMAIN frames = 1 .. Depth /\ Depth <= MaxDepth
      /\ MaxDepth \in Nat
  BY FramesSeq, ConnectionAssumption DEF IInv, TypeInv
<1>2. frames' = SubSeq(frames, 1, Depth - 1) /\ \A i \in 1 .. Depth - 1 : frames[i] \in Frames
  BY <1>1 DEF Pop
<1>3. /\ frames' \in Seq(Frames) /\ Len(frames') = Depth - 1
      /\ \A i \in 1 .. Depth - 1 : frames'[i] = frames[i]
  BY <1>1, <1>2, SubSeqProperties
<1>4. DOMAIN frames' = 1 .. Depth - 1
  BY <1>3
<1> QED
  BY <1>1, <1>3, <1>4

LEMMA PoppedInv ==
    ASSUME IInv, Defined, Depth > 0, NEW resetFails \in BOOLEAN, Release(Top, resetFails), Pop,
           signals' = signals
    PROVE  TypeInv' /\ StatementInv'
<1>1. /\ CacheInv'
      /\ Consistent(objects', Elements(cache'), pool', native', DOMAIN frames \ {Depth}, frames)
  BY ReleaseInv
<1>2. /\ frames' \in Seq(Frames) /\ Len(frames') <= MaxDepth
      /\ DOMAIN frames' = DOMAIN frames \ {Depth}
      /\ \A i \in DOMAIN frames' : frames'[i] = frames[i]
  BY Popped
<1>3. Consistent(objects', Elements(cache'), pool', native', DOMAIN frames', frames')
  BY <1>1, <1>2, Relabelling
<1> QED
  BY <1>1, <1>2, <1>3 DEF TypeInv, StatementInv, CacheInv, Depth, IInv

LEMMA ClosedInv ==
    ASSUME IInv, Close
    PROVE  TypeInv' /\ StatementInv'
<1>1. Consistent(objects, Elements(cache), pool, native, DOMAIN frames, frames)
  BY DEF IInv, StatementInv
<1>2. Consistent(objects', Elements(cache) \ Elements(cache), pool', native', DOMAIN frames, frames)
  BY <1>1, Removing DEF Close
<1>3. Elements(cache') = Elements(cache) \ Elements(cache) /\ cache' = <<>>
  BY EmptyElements DEF Close
<1>4. frames' = frames /\ signals' = signals
  BY DEF Close
<1> QED
  BY <1>2, <1>3, <1>4, ConnectionAssumption
     DEF StatementInv, TypeInv, NoRepeats, IInv, Depth

-----------------------------------------------------------------------------
(* The cancellation. *)

LEMMA AttachedFinite ==
    ASSUME IInv
    PROVE  /\ IsFiniteSet(AttachedCalls(frames)) /\ AttachedCalls(frames) \subseteq 1 .. Depth
           /\ attachCount \in Nat /\ attachCount = Cardinality(AttachedCalls(frames))
<1>1. DOMAIN frames = 1 .. Depth /\ Depth \in Nat
  BY FramesSeq
<1>2. AttachedCalls(frames) \subseteq 1 .. Depth
  BY <1>1 DEF AttachedCalls
<1>3. IsFiniteSet(AttachedCalls(frames))
  BY <1>1, <1>2, FS_Interval, FS_Subset
<1> QED
  BY <1>2, <1>3, FS_CardinalityType DEF IInv, CancelInv

(* Nothing changes for the signals that are attached. *)
LEMMA SameAttached ==
    ASSUME IInv, AttachedCalls(frames') = AttachedCalls(frames),
           \A i \in AttachedCalls(frames) : frames'[i].signal = frames[i].signal,
           UNCHANGED cancelVars, closed' => frames' = <<>>,
           \A s \in Signals : signals'[s] = "calling" => signals[s] = "calling" \/ s \in listening
    PROVE  CancelInv'
  BY DEF IInv, CancelInv, cancelVars

LEMMA AcquireCancelInv ==
    ASSUME IInv, Depth < MaxDepth, NEW frame \in Frames, frame.pc = "acquired",
           frames' = Append(frames, frame), UNCHANGED cancelVars, signals' = signals, ~closed'
    PROVE  CancelInv'
<1>1. /\ DOMAIN frames' = DOMAIN frames \cup {Depth + 1} /\ frames'[Depth + 1] = frame
      /\ \A i \in DOMAIN frames : frames'[i] = frames[i]
  BY NewFrame
<1>2. AttachedCalls(frames') = AttachedCalls(frames)
  BY <1>1 DEF AttachedCalls, Attached
<1>3. \A i \in AttachedCalls(frames) : frames'[i].signal = frames[i].signal
  BY <1>1 DEF AttachedCalls
<1> QED
  BY <1>2, <1>3, SameAttached

LEMMA AcquireInv ==
    ASSUME IInv, Defined, NEW sql \in SQLs, NEW signal \in Signals \cup {NoSignal},
           Acquire(sql, signal)
    PROVE  IInv'
<1>1. Depth < MaxDepth /\ ~closed /\ UNCHANGED <<cancelVars, signals, closed>>
  BY DEF Acquire
<1>2. TypeInv' /\ StatementInv'
  <2>1. CASE AcquireNew(sql, signal)
    BY <1>1, <2>1, AcquireNewInv
  <2>2. ASSUME NEW o \in CachedFor(sql), AcquireCached(sql, signal, o)
        PROVE  TypeInv' /\ StatementInv'
    BY <1>1, <2>2, AcquireCachedInv DEF CachedFor
  <2>3. ASSUME NEW o \in CachedFor(sql), AcquireCopy(sql, signal, o)
        PROVE  TypeInv' /\ StatementInv'
    <3>1. CacheInv' /\ Elements(cache') = Elements(cache)
      BY <2>3, Touching DEF AcquireCopy, CachedFor
    <3> QED
      BY <1>1, <2>3, <3>1, PrepareCopyInv DEF AcquireCopy
  <2> QED
    BY <2>1, <2>2, <2>3 DEF Acquire
<1>3. \E o, s, marked : frames' = Append(frames, Frame(sql, o, s, marked, signal))
  BY DEF Acquire, AcquireNew, AcquireCached, AcquireCopy, PrepareCopy
<1>4. PICK o, s, marked : frames' = Append(frames, Frame(sql, o, s, marked, signal))
  BY <1>3
<1>5. frames' \in Seq(Frames)
  BY <1>2 DEF TypeInv
<1>6. Frame(sql, o, s, marked, signal) \in Frames
  <2>1. frames \in Seq(Frames)
    BY DEF IInv, TypeInv
  <2> DEFINE frame == Frame(sql, o, s, marked, signal)
  <2> HIDE DEF frame
  <2>2. frames' = Append(frames, frame)
    BY <1>4 DEF frame
  <2>3. Len(frames') = Len(frames) + 1 /\ frames'[Len(frames) + 1] = frame
    BY <2>1, <2>2
  <2>4. frame \in Frames
    BY <1>5, <2>1, <2>3
  <2> QED
    BY <2>4 DEF frame
<1>7. Frame(sql, o, s, marked, signal).pc = "acquired"
  BY DEF Frame
<1>8. CancelInv'
  BY <1>1, <1>4, <1>6, <1>7, AcquireCancelInv
<1> QED
  BY <1>2, <1>8 DEF IInv

(* The top call is replaced by f, and another one is attached or not. *)
LEMMA StartInv == ASSUME IInv, Start PROVE IInv'
<1> DEFINE f == [Top EXCEPT !.pc = "running"]
<1>1. Depth > 0 /\ Top.pc = "acquired" /\ Depth \in DOMAIN frames /\ Top = frames[Depth] /\ Top \in Frames
  BY TopFrame DEF Start
<1>2. f \in Frames /\ f.pc = "running" /\ f.signal = Top.signal
      /\ f.object = Top.object /\ f.statement = Top.statement /\ f.marked = Top.marked
  BY <1>1 DEF Frames, PCs
<1>3. frames' = [frames EXCEPT ![Depth] = f] /\ UNCHANGED <<statementVars, signals, closed>>
  BY <1>1, FramesSeq DEF Start, Goto
<1> HIDE DEF f
<1>4. /\ TypeInv' /\ StatementInv'
      /\ DOMAIN frames' = DOMAIN frames /\ frames'[Depth] = f
      /\ \A i \in DOMAIN frames \ {Depth} : frames'[i] = frames[i]
  BY <1>1, <1>2, <1>3, TopChanged
<1>5. ~closed
  BY <1>1, FramesSeq DEF IInv, CancelInv
<1>6. CASE Top.signal = NoSignal
  <2>1. AttachedCalls(frames') = AttachedCalls(frames)
    BY <1>1, <1>2, <1>4, <1>6 DEF AttachedCalls, Attached
  <2>2. \A i \in AttachedCalls(frames) : frames'[i].signal = frames[i].signal
    BY <1>1, <1>2, <1>4 DEF AttachedCalls
  <2>3. CancelInv'
    BY <1>3, <1>5, <1>6, <2>1, <2>2, SameAttached DEF Start
  <2> QED
    BY <1>4, <2>3 DEF IInv
<1>7. CASE Top.signal # NoSignal
  <2> DEFINE A == AttachedCalls(frames)
             A2 == AttachedCalls(frames')
  <2>1. A2 = A \cup {Depth} /\ Depth \notin A
    BY <1>1, <1>2, <1>4, <1>7 DEF AttachedCalls, Attached
  <2>2. \A i \in A : frames'[i].signal = frames[i].signal
    BY <1>4 , <2>1 DEF AttachedCalls
  <2>3. IsFiniteSet(A) /\ A \subseteq 1 .. Depth /\ attachCount \in Nat /\ attachCount = Cardinality(A)
        /\ Depth \in Nat
    BY AttachedFinite, FramesSeq
  <2>4. /\ attachCount' = attachCount + 1
        /\ IF attachCount = 0 THEN canceled' = FALSE /\ listening' = {Top.signal}
           ELSE UNCHANGED <<canceled, listening>>
    BY <1>7 DEF Start, nativeResetCancel
  <2>5. CancelInv
    BY DEF IInv
  <2> HIDE DEF A, A2
  <2>6. attachCount' = Cardinality(A2) /\ attachCount' # 0
    BY <2>1, <2>3, <2>4, FS_AddElement
  <2>7. listening' # {} => \E i \in A2 : listening' = {frames'[i].signal} /\ \A j \in A2 : i <= j
    <3>1. CASE attachCount = 0
      <4>1. A = {}
        BY <2>3, <3>1, FS_EmptySet
      <4> QED
        BY <1>2, <1>4, <2>1, <2>3, <2>4, <3>1, <4>1
    <3>2. CASE attachCount # 0
      <4>1. SUFFICES ASSUME listening' # {}
                     PROVE  \E i \in A2 : listening' = {frames'[i].signal} /\ \A j \in A2 : i <= j
        OBVIOUS
      <4>2. PICK i \in A : listening = {frames[i].signal} /\ \A j \in A : i <= j
        BY <2>4, <2>5, <3>2, <4>1 DEF CancelInv, A
      <4>3. \A j \in A2 : i <= j
        BY <2>1, <2>3, <4>2
      <4> QED
        BY <2>1, <2>2, <2>4, <3>2, <4>2, <4>3
    <3> QED
      BY <3>1, <3>2
  <2>8. \A s \in Signals : signals'[s] = "calling" => s \in listening'
    BY <1>3, <2>4, <2>5 DEF CancelInv
  <2>9. CancelInv'
    BY <1>3, <1>5, <2>6, <2>7, <2>8 DEF CancelInv, A2
  <2> QED
    BY <1>4, <2>9 DEF IInv
<1> QED
  BY <1>6, <1>7

LEMMA EndInv == ASSUME IInv, NEW failed \in BOOLEAN, End(failed) PROVE IInv'
<1> DEFINE f == [[Top EXCEPT !.pc = "ended"] EXCEPT !.failed = failed]
<1>1. Depth > 0 /\ Top.pc = "running" /\ Depth \in DOMAIN frames /\ Top = frames[Depth] /\ Top \in Frames
  BY TopFrame DEF End
<1>2. f \in Frames /\ f.pc = "ended" /\ f.signal = Top.signal
      /\ f.object = Top.object /\ f.statement = Top.statement /\ f.marked = Top.marked
  BY <1>1 DEF Frames, PCs
<1>3. frames' = [frames EXCEPT ![Depth] = f]
      /\ UNCHANGED <<statementVars, cancelVars, signals, closed>>
  BY <1>1, FramesSeq DEF End
<1> HIDE DEF f
<1>4. /\ TypeInv' /\ StatementInv'
      /\ DOMAIN frames' = DOMAIN frames /\ frames'[Depth] = f
      /\ \A i \in DOMAIN frames \ {Depth} : frames'[i] = frames[i]
  BY <1>1, <1>2, <1>3, TopChanged
<1>5. ~closed
  BY <1>1, FramesSeq DEF IInv, CancelInv
<1>6. AttachedCalls(frames') = AttachedCalls(frames)
  BY <1>1, <1>2, <1>4 DEF AttachedCalls, Attached
<1>7. \A i \in AttachedCalls(frames) : frames'[i].signal = frames[i].signal
  BY <1>1, <1>2, <1>4 DEF AttachedCalls
<1>8. CancelInv'
  BY <1>3, <1>5, <1>6, <1>7, SameAttached
<1> QED
  BY <1>4, <1>8 DEF IInv

LEMMA RefuseInv == ASSUME IInv, Defined, Refuse PROVE IInv'
<1>1. Depth > 0 /\ Top.pc = "acquired" /\ Depth \in DOMAIN frames /\ Top = frames[Depth]
  BY TopFrame DEF Refuse
<1>2. TypeInv' /\ StatementInv'
  BY <1>1, PoppedInv DEF Refuse
<1>3. DOMAIN frames' = DOMAIN frames \ {Depth} /\ \A i \in DOMAIN frames' : frames'[i] = frames[i]
  BY <1>1, Popped DEF Refuse
<1>4. AttachedCalls(frames') = AttachedCalls(frames)
  BY <1>1, <1>3 DEF AttachedCalls, Attached
<1>5. \A i \in AttachedCalls(frames) : frames'[i].signal = frames[i].signal
  BY <1>3, <1>4 DEF AttachedCalls
<1>6. ~closed
  BY <1>1, FramesSeq DEF IInv, CancelInv
<1>7. CancelInv'
  BY <1>4, <1>5, <1>6, SameAttached DEF Refuse
<1> QED
  BY <1>2, <1>7 DEF IInv

LEMMA ReturnInv == ASSUME IInv, Defined, Return PROVE IInv'
<1>1. Depth > 0 /\ Top.pc = "ended" /\ Depth \in DOMAIN frames /\ Top = frames[Depth] /\ Top \in Frames
  BY TopFrame DEF Return
<1>2. PICK resetFails \in BOOLEAN : Release(Top, resetFails)
  BY <1>1 DEF Return, ResetFails, Frames
<1>3. Detach(Top.signal) /\ Pop /\ UNCHANGED <<signals, closed>>
  BY DEF Return
<1>4. TypeInv' /\ StatementInv'
  BY <1>1, <1>2, <1>3, PoppedInv
<1>5. DOMAIN frames' = DOMAIN frames \ {Depth} /\ \A i \in DOMAIN frames' : frames'[i] = frames[i]
  BY <1>1, <1>3, Popped
<1>6. ~closed
  BY <1>1, FramesSeq DEF IInv, CancelInv
<1>7. CASE Top.signal = NoSignal
  <2>1. AttachedCalls(frames') = AttachedCalls(frames)
    BY <1>1, <1>5, <1>7 DEF AttachedCalls, Attached
  <2>2. \A i \in AttachedCalls(frames) : frames'[i].signal = frames[i].signal
    BY <1>5, <2>1 DEF AttachedCalls
  <2>3. CancelInv'
    BY <1>3, <1>6, <1>7, <2>1, <2>2, SameAttached DEF Detach
  <2> QED
    BY <1>4, <2>3 DEF IInv
<1>8. CASE Top.signal # NoSignal
  <2> DEFINE A == AttachedCalls(frames)
             A2 == AttachedCalls(frames')
  <2>1. A2 = A \ {Depth} /\ Depth \in A
    BY <1>1, <1>5, <1>8 DEF AttachedCalls, Attached
  <2>2. \A i \in A2 : frames'[i].signal = frames[i].signal
    BY <1>5 DEF AttachedCalls
  <2>3. IsFiniteSet(A) /\ A \subseteq 1 .. Depth /\ attachCount \in Nat /\ attachCount = Cardinality(A)
        /\ Depth \in Nat
    BY AttachedFinite, FramesSeq
  <2>4. /\ attachCount' = attachCount - 1
        /\ IF attachCount = 1
           THEN signals[Top.signal] # "calling" /\ listening' = {} /\ canceled' = FALSE
           ELSE UNCHANGED <<listening, canceled>>
    BY <1>3, <1>8 DEF Detach, nativeResetCancel
  <2>5. CancelInv
    BY DEF IInv
  <2> HIDE DEF A, A2
  <2>6. attachCount' = Cardinality(A2)
    BY <2>1, <2>3, <2>4, FS_RemoveElement
  <2>7. CASE attachCount = 1
    <3>1. A = {Depth}
      <4>1. IsFiniteSet(A) /\ Cardinality(A) = 1
        BY <2>3, <2>7
      <4>2. PICK i : A = {i}
        BY <4>1, FS_Singleton
      <4> QED
        BY <2>1, <4>2
    <3>2. listening # {} => listening = {Top.signal}
      BY <1>1, <2>5, <3>1 DEF CancelInv, A
    <3>3. \A s \in Signals : signals[s] # "calling"
      BY <2>4, <2>5, <2>7, <3>2 DEF CancelInv
    <3> QED
      BY <1>3, <1>4, <1>6, <2>4, <2>6, <2>7, <3>3 DEF CancelInv, IInv, A2
  <2>8. CASE attachCount # 1
    <3>1. attachCount' # 0 /\ listening' = listening /\ canceled' = canceled
      BY <2>3, <2>4, <2>8
    <3>2. A # {Depth}
      BY <2>3, <2>8, FS_Singleton
    <3>3. PICK k \in A : k # Depth
      BY <2>1, <3>2
    <3>4. listening # {} => \E i \in A2 : listening = {frames'[i].signal} /\ \A j \in A2 : i <= j
      <4>1. SUFFICES ASSUME listening # {}
                     PROVE  \E i \in A2 : listening = {frames'[i].signal} /\ \A j \in A2 : i <= j
        OBVIOUS
      <4>2. PICK i \in A : listening = {frames[i].signal} /\ \A j \in A : i <= j
        BY <2>5, <4>1 DEF CancelInv, A
      <4>3. i # Depth
        BY <2>3, <3>3, <4>2
      <4> QED
        BY <2>1, <2>2, <4>2, <4>3
    <3>5. CancelInv'
      BY <1>3, <1>6, <2>5, <2>6, <3>1, <3>4 DEF CancelInv, A2
    <3> QED
      BY <1>4, <3>5 DEF IInv
  <2> QED
    BY <2>7, <2>8
<1> QED
  BY <1>7, <1>8

LEMMA TouchedInv == ASSUME IInv, NEW o \in Objects, IsPreparedStatementInCache(o) PROVE IInv'
<1>1. CacheInv' /\ Elements(cache') = Elements(cache)
  BY Touching DEF IsPreparedStatementInCache
<1>2. UNCHANGED <<objects, pool, native, frames, cancelVars, signals, closed>>
  BY DEF IsPreparedStatementInCache
<1>3. CancelInv'
  BY <1>2 DEF IInv, CancelInv, cancelVars
<1> QED
  BY <1>1, <1>2, <1>3 DEF IInv, TypeInv, StatementInv, CacheInv, Depth

LEMMA CloseInv == ASSUME IInv, Close PROVE IInv'
<1>1. frames = <<>> /\ frames' = frames /\ UNCHANGED <<cancelVars, signals>>
  BY FramesSeq DEF Close, IInv, TypeInv, Depth
<1>2. CancelInv'
  BY <1>1 DEF IInv, CancelInv, cancelVars
<1> QED
  BY <1>2, ClosedInv DEF IInv

LEMMA CancelingInv == ASSUME IInv, NEW s \in Signals, Cancel(s) \/ OnCancel(s) PROVE IInv'
<1>1. UNCHANGED <<statementVars, frames, attachCount, listening, closed>>
  BY DEF Cancel, OnCancel, cancelVars
<1>2. StatementInv'
  BY <1>1 DEF IInv, StatementInv, statementVars
<1>3. TypeInv'
  BY <1>1 DEF IInv, TypeInv, statementVars, Depth, Cancel, OnCancel
<1>4. CASE Cancel(s)
  <2>1. \A t \in Signals : signals'[t] = "calling" => t \in listening
    BY <1>4 DEF Cancel, IInv, CancelInv, TypeInv
  <2> QED
    BY <1>1, <1>2, <1>3, <1>4, <2>1 DEF Cancel, cancelVars, IInv, CancelInv
<1>5. CASE OnCancel(s)
  <2>1. attachCount # 0
    BY <1>5 DEF OnCancel, IInv, CancelInv
  <2>2. \A t \in Signals : signals'[t] = "calling" => t \in listening
    BY <1>5 DEF OnCancel, IInv, CancelInv, TypeInv
  <2> QED
    BY <1>1, <1>2, <1>3, <2>1, <2>2 DEF IInv, CancelInv
<1> QED
  BY <1>4, <1>5

LEMMA NextIInv == IInv /\ [Next]_vars => IInv'
<1> SUFFICES ASSUME IInv, [Next]_vars PROVE IInv'
  OBVIOUS
<1>1. ASSUME Defined, NEW sql \in SQLs, NEW signal \in Signals \cup {NoSignal}, Acquire(sql, signal)
      PROVE  IInv'
  BY <1>1, AcquireInv
<1>2. CASE Defined /\ (Start \/ Refuse \/ Return)
  BY <1>2, StartInv, RefuseInv, ReturnInv
<1>3. ASSUME NEW failed \in BOOLEAN, End(failed) PROVE IInv'
  BY <1>3, EndInv
<1>4. ASSUME NEW o \in Objects, IsPreparedStatementInCache(o) PROVE IInv'
  BY <1>4, TouchedInv
<1>5. CASE Close
  BY <1>5, CloseInv
<1>6. ASSUME NEW s \in Signals, Cancel(s) \/ OnCancel(s) PROVE IInv'
  BY <1>6, CancelingInv
<1>7. CASE UNCHANGED vars
  BY <1>7 DEF vars, statementVars, cancelVars, IInv, TypeInv, StatementInv, CancelInv, Depth
<1> QED
  BY <1>1, <1>2, <1>3, <1>4, <1>5, <1>6, <1>7 DEF Next

-----------------------------------------------------------------------------
(* The properties. *)

THEOREM Invariance == Spec => []IInv
  BY InitIInv, NextIInv, PTL DEF Spec

(* A statement that a call has marked as in use is not finalized, and its   *)
(* object not given to another call, until the call ends, whatever the      *)
(* calls that it leads to do to the cache.                                  *)
THEOREM InUse == Spec => []InUseIsKept
<1>1. IInv => InUseIsKept
  BY DEF IInv, StatementInv, Consistent, Typed, CallsInv, ObjectsInv, Live, InUseIsKept, Alive
<1> QED
  BY <1>1, Invariance, PTL

(* Every native statement can still be reached, to be finalized with the    *)
(* cache or with the call that uses it.                                     *)
THEOREM NoLeak == Spec => []NoStatementLost
<1>1. IInv => NoStatementLost
  <2> SUFFICES ASSUME IInv, NEW s \in native
               PROVE  \/ \E o \in Elements(cache) : objects[o].statement = s
                      \/ \E i \in DOMAIN frames : frames[i].statement = s
    BY DEF NoStatementLost
  <2>1. Consistent(objects, Elements(cache), pool, native, DOMAIN frames, frames)
    BY DEF IInv, StatementInv
  <2>2. PICK o \in Objects : objects[o].statement = s
    BY <2>1 DEF Consistent, ObjectsInv
  <2>3. Live(objects, o)
    BY <2>1, <2>2, StatementNumbers DEF Consistent, ObjectsInv, Typed
  <2> QED
    BY <2>1, <2>2, <2>3 DEF Consistent, ObjectsInv, CallsInv, Live
<1> QED
  BY <1>1, Invariance, PTL

(* A cancellation is delivered, and the flag that interrupts statements is  *)
(* set, only between attachCancellationSignal() and the last                *)
(* detachCancellationSignal(), on a connection that is not closed.          *)
THEOREM CancelOnlyAttached == Spec => []CanceledWhileAttached
<1>1. IInv => CanceledWhileAttached
  <2> SUFFICES ASSUME IInv, NEW s \in Signals, signals[s] = "calling" \/ canceled
               PROVE  attachCount > 0 /\ ~closed
    BY DEF CanceledWhileAttached
  <2>1. attachCount # 0
    BY DEF IInv, CancelInv
  <2>2. attachCount \in Nat /\ AttachedCalls(frames) # {}
    BY <2>1, AttachedFinite, FS_EmptySet
  <2>3. frames # <<>>
    BY <2>2 DEF AttachedCalls
  <2> QED
    BY <2>1, <2>2, <2>3 DEF IInv, CancelInv
<1> QED
  BY <1>1, Invariance, PTL

-----------------------------------------------------------------------------
(* The way of a cancellation to the statements.                            *)

(* The flag remembers the cancellation of the signal that is listened to.  *)
SignalInv ==
    /\ canceled \in BOOLEAN /\ closed \in BOOLEAN
    /\ \A s \in listening : signals[s] = "canceled" => canceled

LEMMA ListensToAttached ==
    ASSUME IInv
    PROVE  /\ listening \subseteq Signals
           /\ \A i \in AttachedCalls(frames) : attachCount > 0
<1>1. \A i \in AttachedCalls(frames) : frames[i].signal \in Signals
  BY FramesSeq DEF AttachedCalls, Attached, Frames
<1>2. listening \subseteq Signals
  BY <1>1 DEF IInv, CancelInv
<1>3. ASSUME NEW i \in AttachedCalls(frames) PROVE attachCount > 0
  BY <1>3, AttachedFinite, FS_EmptySet
<1> QED
  BY <1>2, <1>3

(* The steps of a call do nothing to the flag but to reset it, where nothing *)
(* is listened to or the listening begins.                                  *)
LEMMA CallKeepsFlag ==
    ASSUME IInv, Start \/ Return
    PROVE  /\ signals' = signals /\ closed' = closed
           /\ \/ UNCHANGED <<canceled, listening>>
              \/ attachCount = 0 /\ canceled' = FALSE
                 /\ \A s \in listening' : signals[s] = "armed"
              \/ Return /\ attachCount = 1 /\ canceled' = FALSE /\ listening' = {}
<1>1. CASE Start
  BY <1>1 DEF Start, cancelVars, nativeResetCancel
<1>2. CASE Return
  BY <1>2 DEF Return, Detach, cancelVars, nativeResetCancel
<1> QED
  BY <1>1, <1>2

LEMMA SignalStep == IInv /\ SignalInv /\ [Next]_vars => SignalInv'
<1> SUFFICES ASSUME IInv, SignalInv, [Next]_vars PROVE SignalInv'
  OBVIOUS
<1> USE DEF SignalInv
<1>1. CASE Start \/ Return
  BY <1>1, CallKeepsFlag
<1>2. ASSUME UNCHANGED <<cancelVars, signals, closed>> PROVE SignalInv'
  BY <1>2 DEF cancelVars
<1>3. CASE Close
  BY <1>3 DEF Close, nativeClose, cancelVars
<1>4. ASSUME NEW s \in Signals, Cancel(s) PROVE SignalInv'
  <2>1. UNCHANGED cancelVars /\ closed' = closed
    BY <1>4 DEF Cancel
  <2>2. signals' = [signals EXCEPT ![s] = IF s \in listening THEN "calling" ELSE "canceled"]
    BY <1>4 DEF Cancel
  <2>3. signals \in [Signals -> {"armed", "calling", "canceled"}] /\ listening \subseteq Signals
    BY ListensToAttached DEF IInv, TypeInv
  <2> QED
    BY <2>1, <2>2, <2>3 DEF cancelVars
<1>5. ASSUME NEW s \in Signals, OnCancel(s) PROVE SignalInv'
  BY <1>5 DEF OnCancel
<1>6. ASSUME NEW sql \in SQLs, NEW signal \in Signals \cup {NoSignal}, Acquire(sql, signal)
      PROVE  UNCHANGED <<cancelVars, signals, closed>>
  BY <1>6 DEF Acquire
<1>7. ASSUME NEW failed \in BOOLEAN, End(failed) PROVE UNCHANGED <<cancelVars, signals, closed>>
  BY <1>7 DEF End
<1>8. ASSUME NEW o \in Objects, IsPreparedStatementInCache(o)
      PROVE  UNCHANGED <<cancelVars, signals, closed>>
  BY <1>8 DEF IsPreparedStatementInCache
<1>9. CASE Refuse \/ UNCHANGED vars
  BY <1>9, <1>2 DEF Refuse, vars
<1> QED
  BY <1>1, <1>2, <1>3, <1>4, <1>5, <1>6, <1>7, <1>8, <1>9 DEF Next

LEMMA SignalInvariance == Spec => []SignalInv
<1>1. Init => SignalInv
  BY DEF Init, SignalInv
<1> QED
  BY <1>1, SignalStep, Invariance, PTL DEF Spec

(* The objects, the cache and the calls keep their types: the cache never   *)
(* has more than CacheSize statements, and there are as many attached       *)
(* signals as calls at most.                                                *)
THEOREM TypeCorrect == Spec => []TypeOK
<1>1. IInv /\ SignalInv => TypeOK
  <2> SUFFICES ASSUME IInv, SignalInv PROVE TypeOK
    OBVIOUS
  <2>1. /\ objects \in [Objects -> [sql : SQLs \cup {"none"}, statement : Statements \cup {0},
                                    inCache : BOOLEAN, inUse : BOOLEAN]]
        /\ pool \subseteq Objects /\ native \subseteq Statements
    BY DEF IInv, StatementInv, Consistent, Typed, ObjectStates
  <2>2. /\ cache \in Seq(Objects) /\ Len(cache) <= CacheSize
        /\ frames \in Seq(Frames) /\ Depth <= MaxDepth
        /\ signals \in [Signals -> {"armed", "calling", "canceled"}]
    BY DEF IInv, TypeInv
  <2>3. attachCount \in 0 .. MaxDepth
    <3>1. /\ IsFiniteSet(AttachedCalls(frames)) /\ AttachedCalls(frames) \subseteq 1 .. Depth
          /\ attachCount \in Nat /\ attachCount = Cardinality(AttachedCalls(frames)) /\ Depth \in Nat
      BY AttachedFinite, FramesSeq
    <3>2. IsFiniteSet(1 .. Depth) /\ Cardinality(1 .. Depth) = Depth
      <4>1. \A n \in Nat : IsFiniteSet(1 .. n) /\ Cardinality(1 .. n) = IF 1 > n THEN 0 ELSE n - 1 + 1
        BY FS_Interval
      <4> QED
        BY <3>1, <4>1
    <3>3. attachCount <= Depth
      BY <3>1, <3>2, FS_Subset
    <3> QED
      BY <2>2, <3>1, <3>3, ConnectionAssumption
  <2> QED
    BY <2>1, <2>2, <2>3, ListensToAttached DEF TypeOK, SignalInv, Frames, PCs
<1> QED
  BY <1>1, Invariance, SignalInvariance, PTL

(* The call at depth d is meant to end: the connection listens to its       *)
(* signal, which is canceled.                                               *)
Meant(s, d) ==
    /\ s \in listening /\ signals[s] # "armed"
    /\ d <= Depth /\ frames[d].signal = s /\ frames[d].pc # "acquired"

(* The listener is on its way or the progress handler of every statement    *)
(* that runs meanwhile returns the flag: at whatever depth it is, the guard *)
(* of Interrupt holds.                                                      *)
CancelIsSeen ==
    \A s \in Signals, d \in 1 .. MaxDepth : Meant(s, d) =>
        attachCount > 0 /\ (signals[s] = "calling" \/ canceled)

(* Nothing takes that back before the call has returned.                    *)
CancelSticks ==
    [][\A s \in Signals, d \in 1 .. MaxDepth : Meant(s, d) =>
         \/ Depth' < d
         \/ /\ Meant(s, d)' /\ (canceled => canceled')
            /\ frames[d].pc = "ended" => frames'[d] = frames[d]]_vars

LEMMA MeantIsAttached ==
    ASSUME IInv, NEW s \in Signals, NEW d \in 1 .. MaxDepth, Meant(s, d)
    PROVE  d \in AttachedCalls(frames) /\ d \in DOMAIN frames /\ attachCount > 0
<1>1. d \in DOMAIN frames
  BY FramesSeq DEF Meant
<1>2. d \in AttachedCalls(frames)
  BY <1>1, ConnectionAssumption DEF Meant, AttachedCalls, Attached
<1> QED
  BY <1>1, <1>2, ListensToAttached

(* A step that keeps the calls up to d but for the one on top of them, and  *)
(* the flag and what is listened to.                                        *)
LEMMA StaysMeant ==
    ASSUME NEW s \in Signals, NEW d \in 1 .. MaxDepth, Meant(s, d), d <= Depth',
           frames'[d] = frames[d], canceled => canceled', listening' = listening,
           signals'[s] # "armed"
    PROVE  /\ Meant(s, d)' /\ (canceled => canceled')
           /\ frames[d].pc = "ended" => frames'[d] = frames[d]
  BY DEF Meant

LEMMA MeantStep ==
    ASSUME IInv, [Next]_vars, NEW s \in Signals, NEW d \in 1 .. MaxDepth, Meant(s, d)
    PROVE  \/ Depth' < d
           \/ /\ Meant(s, d)' /\ (canceled => canceled')
              /\ frames[d].pc = "ended" => frames'[d] = frames[d]
<1> DEFINE Goal == \/ Depth' < d
                   \/ /\ Meant(s, d)' /\ (canceled => canceled')
                      /\ frames[d].pc = "ended" => frames'[d] = frames[d]
<1> SUFFICES Goal
  OBVIOUS
<1>1. d \in AttachedCalls(frames) /\ d \in DOMAIN frames /\ attachCount > 0 /\ attachCount \in Nat
  BY MeantIsAttached, AttachedFinite
<1>2. /\ s \in listening /\ signals[s] # "armed"
      /\ d <= Depth /\ frames[d].signal = s /\ frames[d].pc # "acquired"
      /\ Depth \in Nat /\ frames \in Seq(Frames) /\ DOMAIN frames = 1 .. Depth /\ d \in Nat
  BY FramesSeq, ConnectionAssumption DEF Meant, IInv, TypeInv
<1>3. ASSUME NEW sql \in SQLs, NEW signal \in Signals \cup {NoSignal}, Acquire(sql, signal)
      PROVE  Goal
  <2>1. PICK frame : frames' = Append(frames, frame)
    BY <1>3 DEF Acquire, AcquireNew, AcquireCached, AcquireCopy, PrepareCopy
  <2>2. UNCHANGED <<cancelVars, signals>>
    BY <1>3 DEF Acquire
  <2>3. frames'[d] = frames[d] /\ d <= Depth'
    BY <1>2, <2>1 DEF Depth
  <2> QED
    BY <1>2, <2>2, <2>3, StaysMeant DEF cancelVars
<1>4. CASE Start
  <2>1. d # Depth
    BY <1>2, <1>4 DEF Start, Top
  <2>2. UNCHANGED <<canceled, listening, signals>>
    BY <1>1, <1>4 DEF Start, cancelVars
  <2>3. frames'[d] = frames[d] /\ d <= Depth'
    BY <1>2, <1>4, <2>1 DEF Start, Goto, Depth
  <2> QED
    BY <1>2, <2>2, <2>3, StaysMeant
<1>5. ASSUME NEW failed \in BOOLEAN, End(failed) PROVE Goal
  <2>1. Depth' = Depth /\ UNCHANGED <<cancelVars, signals>>
    BY <1>2, <1>5 DEF End, Depth
  <2>2. CASE d # Depth
    <3>1. frames'[d] = frames[d]
      BY <1>2, <1>5, <2>2 DEF End
    <3> QED
      BY <1>2, <2>1, <3>1, StaysMeant DEF cancelVars
  <2>3. CASE d = Depth
    <3>1. frames[d].pc = "running"
      BY <1>5, <2>3 DEF End, Top
    <3>2. frames[d] \in Frames
      BY <1>2
    <3>3. frames' = [frames EXCEPT ![d].pc = "ended", ![d].failed = failed]
      BY <1>5, <2>3 DEF End
    <3>4. frames'[d] = [[frames[d] EXCEPT !.pc = "ended"] EXCEPT !.failed = failed]
      BY <1>1, <3>3
    <3>5. frames'[d].signal = s /\ frames'[d].pc = "ended"
      BY <1>2, <3>2, <3>4 DEF Frames
    <3> QED
      BY <1>2, <2>1, <3>1, <3>5 DEF Meant, cancelVars
  <2> QED
    BY <2>2, <2>3
<1>6. ASSUME Pop, signals' = signals, d # Depth => UNCHANGED <<canceled, listening>>, Depth > 0
      PROVE  Goal
  <2>1. /\ frames' \in Seq(Frames) /\ DOMAIN frames' = DOMAIN frames \ {Depth}
        /\ \A i \in DOMAIN frames' : frames'[i] = frames[i]
    BY <1>6, Popped
  <2>2. DOMAIN frames' = 1 .. Depth' /\ Depth' \in Nat
    <3>1. ASSUME NEW f \in Seq(Frames) PROVE DOMAIN f = 1 .. Len(f) /\ Len(f) \in Nat
      OBVIOUS
    <3> QED
      BY <2>1, <3>1 DEF Depth
  <2>3. Depth' = Depth - 1
    <3>1. ASSUME NEW m \in Nat, NEW n \in Nat, n > 0, 1 .. m = (1 .. n) \ {n} PROVE m = n - 1
      <4>1. m > 0 => m \in (1 .. n) \ {n}
        BY <3>1
      <4>2. n - 1 > 0 => n - 1 \in 1 .. m
        <5>1. n - 1 > 0 => n - 1 \in 1 .. n /\ n - 1 # n
          BY <3>1
        <5> QED
          BY <3>1, <5>1
      <4> QED
        BY <3>1, <4>1, <4>2
    <3>2. 1 .. Depth' = (1 .. Depth) \ {Depth}
      BY <1>2, <2>1, <2>2
    <3> QED
      BY <1>2, <1>6, <2>2, <3>1, <3>2
  <2>4. CASE d = Depth
    BY <1>2, <2>3, <2>4
  <2>5. CASE d # Depth
    <3>1. frames'[d] = frames[d] /\ d <= Depth'
      BY <1>2, <2>1, <2>3, <2>5
    <3> QED
      BY <1>2, <1>6, <2>5, <3>1, StaysMeant
  <2> QED
    BY <2>4, <2>5
<1>7. CASE Refuse
  BY <1>6, <1>7 DEF Refuse, cancelVars
<1>8. CASE Return
  <2>1. ASSUME d # Depth PROVE UNCHANGED <<canceled, listening>>
    <3>1. Top.signal # NoSignal => attachCount # 1
      <4> SUFFICES ASSUME Top.signal # NoSignal, attachCount = 1 PROVE FALSE
        OBVIOUS
      <4>1. Depth \in AttachedCalls(frames)
        BY <1>2, <1>8 DEF Return, AttachedCalls, Attached, Top
      <4>2. PICK i : AttachedCalls(frames) = {i}
        BY AttachedFinite, FS_Singleton
      <4> QED
        BY <1>1, <2>1, <4>1, <4>2
    <3> QED
      BY <1>8, <3>1 DEF Return, Detach, cancelVars
  <2> QED
    BY <1>6, <1>8, <2>1 DEF Return
<1>9. ASSUME NEW t \in Signals, Cancel(t) \/ OnCancel(t) PROVE Goal
  <2>1. frames' = frames /\ listening' = listening /\ (canceled => canceled')
    BY <1>9 DEF Cancel, OnCancel, cancelVars
  <2>2. signals'[s] # "armed"
    BY <1>2, <1>9 DEF Cancel, OnCancel, IInv, TypeInv
  <2> QED
    BY <1>2, <2>1, <2>2, StaysMeant DEF Depth
<1>10. ASSUME UNCHANGED <<frames, cancelVars, signals>> PROVE Goal
  BY <1>2, <1>10, StaysMeant DEF Depth, cancelVars
<1>11. ASSUME NEW o \in Objects, IsPreparedStatementInCache(o) PROVE Goal
  BY <1>10, <1>11 DEF IsPreparedStatementInCache
<1>12. CASE Close \/ UNCHANGED vars
  BY <1>10, <1>12 DEF Close, vars
<1> HIDE DEF Goal
<1> QED
  BY <1>3, <1>4, <1>5, <1>7, <1>8, <1>9, <1>11, <1>12 DEF Next

(* Once a signal that the connection listens to is canceled, nothing that   *)
(* the call it is meant for leads to, no nested call that begins, attaches  *)
(* a signal of its own, fails or returns, takes it off that call: until it  *)
(* has returned, the flag is set or about to be and every statement on the  *)
(* connection that asks the progress handler is interrupted, and a          *)
(* statement that has ended does not run on (attachCancellationSignal,      *)
(* detachCancellationSignal and onCancel of SQLiteConnection.java).         *)
THEOREM CancelIsNotLost == Spec => []CancelIsSeen /\ CancelSticks
<1>1. IInv /\ SignalInv => CancelIsSeen
  <2> SUFFICES ASSUME IInv, SignalInv, NEW s \in Signals, NEW d \in 1 .. MaxDepth, Meant(s, d)
               PROVE  attachCount > 0 /\ (signals[s] = "calling" \/ canceled)
    BY DEF CancelIsSeen
  <2>1. signals[s] \in {"armed", "calling", "canceled"}
    BY DEF IInv, TypeInv
  <2> QED
    BY <2>1, MeantIsAttached DEF SignalInv, Meant
<1>2. IInv /\ [Next]_vars =>
          [\A s \in Signals, d \in 1 .. MaxDepth : Meant(s, d) =>
             \/ Depth' < d
             \/ /\ Meant(s, d)' /\ (canceled => canceled')
                /\ frames[d].pc = "ended" => frames'[d] = frames[d]]_vars
  BY MeantStep
<1> QED
  BY <1>1, <1>2, Invariance, SignalInvariance, PTL DEF Spec, CancelSticks
=============================================================================

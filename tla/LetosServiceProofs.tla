------------------------- MODULE LetosServiceProofs -------------------------
(* Proofs about LetosService, for any configurations, any number of calls  *)
(* and any number of deaths of the process.                                *)
EXTENDS LetosService, TLAPS

Messages ==
    {Create(i) : i \in Ids} \cup {Destroy(i) : i \in Ids}
        \cup {Args(i, c) : i \in Ids, c \in Configurations}

IsCreate(m, i) == m.what = "create" /\ m.instance = i
IsArgs(m, i) == m.what = "args" /\ m.instance = i
IsDestroy(m, i) == m.what = "destroy" /\ m.instance = i

(* The messages of one instance come before those of the next; it is       *)
(* created first and destroyed last.                                       *)
Ordered(q) ==
    \A j, k \in 1 .. Len(q) : j < k =>
        /\ q[j].instance <= q[k].instance
        /\ q[j].instance = q[k].instance => q[j].what # "destroy" /\ q[k].what # "create"
        /\ q[j].instance < q[k].instance => \E m \in j .. k - 1 : IsDestroy(q[m], q[j].instance)

(* All but instance r will be destroyed. *)
AllEnd(q, r) ==
    \A k \in 1 .. Len(q) :
        /\ q[k].instance # r => \E m \in k .. Len(q) : IsDestroy(q[m], q[k].instance)
        /\ q[k].instance = r => q[k].what # "destroy"

(* An instance is created before it is given anything to do, and once. *)
AllBegin(q, is) ==
    \A k \in 1 .. Len(q) :
        /\ q[k].what = "create" => is[q[k].instance] = None
        /\ q[k].what # "create" =>
               is[q[k].instance] # None \/ \E j \in 1 .. k - 1 : IsCreate(q[j], q[k].instance)

(* Instance i is destroyed before a later one is given anything to do. *)
EndsFirst(q, i) ==
    \A k \in 1 .. Len(q) :
        /\ i <= q[k].instance
        /\ i < q[k].instance => \E m \in 1 .. k - 1 : IsDestroy(q[m], i)

(* The first intent of instance i has configuration c. *)
FirstIntent(q, i, c) ==
    \E k \in 1 .. Len(q) :
        /\ IsArgs(q[k], i) /\ q[k].intent = c
        /\ \A j \in 1 .. k - 1 : ~IsArgs(q[j], i)

-----------------------------------------------------------------------------
(* The strengthening that makes the properties inductive.                  *)

TypeInv ==
    /\ running \in BOOLEAN /\ applicationContext \in BOOLEAN
    /\ settings \in Configurations
    /\ asked \in Configurations \cup {None} /\ notification \in Configurations \cup {None}
    /\ intents \in Seq(Configurations)
    /\ listeners \subseteq Listeners
    /\ instances \in [Ids -> Instances \cup {None}]
    /\ call \in {None, "start", "stop"}
    /\ messages \in Seq(Messages)
    /\ calls \in 0 .. MaxCalls /\ kills \in 0 .. MaxKills

(* Android makes one instance after the other, and the one of the started  *)
(* service is the last.                                                    *)
FreshInv ==
    /\ made \in 0 .. calls + kills
    /\ call = "start" => made < calls + kills
    /\ record \in {0, made}
    /\ \A i \in Ids : i > made => instances[i] = None
    /\ \A k \in 1 .. Len(messages) : messages[k].instance \in 1 .. made

QueueInv ==
    /\ Ordered(messages) /\ AllEnd(messages, record) /\ AllBegin(messages, instances)
    /\ record # 0 =>
           \/ instances[record] # None
           \/ \E j \in 1 .. Len(messages) : IsCreate(messages[j], record)

(* The instance that has the listener will be destroyed in time. *)
OwnerInv ==
    \A l \in listeners :
        /\ l.instance <= made
        /\ EndsFirst(messages, l.instance)
        /\ l.instance # record =>
               \E m \in 1 .. Len(messages) : IsDestroy(messages[m], l.instance)

(* The intent the service was started with is the first its instance gets. *)
AskedInv ==
    record # 0 =>
        /\ Len(intents) > 0 /\ intents[1] = asked
        /\ \/ \E l \in listeners : l.instance = record
           \/ FirstIntent(messages, record, asked)

IInv ==
    /\ TypeInv /\ FreshInv
    /\ QueueInv /\ OwnerInv
    /\ RunningMeansOneListener
    /\ AskedInv /\ ConfigurationSurvives

-----------------------------------------------------------------------------
(* Facts about queues.                                                     *)

LEMMA MessageFacts ==
    ASSUME NEW m \in Messages
    PROVE  /\ m.what \in {"create", "args", "destroy"} /\ m.instance \in Ids
           /\ m.what = "args" => m.intent \in Configurations
  BY DEF Messages, Create, Args, Destroy

LEMMA MadeFacts ==
    ASSUME NEW i \in Ids, NEW c \in Configurations
    PROVE  /\ Create(i) \in Messages /\ IsCreate(Create(i), i) /\ Create(i).instance = i
           /\ Create(i).what = "create"
           /\ Destroy(i) \in Messages /\ IsDestroy(Destroy(i), i) /\ Destroy(i).instance = i
           /\ Destroy(i).what = "destroy"
           /\ Args(i, c) \in Messages /\ IsArgs(Args(i, c), i) /\ Args(i, c).instance = i
           /\ Args(i, c).what = "args" /\ Args(i, c).intent = c
  BY DEF Messages, Create, Args, Destroy, IsCreate, IsArgs, IsDestroy

LEMMA IdFacts == \A i \in Ids : i \in Nat /\ i > 0
  BY ServiceAssumption DEF Ids

LEMMA QueueFacts ==
    ASSUME NEW q \in Seq(Messages)
    PROVE  /\ Len(q) \in Nat
           /\ \A k \in 1 .. Len(q) :
                  /\ q[k] \in Messages
                  /\ q[k].what \in {"create", "args", "destroy"}
                  /\ q[k].instance \in Ids /\ q[k].instance \in Nat
<1>1. Len(q) \in Nat /\ \A k \in 1 .. Len(q) : q[k] \in Messages
  OBVIOUS
<1> QED
  BY <1>1, MessageFacts, IdFacts

LEMMA TailFacts ==
    ASSUME NEW q \in Seq(Messages), q # <<>>
    PROVE  /\ Tail(q) \in Seq(Messages) /\ Len(q) > 0 /\ Head(q) = q[1]
           /\ Len(Tail(q)) = Len(q) - 1
           /\ \A k \in 1 .. Len(q) - 1 : Tail(q)[k] = q[k + 1]
  OBVIOUS

LEMMA AppendFacts ==
    ASSUME NEW q \in Seq(Messages), NEW m \in Messages
    PROVE  /\ Append(q, m) \in Seq(Messages) /\ Len(Append(q, m)) = Len(q) + 1
           /\ \A k \in 1 .. Len(q) : Append(q, m)[k] = q[k]
           /\ Append(q, m)[Len(q) + 1] = m
  OBVIOUS

(* What is left when the first message is taken is in order. *)
LEMMA TailOrdered ==
    ASSUME NEW q \in Seq(Messages), q # <<>>, Ordered(q)
    PROVE  Ordered(Tail(q))
<1> DEFINE t == Tail(q)
<1>1. Len(q) \in Nat /\ Len(t) = Len(q) - 1 /\ \A k \in 1 .. Len(q) - 1 : t[k] = q[k + 1]
  BY TailFacts, QueueFacts
<1> HIDE DEF t
<1> SUFFICES ASSUME NEW j \in 1 .. Len(t), NEW k \in 1 .. Len(t), j < k
             PROVE  /\ t[j].instance <= t[k].instance
                    /\ t[j].instance = t[k].instance =>
                           t[j].what # "destroy" /\ t[k].what # "create"
                    /\ t[j].instance < t[k].instance =>
                           \E m \in j .. k - 1 : IsDestroy(t[m], t[j].instance)
  BY DEF Ordered, t
<1>2. /\ j + 1 \in 1 .. Len(q) /\ k + 1 \in 1 .. Len(q) /\ j + 1 < k + 1
      /\ t[j] = q[j + 1] /\ t[k] = q[k + 1]
  BY <1>1
<1>3. ASSUME t[j].instance < t[k].instance
      PROVE  \E m \in j .. k - 1 : IsDestroy(t[m], t[j].instance)
  <2>1. PICK m \in j + 1 .. (k + 1) - 1 : IsDestroy(q[m], q[j + 1].instance)
    BY <1>2, <1>3 DEF Ordered
  <2>2. m - 1 \in j .. k - 1 /\ t[m - 1] = q[m]
    BY <1>1
  <2> QED
    BY <1>2, <2>1, <2>2
<1> QED
  BY <1>2, <1>3 DEF Ordered

LEMMA TailAllEnd ==
    ASSUME NEW q \in Seq(Messages), q # <<>>, NEW r, AllEnd(q, r)
    PROVE  AllEnd(Tail(q), r)
<1> DEFINE t == Tail(q)
<1>1. Len(q) \in Nat /\ Len(t) = Len(q) - 1 /\ \A k \in 1 .. Len(q) - 1 : t[k] = q[k + 1]
  BY TailFacts, QueueFacts
<1> HIDE DEF t
<1> SUFFICES ASSUME NEW k \in 1 .. Len(t)
             PROVE  /\ t[k].instance # r => \E m \in k .. Len(t) : IsDestroy(t[m], t[k].instance)
                    /\ t[k].instance = r => t[k].what # "destroy"
  BY DEF AllEnd, t
<1>2. k + 1 \in 1 .. Len(q) /\ t[k] = q[k + 1]
  BY <1>1
<1>3. ASSUME t[k].instance # r
      PROVE  \E m \in k .. Len(t) : IsDestroy(t[m], t[k].instance)
  <2>1. PICK m \in k + 1 .. Len(q) : IsDestroy(q[m], q[k + 1].instance)
    BY <1>2, <1>3 DEF AllEnd
  <2>2. m - 1 \in k .. Len(t) /\ t[m - 1] = q[m]
    BY <1>1
  <2> QED
    BY <1>2, <2>1, <2>2
<1> QED
  BY <1>2, <1>3 DEF AllEnd

(* The instance whose message is taken ends before a later one begins. *)
LEMMA TailEndsFirst ==
    ASSUME NEW q \in Seq(Messages), q # <<>>, Ordered(q), q[1].what # "destroy"
    PROVE  EndsFirst(Tail(q), q[1].instance)
<1> DEFINE t == Tail(q)
           i == q[1].instance
<1>1. Len(q) \in Nat /\ Len(t) = Len(q) - 1 /\ \A k \in 1 .. Len(q) - 1 : t[k] = q[k + 1]
  BY TailFacts, QueueFacts
<1> HIDE DEF t
<1> SUFFICES ASSUME NEW k \in 1 .. Len(t)
             PROVE  /\ i <= t[k].instance
                    /\ i < t[k].instance => \E m \in 1 .. k - 1 : IsDestroy(t[m], i)
  BY DEF EndsFirst, t
<1>2. 1 \in 1 .. Len(q) /\ k + 1 \in 1 .. Len(q) /\ 1 < k + 1 /\ t[k] = q[k + 1]
  BY <1>1
<1>3. ASSUME i < t[k].instance PROVE \E m \in 1 .. k - 1 : IsDestroy(t[m], i)
  <2>1. PICK m \in 1 .. (k + 1) - 1 : IsDestroy(q[m], i)
    BY <1>2, <1>3 DEF Ordered
  <2>2. m # 1
    BY <2>1 DEF IsDestroy
  <2>3. m - 1 \in 1 .. k - 1 /\ t[m - 1] = q[m]
    BY <1>1, <2>2
  <2> QED
    BY <2>1, <2>3
<1> QED
  BY <1>2, <1>3 DEF Ordered

LEMMA TailKeepsEndsFirst ==
    ASSUME NEW q \in Seq(Messages), q # <<>>, q[1].what # "destroy", NEW i, EndsFirst(q, i)
    PROVE  EndsFirst(Tail(q), i)
<1> DEFINE t == Tail(q)
<1>1. Len(q) \in Nat /\ Len(t) = Len(q) - 1 /\ \A k \in 1 .. Len(q) - 1 : t[k] = q[k + 1]
  BY TailFacts, QueueFacts
<1> HIDE DEF t
<1> SUFFICES ASSUME NEW k \in 1 .. Len(t)
             PROVE  /\ i <= t[k].instance
                    /\ i < t[k].instance => \E m \in 1 .. k - 1 : IsDestroy(t[m], i)
  BY DEF EndsFirst, t
<1>2. k + 1 \in 1 .. Len(q) /\ t[k] = q[k + 1]
  BY <1>1
<1>3. ASSUME i < t[k].instance PROVE \E m \in 1 .. k - 1 : IsDestroy(t[m], i)
  <2>1. PICK m \in 1 .. (k + 1) - 1 : IsDestroy(q[m], i)
    BY <1>2, <1>3 DEF EndsFirst
  <2>2. m # 1
    BY <2>1 DEF IsDestroy
  <2>3. m - 1 \in 1 .. k - 1 /\ t[m - 1] = q[m]
    BY <1>1, <2>2
  <2> QED
    BY <2>1, <2>3
<1> QED
  BY <1>2, <1>3 DEF EndsFirst

(* What is destroyed is still to be destroyed when another message is      *)
(* taken.                                                                  *)
LEMMA TailKeepsDestroy ==
    ASSUME NEW q \in Seq(Messages), q # <<>>, q[1].what # "destroy", NEW i,
           \E m \in 1 .. Len(q) : IsDestroy(q[m], i)
    PROVE  \E m \in 1 .. Len(Tail(q)) : IsDestroy(Tail(q)[m], i)
<1>1. Len(q) \in Nat /\ Len(Tail(q)) = Len(q) - 1 /\ \A k \in 1 .. Len(q) - 1 : Tail(q)[k] = q[k + 1]
  BY TailFacts, QueueFacts
<1>2. PICK m \in 1 .. Len(q) : IsDestroy(q[m], i)
  OBVIOUS
<1>3. m # 1
  BY <1>2 DEF IsDestroy
<1>4. m - 1 \in 1 .. Len(Tail(q)) /\ Tail(q)[m - 1] = q[m]
  BY <1>1, <1>3
<1> QED
  BY <1>2, <1>4

(* What was not created yet is still to be created when another message is *)
(* taken.                                                                  *)
LEMMA TailAllBegin ==
    ASSUME NEW q \in Seq(Messages), q # <<>>, Ordered(q),
           NEW is, AllBegin(q, is),
           NEW js, js[q[1].instance] # None,
           \A i \in Ids \ {q[1].instance} : js[i] = None <=> is[i] = None
    PROVE  AllBegin(Tail(q), js)
<1> DEFINE t == Tail(q)
<1>1. Len(q) \in Nat /\ Len(t) = Len(q) - 1 /\ \A k \in 1 .. Len(q) - 1 : t[k] = q[k + 1]
  BY TailFacts, QueueFacts
<1> HIDE DEF t
<1> SUFFICES ASSUME NEW k \in 1 .. Len(t)
             PROVE  /\ t[k].what = "create" => js[t[k].instance] = None
                    /\ t[k].what # "create" =>
                           \/ js[t[k].instance] # None
                           \/ \E j \in 1 .. k - 1 : IsCreate(t[j], t[k].instance)
  BY DEF AllBegin, t
<1>2. 1 \in 1 .. Len(q) /\ k + 1 \in 1 .. Len(q) /\ 1 < k + 1 /\ t[k] = q[k + 1]
  BY <1>1
<1>3. q[k + 1].instance \in Ids
  BY <1>2, QueueFacts
<1>4. CASE q[k + 1].instance = q[1].instance
  BY <1>2, <1>4 DEF Ordered
<1>5. CASE q[k + 1].instance # q[1].instance
  <2>1. js[q[k + 1].instance] = None <=> is[q[k + 1].instance] = None
    BY <1>3, <1>5
  <2>2. q[k + 1].what = "create" => is[q[k + 1].instance] = None
    BY <1>2 DEF AllBegin
  <2>3. ASSUME q[k + 1].what # "create", is[q[k + 1].instance] = None
        PROVE  \E j \in 1 .. k - 1 : IsCreate(t[j], q[k + 1].instance)
    <3>1. PICK j \in 1 .. (k + 1) - 1 : IsCreate(q[j], q[k + 1].instance)
      BY <1>2, <2>3 DEF AllBegin
    <3>2. j # 1
      BY <1>5, <3>1 DEF IsCreate
    <3>3. j - 1 \in 1 .. k - 1 /\ t[j - 1] = q[j]
      BY <1>1, <3>2
    <3> QED
      BY <3>1, <3>3
  <2> QED
    BY <1>2, <2>1, <2>2, <2>3
<1> QED
  BY <1>4, <1>5

LEMMA TailKeepsCreate ==
    ASSUME NEW q \in Seq(Messages), q # <<>>, NEW i, ~IsCreate(q[1], i),
           \E m \in 1 .. Len(q) : IsCreate(q[m], i)
    PROVE  \E m \in 1 .. Len(Tail(q)) : IsCreate(Tail(q)[m], i)
<1>1. Len(q) \in Nat /\ Len(Tail(q)) = Len(q) - 1 /\ \A k \in 1 .. Len(q) - 1 : Tail(q)[k] = q[k + 1]
  BY TailFacts, QueueFacts
<1>2. PICK m \in 1 .. Len(q) : IsCreate(q[m], i)
  OBVIOUS
<1>3. m - 1 \in 1 .. Len(Tail(q)) /\ Tail(q)[m - 1] = q[m]
  BY <1>1, <1>2
<1> QED
  BY <1>2, <1>3

LEMMA TailFirstIntent ==
    ASSUME NEW q \in Seq(Messages), q # <<>>, NEW i, NEW c, FirstIntent(q, i, c),
           ~IsArgs(q[1], i)
    PROVE  FirstIntent(Tail(q), i, c)
<1> DEFINE t == Tail(q)
<1>1. Len(q) \in Nat /\ Len(t) = Len(q) - 1 /\ \A k \in 1 .. Len(q) - 1 : t[k] = q[k + 1]
  BY TailFacts, QueueFacts
<1> HIDE DEF t
<1>2. PICK k \in 1 .. Len(q) : /\ IsArgs(q[k], i) /\ q[k].intent = c
                               /\ \A j \in 1 .. k - 1 : ~IsArgs(q[j], i)
  BY DEF FirstIntent
<1>3. k # 1
  BY <1>2
<1>4. k - 1 \in 1 .. Len(t) /\ t[k - 1] = q[k]
  BY <1>1, <1>3
<1>5. \A j \in 1 .. (k - 1) - 1 : j + 1 \in 1 .. k - 1 /\ t[j] = q[j + 1]
  BY <1>1
<1>6. \A j \in 1 .. (k - 1) - 1 : ~IsArgs(t[j], i)
  BY <1>2, <1>5
<1> QED
  BY <1>2, <1>4, <1>6 DEF FirstIntent, t

LEMMA HeadFirstIntent ==
    ASSUME NEW q \in Seq(Messages), NEW i, NEW c, FirstIntent(q, i, c), IsArgs(q[1], i)
    PROVE  q[1].intent = c
<1>1. PICK k \in 1 .. Len(q) : /\ IsArgs(q[k], i) /\ q[k].intent = c
                               /\ \A j \in 1 .. k - 1 : ~IsArgs(q[j], i)
  BY DEF FirstIntent
<1>2. k = 1
  BY <1>1, QueueFacts
<1> QED
  BY <1>1, <1>2

(* What the appended message must be like. *)
LEMMA AppendOrdered ==
    ASSUME NEW q \in Seq(Messages), NEW m \in Messages, NEW r,
           Ordered(q), AllEnd(q, r),
           \A k \in 1 .. Len(q) :
               /\ q[k].instance <= m.instance
               /\ q[k].instance = m.instance => q[k].what # "destroy" /\ m.what # "create"
               /\ q[k].instance < m.instance => q[k].instance # r
    PROVE  Ordered(Append(q, m))
<1> DEFINE a == Append(q, m)
           n == Len(q)
<1>1. /\ n \in Nat /\ Len(a) = n + 1 /\ a[n + 1] = m
      /\ \A k \in 1 .. n : a[k] = q[k]
  BY AppendFacts, QueueFacts
<1> HIDE DEF a
<1> SUFFICES ASSUME NEW j \in 1 .. n + 1, NEW k \in 1 .. n + 1, j < k
             PROVE  /\ a[j].instance <= a[k].instance
                    /\ a[j].instance = a[k].instance =>
                           a[j].what # "destroy" /\ a[k].what # "create"
                    /\ a[j].instance < a[k].instance =>
                           \E x \in j .. k - 1 : IsDestroy(a[x], a[j].instance)
  BY <1>1 DEF Ordered, a
<1>2. j \in 1 .. n /\ a[j] = q[j]
  BY <1>1
<1>3. CASE k \in 1 .. n
  <2>1. a[k] = q[k] /\ \A x \in j .. k - 1 : a[x] = q[x]
    BY <1>1, <1>3
  <2> QED
    BY <1>2, <1>3, <2>1 DEF Ordered
<1>4. CASE k = n + 1
  <2>1. a[k] = m
    BY <1>1, <1>4
  <2>2. ASSUME q[j].instance < m.instance
        PROVE  \E x \in j .. k - 1 : IsDestroy(a[x], q[j].instance)
    <3>1. PICK x \in j .. n : IsDestroy(q[x], q[j].instance)
      BY <1>2, <2>2 DEF AllEnd
    <3>2. x \in j .. k - 1 /\ a[x] = q[x]
      BY <1>1, <1>4
    <3> QED
      BY <3>1, <3>2
  <2> QED
    BY <1>2, <2>1, <2>2
<1> QED
  BY <1>1, <1>3, <1>4

(* The service stays with r, or takes s, or gives r up. *)
LEMMA AppendAllEnd ==
    ASSUME NEW q \in Seq(Messages), NEW m \in Messages, NEW r, NEW s, AllEnd(q, r),
           \/ m.instance = s /\ m.what # "destroy"
           \/ m.what = "destroy" /\ m.instance # s,
           \/ r = s
           \/ /\ \A k \in 1 .. Len(q) : q[k].instance # s
              /\ IsDestroy(m, r) \/ \A k \in 1 .. Len(q) : q[k].instance # r
    PROVE  AllEnd(Append(q, m), s)
<1> DEFINE a == Append(q, m)
           n == Len(q)
<1>1. /\ n \in Nat /\ Len(a) = n + 1 /\ a[n + 1] = m
      /\ \A k \in 1 .. n : a[k] = q[k]
  BY AppendFacts, QueueFacts
<1> HIDE DEF a
<1> SUFFICES ASSUME NEW k \in 1 .. n + 1
             PROVE  /\ a[k].instance # s =>
                           \E x \in k .. n + 1 : IsDestroy(a[x], a[k].instance)
                    /\ a[k].instance = s => a[k].what # "destroy"
  BY <1>1 DEF AllEnd, a
<1>2. CASE k \in 1 .. n
  <2>1. a[k] = q[k]
    BY <1>1, <1>2
  <2>2. ASSUME q[k].instance # s
        PROVE  \E x \in k .. n + 1 : IsDestroy(a[x], q[k].instance)
    <3>1. CASE q[k].instance # r
      <4>1. PICK x \in k .. n : IsDestroy(q[x], q[k].instance)
        BY <1>2, <3>1 DEF AllEnd
      <4>2. x \in k .. n + 1 /\ a[x] = q[x]
        BY <1>1, <1>2
      <4> QED
        BY <4>1, <4>2
    <3>2. CASE q[k].instance = r
      <4>1. IsDestroy(a[n + 1], q[k].instance)
        BY <1>1, <1>2, <2>2, <3>2
      <4>2. n + 1 \in k .. n + 1
        BY <1>1, <1>2
      <4> QED
        BY <4>1, <4>2
    <3> QED
      BY <3>1, <3>2
  <2> QED
    BY <1>2, <2>1, <2>2 DEF AllEnd
<1>3. CASE k = n + 1
  BY <1>1, <1>3 DEF IsDestroy
<1> QED
  BY <1>1, <1>2, <1>3

LEMMA AppendAllBegin ==
    ASSUME NEW q \in Seq(Messages), NEW m \in Messages, NEW is, AllBegin(q, is),
           m.what = "create" => is[m.instance] = None,
           m.what # "create" =>
               is[m.instance] # None \/ \E j \in 1 .. Len(q) : IsCreate(q[j], m.instance)
    PROVE  AllBegin(Append(q, m), is)
<1> DEFINE a == Append(q, m)
           n == Len(q)
<1>1. /\ n \in Nat /\ Len(a) = n + 1 /\ a[n + 1] = m
      /\ \A k \in 1 .. n : a[k] = q[k]
  BY AppendFacts, QueueFacts
<1> HIDE DEF a
<1> SUFFICES ASSUME NEW k \in 1 .. n + 1
             PROVE  /\ a[k].what = "create" => is[a[k].instance] = None
                    /\ a[k].what # "create" =>
                           \/ is[a[k].instance] # None
                           \/ \E j \in 1 .. k - 1 : IsCreate(a[j], a[k].instance)
  BY <1>1 DEF AllBegin, a
<1>2. CASE k \in 1 .. n
  <2>1. a[k] = q[k] /\ \A j \in 1 .. k - 1 : a[j] = q[j]
    BY <1>1, <1>2
  <2> QED
    BY <1>2, <2>1 DEF AllBegin
<1>3. CASE k = n + 1
  <2>1. a[k] = m /\ \A j \in 1 .. n : j \in 1 .. k - 1 /\ a[j] = q[j]
    BY <1>1, <1>3
  <2> QED
    BY <1>1, <2>1
<1> QED
  BY <1>1, <1>2, <1>3

LEMMA AppendEndsFirst ==
    ASSUME NEW q \in Seq(Messages), NEW m \in Messages, NEW i, EndsFirst(q, i),
           i <= m.instance,
           i < m.instance => \E j \in 1 .. Len(q) : IsDestroy(q[j], i)
    PROVE  EndsFirst(Append(q, m), i)
<1> DEFINE a == Append(q, m)
           n == Len(q)
<1>1. /\ n \in Nat /\ Len(a) = n + 1 /\ a[n + 1] = m
      /\ \A k \in 1 .. n : a[k] = q[k]
  BY AppendFacts, QueueFacts
<1> HIDE DEF a
<1> SUFFICES ASSUME NEW k \in 1 .. n + 1
             PROVE  /\ i <= a[k].instance
                    /\ i < a[k].instance => \E j \in 1 .. k - 1 : IsDestroy(a[j], i)
  BY <1>1 DEF EndsFirst, a
<1>2. CASE k \in 1 .. n
  <2>1. a[k] = q[k] /\ \A j \in 1 .. k - 1 : a[j] = q[j]
    BY <1>1, <1>2
  <2> QED
    BY <1>2, <2>1 DEF EndsFirst
<1>3. CASE k = n + 1
  <2>1. a[k] = m /\ \A j \in 1 .. n : j \in 1 .. k - 1 /\ a[j] = q[j]
    BY <1>1, <1>3
  <2> QED
    BY <1>1, <2>1
<1> QED
  BY <1>1, <1>2, <1>3

(* What is to come stays. *)
LEMMA AppendKeeps ==
    ASSUME NEW q \in Seq(Messages), NEW m \in Messages, NEW i
    PROVE  /\ (\E j \in 1 .. Len(q) : IsDestroy(q[j], i)) =>
                  \E j \in 1 .. Len(Append(q, m)) : IsDestroy(Append(q, m)[j], i)
           /\ (\E j \in 1 .. Len(q) : IsCreate(q[j], i)) =>
                  \E j \in 1 .. Len(Append(q, m)) : IsCreate(Append(q, m)[j], i)
           /\ \A c : FirstIntent(q, i, c) => FirstIntent(Append(q, m), i, c)
<1> DEFINE a == Append(q, m)
           n == Len(q)
<1>1. /\ n \in Nat /\ Len(a) = n + 1
      /\ \A k \in 1 .. n : k \in 1 .. Len(a) /\ a[k] = q[k]
  BY AppendFacts, QueueFacts
<1> HIDE DEF a
<1>2. \A c : FirstIntent(q, i, c) => FirstIntent(a, i, c)
  <2> SUFFICES ASSUME NEW c, FirstIntent(q, i, c) PROVE FirstIntent(a, i, c)
    OBVIOUS
  <2>1. PICK k \in 1 .. n : /\ IsArgs(q[k], i) /\ q[k].intent = c
                            /\ \A j \in 1 .. k - 1 : ~IsArgs(q[j], i)
    BY DEF FirstIntent
  <2>2. k \in 1 .. Len(a) /\ a[k] = q[k] /\ \A j \in 1 .. k - 1 : a[j] = q[j]
    BY <1>1
  <2> QED
    BY <2>1, <2>2 DEF FirstIntent
<1>3. (\E j \in 1 .. Len(q) : IsDestroy(q[j], i)) => \E j \in 1 .. Len(a) : IsDestroy(a[j], i)
  BY <1>1
<1>4. (\E j \in 1 .. Len(q) : IsCreate(q[j], i)) => \E j \in 1 .. Len(a) : IsCreate(a[j], i)
  BY <1>1
<1> QED
  BY <1>2, <1>3, <1>4 DEF a

-----------------------------------------------------------------------------
(* The invariant holds at first, and each action keeps it.                 *)

LEMMA InitIInv == Init => IInv
<1> SUFFICES ASSUME Init PROVE IInv
  OBVIOUS
<1> USE ServiceAssumption DEF Init
<1>1. TypeInv
  <2>1. intents \in Seq(Configurations) /\ messages \in Seq(Messages)
    OBVIOUS
  <2>2. calls \in 0 .. MaxCalls /\ kills \in 0 .. MaxKills
    OBVIOUS
  <2>3. instances \in [Ids -> Instances \cup {None}] /\ listeners \subseteq Listeners
    OBVIOUS
  <2> QED
    BY <2>1, <2>2, <2>3 DEF TypeInv
<1>2. Len(messages) = 0
  OBVIOUS
<1>3. FreshInv
  <2>1. call # "start"
    BY NoneAssumption
  <2>2. \A i \in Ids : instances[i] = None
    OBVIOUS
  <2> QED
    BY <1>2, <2>1, <2>2 DEF FreshInv
<1>4. QueueInv /\ OwnerInv
  BY <1>2 DEF QueueInv, OwnerInv, Ordered, AllEnd, AllBegin
<1>5. RunningMeansOneListener
  BY DEF RunningMeansOneListener
<1>6. AskedInv /\ ConfigurationSurvives
  BY DEF AskedInv, ConfigurationSurvives
<1> QED
  BY <1>1, <1>3, <1>4, <1>5, <1>6 DEF IInv

LEMMA NumberFacts ==
    ASSUME TypeInv, FreshInv
    PROVE  /\ made \in Nat /\ record \in Nat /\ calls \in Nat /\ kills \in Nat
           /\ MaxCalls \in Nat /\ MaxKills \in Nat
           /\ made <= calls + kills /\ calls <= MaxCalls /\ kills <= MaxKills
           /\ made # 0 => made \in Ids
           /\ made < MaxCalls + MaxKills => made + 1 \in Ids
           /\ record # 0 => record = made
  BY ServiceAssumption DEF TypeInv, FreshInv, Ids

(* What only concerns the application. *)
LEMMA Apart ==
    ASSUME IInv, UNCHANGED <<serviceVars, systemVars, asked, kills>>,
           settings' \in Configurations, call' \in {None, "start", "stop"},
           applicationContext' \in BOOLEAN, applicationContext => applicationContext',
           calls' \in 0 .. MaxCalls, calls' >= calls,
           call' = "start" => call = "start" \/ calls' = calls + 1
    PROVE  IInv'
<1> USE DEF IInv, serviceVars, systemVars
<1>1. TypeInv'
  BY DEF TypeInv
<1>2. FreshInv'
  <2>1. made \in 0 .. calls' + kills /\ (call' = "start" => made < calls' + kills)
    BY NumberFacts DEF FreshInv
  <2> QED
    BY <2>1 DEF FreshInv
<1>3. QueueInv' /\ OwnerInv' /\ AskedInv' /\ ConfigurationSurvives'
  BY DEF QueueInv, OwnerInv, AskedInv, ConfigurationSurvives
<1>4. RunningMeansOneListener'
  BY DEF RunningMeansOneListener
<1> QED
  BY <1>1, <1>2, <1>3, <1>4

LEMMA SetConfigurationIInv == IInv /\ SetConfiguration => IInv'
<1> SUFFICES ASSUME IInv, SetConfiguration PROVE IInv'
  OBVIOUS
<1>1. calls' = calls /\ calls \in 0 .. MaxCalls /\ calls \in Nat /\ settings' \in Configurations
  BY ServiceAssumption DEF SetConfiguration, IInv, TypeInv
<1> QED
  BY <1>1, Apart DEF SetConfiguration, IInv, TypeInv

LEMMA StartIInv == IInv /\ Start => IInv'
<1> SUFFICES ASSUME IInv, Start PROVE IInv'
  OBVIOUS
<1>1. calls' \in 0 .. MaxCalls /\ calls' >= calls /\ calls' = calls + 1
  BY ServiceAssumption DEF Start, IInv, TypeInv
<1>2. call' \in {None, "start", "stop"} /\ applicationContext' \in BOOLEAN
      /\ (applicationContext => applicationContext')
  BY DEF Start, IInv, TypeInv
<1> QED
  BY <1>1, <1>2, Apart DEF Start, IInv, TypeInv

LEMMA StopIInv == IInv /\ Stop => IInv'
<1> SUFFICES ASSUME IInv, Stop PROVE IInv'
  OBVIOUS
<1>1. calls' \in 0 .. MaxCalls /\ calls' >= calls /\ calls' = calls + 1
  BY ServiceAssumption DEF Stop, IInv, TypeInv
<1>2. call' \in {None, "start", "stop"}
  BY DEF Stop
<1> QED
  BY <1>1, <1>2, Apart DEF Stop, IInv, TypeInv

(* The instance that is already there is given another intent. *)
LEMMA AnotherIntentIInv ==
    ASSUME IInv, StartForegroundService, record # 0
    PROVE  IInv'
<1> DEFINE m == Args(record, settings)
<1> USE DEF IInv
<1>1. /\ call' = None /\ intents' = Append(intents, settings)
      /\ messages' = Append(messages, m)
      /\ UNCHANGED <<made, record, asked, applicationContext, settings, calls, running,
                     instances, listeners, notification, kills>>
  BY DEF StartForegroundService, serviceVars
<1>2. record = made /\ record \in Ids /\ record \in Nat /\ made \in Nat
  BY NumberFacts
<1>3. settings \in Configurations /\ messages \in Seq(Messages) /\ intents \in Seq(Configurations)
  BY DEF TypeInv
<1>4. m \in Messages /\ IsArgs(m, record) /\ m.instance = record /\ m.what = "args"
  BY <1>2, <1>3, MadeFacts
<1> HIDE DEF m
<1>5. /\ messages' \in Seq(Messages) /\ Len(messages') = Len(messages) + 1
      /\ \A k \in 1 .. Len(messages) : messages'[k] = messages[k]
      /\ messages'[Len(messages) + 1] = m
  BY <1>1, <1>3, <1>4, AppendFacts
<1>6. Len(messages) \in Nat /\ \A k \in 1 .. Len(messages) : messages[k].instance \in 1 .. made
  BY <1>3, QueueFacts DEF FreshInv
<1>7. /\ intents' \in Seq(Configurations) /\ Len(intents') = Len(intents) + 1
      /\ Len(intents) > 0 /\ intents[1] = asked /\ intents'[1] = intents[1]
  BY <1>1, <1>2, <1>3 DEF AskedInv
<1>8. TypeInv'
  BY <1>1, <1>5, <1>7 DEF TypeInv
<1>9. FreshInv'
  <2>1. \A k \in 1 .. Len(messages') : messages'[k].instance \in 1 .. made
    BY <1>2, <1>4, <1>5, <1>6
  <2>2. call' # "start"
    BY <1>1, NoneAssumption
  <2> QED
    BY <1>1, <2>1, <2>2 DEF FreshInv
<1>10. QueueInv'
  <2>1. \A k \in 1 .. Len(messages) :
           /\ messages[k].instance <= m.instance
           /\ messages[k].instance = m.instance => messages[k].what # "destroy" /\ m.what # "create"
           /\ messages[k].instance < m.instance => messages[k].instance # record
    BY <1>2, <1>4, <1>6 DEF QueueInv, AllEnd
  <2>2. Ordered(messages')
    BY <1>1, <1>3, <1>4, <2>1, AppendOrdered DEF QueueInv
  <2>3. AllEnd(messages', record)
    BY <1>1, <1>3, <1>4, AppendAllEnd DEF QueueInv
  <2>4. AllBegin(messages', instances)
    BY <1>1, <1>2, <1>3, <1>4, AppendAllBegin DEF QueueInv
  <2>5. \/ instances[record] # None
        \/ \E j \in 1 .. Len(messages') : IsCreate(messages'[j], record)
    BY <1>1, <1>2, <1>3, <1>4, AppendKeeps DEF QueueInv
  <2> QED
    BY <1>1, <2>2, <2>3, <2>4, <2>5 DEF QueueInv
<1>11. OwnerInv'
  <2> SUFFICES ASSUME NEW l \in listeners
               PROVE  /\ l.instance <= made /\ EndsFirst(messages', l.instance)
                      /\ l.instance # record =>
                             \E x \in 1 .. Len(messages') : IsDestroy(messages'[x], l.instance)
    BY <1>1 DEF OwnerInv
  <2>1. /\ l.instance <= made /\ EndsFirst(messages, l.instance)
        /\ l.instance # record =>
               \E x \in 1 .. Len(messages) : IsDestroy(messages[x], l.instance)
    BY DEF OwnerInv
  <2>2. l.instance \in Nat
    BY IdFacts DEF TypeInv, Listeners
  <2>3. EndsFirst(messages', l.instance)
    BY <1>1, <1>2, <1>3, <1>4, <2>1, <2>2, AppendEndsFirst
  <2> QED
    BY <1>1, <1>3, <1>4, <2>1, <2>3, AppendKeeps
<1>12. AskedInv'
  BY <1>1, <1>2, <1>3, <1>4, <1>7, AppendKeeps DEF AskedInv
<1>13. RunningMeansOneListener' /\ ConfigurationSurvives'
  BY <1>1 DEF RunningMeansOneListener, ConfigurationSurvives
<1> QED
  BY <1>8, <1>9, <1>10, <1>11, <1>12, <1>13

(* A new instance is made and given the settings. *)
LEMMA FirstIntentIInv ==
    ASSUME IInv, StartForegroundService, record = 0
    PROVE  IInv'
<1> DEFINE i == made + 1
           c == Create(i)
           m == Args(i, settings)
           q == Append(messages, c)
<1> USE DEF IInv
<1>1. /\ call = "start" /\ call' = None /\ intents' = <<settings>> /\ asked' = settings
      /\ made' = i /\ record' = i /\ messages' = messages \o <<c, m>>
      /\ UNCHANGED <<applicationContext, settings, calls, running, instances, listeners,
                     notification, kills>>
  BY DEF StartForegroundService, serviceVars
<1>2. i \in Ids /\ i \in Nat /\ i > 0 /\ made \in Nat /\ i <= calls + kills
  BY <1>1, NumberFacts DEF FreshInv
<1>3. settings \in Configurations /\ messages \in Seq(Messages)
  BY DEF TypeInv
<1>4. /\ m \in Messages /\ IsArgs(m, i) /\ m.instance = i /\ m.what = "args" /\ m.intent = settings
      /\ c \in Messages /\ IsCreate(c, i) /\ c.instance = i /\ c.what = "create"
  BY <1>2, <1>3, MadeFacts
<1> HIDE DEF m, c, i
<1>5. /\ q \in Seq(Messages) /\ Len(q) = Len(messages) + 1
      /\ \A k \in 1 .. Len(messages) : q[k] = messages[k]
      /\ q[Len(messages) + 1] = c
  BY <1>3, <1>4, AppendFacts
<1>6. messages' = Append(q, m)
  BY <1>1, <1>3, <1>4
<1>7. Len(messages) \in Nat
      /\ \A k \in 1 .. Len(messages) : messages[k].instance \in 1 .. made /\ messages[k].instance # 0
  BY <1>2, <1>3, QueueFacts DEF FreshInv
<1> HIDE DEF q
<1>8. /\ messages' \in Seq(Messages) /\ Len(messages') = Len(q) + 1
      /\ \A k \in 1 .. Len(q) : messages'[k] = q[k]
      /\ messages'[Len(q) + 1] = m
  BY <1>4, <1>5, <1>6, AppendFacts
<1>9. \A k \in 1 .. Len(q) : q[k].instance \in 1 .. i
  BY <1>2, <1>4, <1>5, <1>7 DEF i
<1>10. \A k \in 1 .. Len(messages') : messages'[k].instance \in 1 .. i
  BY <1>2, <1>4, <1>5, <1>7, <1>8, <1>9
<1>11. TypeInv'
  <2>1. intents' \in Seq(Configurations)
    BY <1>1, <1>3
  <2> QED
    BY <1>1, <1>3, <1>8, <2>1 DEF TypeInv
<1>12. FreshInv'
  <2>1. call' # "start"
    BY <1>1, NoneAssumption
  <2>2. i \in 0 .. calls + kills /\ \A j \in Ids : j > i => j > made
    BY <1>2, NumberFacts, IdFacts DEF i
  <2> QED
    BY <1>1, <1>10, <2>1, <2>2 DEF FreshInv
<1>13. instances[i] = None
  BY <1>2 DEF FreshInv, i
<1>14. QueueInv'
  <2>1. \A k \in 1 .. Len(messages) :
           /\ messages[k].instance <= c.instance
           /\ messages[k].instance # c.instance
           /\ messages[k].instance # 0
    BY <1>2, <1>4, <1>7 DEF i
  <2>2. Ordered(q) /\ AllEnd(q, i)
    <3>1. Ordered(q)
      BY <1>3, <1>4, <2>1, AppendOrdered DEF QueueInv, q
    <3>2. AllEnd(messages, 0)
      BY DEF QueueInv
    <3>3. AllEnd(q, i)
      BY <1>3, <1>4, <2>1, <3>2, AppendAllEnd DEF q
    <3> QED
      BY <3>1, <3>3
  <2>3. \A k \in 1 .. Len(q) :
           /\ q[k].instance <= m.instance
           /\ q[k].instance = m.instance => q[k].what # "destroy" /\ m.what # "create"
           /\ q[k].instance < m.instance => q[k].instance # i
    BY <1>2, <1>4, <1>9, <2>2 DEF AllEnd
  <2>4. Ordered(messages')
    BY <1>4, <1>5, <1>6, <2>2, <2>3, AppendOrdered
  <2>5. AllEnd(messages', i)
    BY <1>4, <1>5, <1>6, <2>2, AppendAllEnd
  <2>6. AllBegin(q, instances)
    BY <1>3, <1>4, <1>13, AppendAllBegin DEF QueueInv, q
  <2>7. \E j \in 1 .. Len(q) : IsCreate(q[j], i)
    BY <1>4, <1>5, <1>7
  <2>8. AllBegin(messages', instances)
    BY <1>4, <1>5, <1>6, <2>6, <2>7, AppendAllBegin
  <2>9. \E j \in 1 .. Len(messages') : IsCreate(messages'[j], i)
    BY <1>4, <1>5, <1>6, <2>7, AppendKeeps
  <2> QED
    BY <1>1, <2>4, <2>5, <2>8, <2>9 DEF QueueInv
<1>15. OwnerInv'
  <2> SUFFICES ASSUME NEW l \in listeners
               PROVE  /\ l.instance <= i /\ EndsFirst(messages', l.instance)
                      /\ \E x \in 1 .. Len(messages') : IsDestroy(messages'[x], l.instance)
    BY <1>1 DEF OwnerInv
  <2>1. l.instance \in Ids /\ l.instance \in Nat /\ l.instance > 0
    BY IdFacts DEF TypeInv, Listeners
  <2>2. /\ l.instance <= made /\ EndsFirst(messages, l.instance)
        /\ \E x \in 1 .. Len(messages) : IsDestroy(messages[x], l.instance)
    BY <2>1 DEF OwnerInv
  <2>3. l.instance < i
    BY <1>2, <2>1, <2>2 DEF i
  <2>4. EndsFirst(q, l.instance) /\ \E x \in 1 .. Len(q) : IsDestroy(q[x], l.instance)
    <3>1. EndsFirst(q, l.instance)
      BY <1>2, <1>3, <1>4, <2>1, <2>2, <2>3, AppendEndsFirst DEF q
    <3> QED
      BY <1>3, <1>4, <2>2, <3>1, AppendKeeps DEF q
  <2>5. EndsFirst(messages', l.instance)
    BY <1>2, <1>4, <1>5, <1>6, <2>1, <2>3, <2>4, AppendEndsFirst
  <2> QED
    BY <1>2, <1>4, <1>5, <1>6, <2>1, <2>3, <2>4, <2>5, AppendKeeps
<1>16. \A l \in listeners : l.instance # i
  BY <1>2, IdFacts DEF OwnerInv, TypeInv, Listeners, i
<1>17. AskedInv'
  <2>1. Len(intents') > 0 /\ intents'[1] = asked'
    BY <1>1
  <2>2. \A j \in 1 .. Len(q) : ~IsArgs(q[j], i)
    BY <1>2, <1>4, <1>5, <1>7 DEF IsArgs, i
  <2>3. Len(q) + 1 \in 1 .. Len(messages') /\ (Len(q) + 1) - 1 = Len(q)
    BY <1>5, <1>7, <1>8
  <2>4. FirstIntent(messages', i, asked')
    <3>1. messages'[Len(q) + 1] = m /\ IsArgs(m, i) /\ m.intent = asked'
      BY <1>1, <1>4, <1>8
    <3>2. \A j \in 1 .. (Len(q) + 1) - 1 : ~IsArgs(messages'[j], i)
      BY <1>8, <2>2, <2>3
    <3> QED
      BY <2>3, <3>1, <3>2 DEF FirstIntent
  <2> QED
    BY <1>1, <2>1, <2>4 DEF AskedInv
<1>18. RunningMeansOneListener' /\ ConfigurationSurvives'
  BY <1>1, <1>16 DEF RunningMeansOneListener, ConfigurationSurvives
<1> QED
  BY <1>11, <1>12, <1>14, <1>15, <1>17, <1>18

LEMMA StopServiceIInv == IInv /\ StopService => IInv'
<1> SUFFICES ASSUME IInv, StopService PROVE IInv'
  OBVIOUS
<1>1. CASE record = 0
  <2>1. UNCHANGED <<serviceVars, systemVars, asked, kills, calls, settings, applicationContext>>
        /\ call' = None
    BY <1>1 DEF StopService
  <2>2. calls' \in 0 .. MaxCalls /\ calls' >= calls /\ call' # "start"
    BY <2>1, NoneAssumption, ServiceAssumption DEF IInv, TypeInv
  <2> QED
    BY <2>1, <2>2, Apart DEF IInv, TypeInv
<1>2. CASE record # 0
  <2> DEFINE m == Destroy(record)
  <2> USE DEF IInv
  <2>1. /\ call' = None /\ record' = 0 /\ intents' = <<>> /\ messages' = Append(messages, m)
        /\ UNCHANGED <<made, applicationContext, settings, asked, calls, running, instances,
                       listeners, notification, kills>>
    BY <1>2 DEF StopService, serviceVars
  <2>2. record = made /\ record \in Ids /\ record \in Nat /\ made \in Nat
    BY <1>2, NumberFacts
  <2>3. messages \in Seq(Messages) /\ settings \in Configurations
    BY DEF TypeInv
  <2>4. m \in Messages /\ IsDestroy(m, record) /\ m.instance = record /\ m.what = "destroy"
    BY <2>2, <2>3, MadeFacts
  <2> HIDE DEF m
  <2>5. /\ messages' \in Seq(Messages) /\ Len(messages') = Len(messages) + 1
        /\ \A k \in 1 .. Len(messages) : messages'[k] = messages[k]
        /\ messages'[Len(messages) + 1] = m
    BY <2>1, <2>3, <2>4, AppendFacts
  <2>6. Len(messages) \in Nat
        /\ \A k \in 1 .. Len(messages) : messages[k].instance \in 1 .. made /\ messages[k].instance # 0
    BY <2>2, <2>3, QueueFacts DEF FreshInv
  <2>7. TypeInv'
    <3>1. intents' \in Seq(Configurations)
      BY <2>1
    <3> QED
      BY <2>1, <2>5, <3>1 DEF TypeInv
  <2>8. FreshInv'
    <3>1. \A k \in 1 .. Len(messages') : messages'[k].instance \in 1 .. made
      BY <1>2, <2>2, <2>4, <2>5, <2>6
    <3>2. call' # "start"
      BY <2>1, NoneAssumption
    <3> QED
      BY <2>1, <3>1, <3>2 DEF FreshInv
  <2>9. QueueInv'
    <3>1. \A k \in 1 .. Len(messages) :
             /\ messages[k].instance <= m.instance
             /\ messages[k].instance = m.instance => messages[k].what # "destroy" /\ m.what # "create"
             /\ messages[k].instance < m.instance => messages[k].instance # record
      BY <2>2, <2>4, <2>6 DEF QueueInv, AllEnd
    <3>2. Ordered(messages')
      BY <2>1, <2>3, <2>4, <3>1, AppendOrdered DEF QueueInv
    <3>3. AllEnd(messages', 0)
      BY <1>2, <2>1, <2>3, <2>4, <2>6, AppendAllEnd DEF QueueInv
    <3>4. AllBegin(messages', instances)
      BY <1>2, <2>1, <2>3, <2>4, AppendAllBegin DEF QueueInv
    <3> QED
      BY <2>1, <3>2, <3>3, <3>4 DEF QueueInv
  <2>10. OwnerInv'
    <3> SUFFICES ASSUME NEW l \in listeners
                 PROVE  /\ l.instance <= made /\ EndsFirst(messages', l.instance)
                        /\ \E x \in 1 .. Len(messages') : IsDestroy(messages'[x], l.instance)
      BY <2>1 DEF OwnerInv
    <3>1. l.instance \in Nat
      BY IdFacts DEF TypeInv, Listeners
    <3>2. /\ l.instance <= made /\ EndsFirst(messages, l.instance)
          /\ l.instance # record =>
                 \E x \in 1 .. Len(messages) : IsDestroy(messages[x], l.instance)
      BY DEF OwnerInv
    <3>3. EndsFirst(messages', l.instance)
      BY <2>1, <2>2, <2>3, <2>4, <3>1, <3>2, AppendEndsFirst
    <3>4. CASE l.instance # record
      BY <2>1, <2>3, <2>4, <3>2, <3>3, <3>4, AppendKeeps
    <3>5. CASE l.instance = record
      BY <2>4, <2>5, <2>6, <3>2, <3>3, <3>5
    <3> QED
      BY <3>4, <3>5
  <2>11. AskedInv'
    BY <2>1 DEF AskedInv
  <2>12. RunningMeansOneListener' /\ ConfigurationSurvives'
    <3>1. \A l \in listeners : l.instance # 0
      BY IdFacts DEF TypeInv, Listeners
    <3> QED
      BY <2>1, <3>1 DEF RunningMeansOneListener, ConfigurationSurvives
  <2> QED
    BY <2>7, <2>8, <2>9, <2>10, <2>11, <2>12
<1> QED
  BY <1>1, <1>2

-----------------------------------------------------------------------------
(* The callbacks.                                                          *)

(* What the main thread takes, and what is left of the queue. *)
LEMMA HandleFacts ==
    ASSUME IInv, NEW w, Handles(w)
    PROVE  /\ messages \in Seq(Messages) /\ messages # <<>> /\ Len(messages) > 0
           /\ Head(messages) = messages[1] /\ Current = messages[1].instance
           /\ messages[1].what = w /\ messages[1] \in Messages
           /\ Current \in Ids /\ Current \in 1 .. made
           /\ messages' = Tail(messages) /\ messages' \in Seq(Messages)
           /\ \A k \in 1 .. Len(messages') : messages'[k].instance \in 1 .. made
           /\ Ordered(messages') /\ AllEnd(messages', record)
<1>1. messages \in Seq(Messages) /\ messages # <<>> /\ messages' = Tail(messages)
      /\ Head(messages).what = w
  BY DEF Handles, IInv, TypeInv
<1>2. /\ Len(messages) \in Nat /\ Len(messages) > 0 /\ Head(messages) = messages[1]
      /\ messages' \in Seq(Messages) /\ Len(messages') = Len(messages) - 1
      /\ \A k \in 1 .. Len(messages) - 1 : messages'[k] = messages[k + 1]
  BY <1>1, TailFacts, QueueFacts
<1>3. 1 \in 1 .. Len(messages) /\ \A k \in 1 .. Len(messages) - 1 : k + 1 \in 1 .. Len(messages)
  BY <1>2
<1>4. messages[1] \in Messages /\ messages[1].instance \in Ids /\ messages[1].instance \in 1 .. made
  BY <1>1, <1>3, QueueFacts DEF IInv, FreshInv
<1>5. \A k \in 1 .. Len(messages') : messages'[k].instance \in 1 .. made
  BY <1>2, <1>3 DEF IInv, FreshInv
<1>6. Ordered(messages') /\ AllEnd(messages', record)
  BY <1>1, TailOrdered, TailAllEnd DEF IInv, QueueInv
<1> QED
  BY <1>1, <1>2, <1>4, <1>5, <1>6 DEF Current

(* An owner that is not the one the message is for ends before it. *)
LEMMA OwnerFacts ==
    ASSUME IInv, NEW w, Handles(w), NEW l \in listeners
    PROVE  l.instance = Current
<1>1. 1 \in 1 .. Len(messages) /\ Current = messages[1].instance
  BY HandleFacts, QueueFacts
<1>2. EndsFirst(messages, l.instance) /\ l.instance \in Nat /\ Current \in Nat
  BY HandleFacts, IdFacts DEF IInv, OwnerInv, TypeInv, Listeners
<1>3. l.instance <= Current /\ ~(l.instance < Current)
  BY <1>1, <1>2 DEF EndsFirst
<1> QED
  BY <1>2, <1>3

LEMMA OnCreateIInv == IInv /\ OnCreate => IInv'
<1> SUFFICES ASSUME IInv, OnCreate PROVE IInv'
  OBVIOUS
<1> USE DEF IInv
<1>1. /\ Handles("create") /\ instances' = [instances EXCEPT ![Current] = NewInstance]
      /\ UNCHANGED <<applicationContext, settings, call, asked, calls, running, listeners,
                     notification, record, intents, made, kills>>
  BY DEF OnCreate, appVars
<1>2. /\ messages \in Seq(Messages) /\ messages # <<>> /\ Len(messages) > 0
      /\ Current = messages[1].instance /\ messages[1].what = "create" /\ Current \in Ids
      /\ Current \in 1 .. made
      /\ messages' = Tail(messages) /\ messages' \in Seq(Messages)
      /\ \A k \in 1 .. Len(messages') : messages'[k].instance \in 1 .. made
      /\ Ordered(messages') /\ AllEnd(messages', record)
  BY <1>1, HandleFacts
<1>3. NewInstance \in Instances /\ NewInstance # None
      /\ NewInstance.listener = None /\ ~NewInstance.cpuLock /\ ~NewInstance.wifiLock
  <2>1. NewInstance \in Instances
    BY ServiceAssumption DEF NewInstance, Instances
  <2>2. NewInstance.listener = None /\ ~NewInstance.cpuLock /\ ~NewInstance.wifiLock
    BY DEF NewInstance
  <2> QED
    BY <2>1, <2>2, NoneAssumption
<1>4. /\ instances' \in [Ids -> Instances \cup {None}] /\ instances'[Current] = NewInstance
      /\ \A i \in Ids \ {Current} : instances'[i] = instances[i]
  BY <1>1, <1>2, <1>3 DEF TypeInv
<1>5. 1 \in 1 .. Len(messages) /\ instances[Current] = None
  BY <1>2, QueueFacts DEF QueueInv, AllBegin
<1>6. TypeInv'
  BY <1>1, <1>2, <1>4 DEF TypeInv
<1>7. FreshInv'
  <2>1. \A i \in Ids : i > made => i # Current
    BY <1>2, IdFacts, NumberFacts
  <2> QED
    BY <1>1, <1>2, <1>4, <2>1 DEF FreshInv
<1>8. QueueInv'
  <2>1. AllBegin(messages', instances')
    <3>1. /\ \A i \in Ids \ {messages[1].instance} : instances'[i] = None <=> instances[i] = None
          /\ instances'[messages[1].instance] # None
      BY <1>2, <1>3, <1>4
    <3>2. Ordered(messages) /\ AllBegin(messages, instances)
      BY DEF QueueInv
    <3> QED
      BY <1>2, <3>1, <3>2, TailAllBegin
  <2>2. ASSUME record # 0
        PROVE  \/ instances'[record] # None
               \/ \E j \in 1 .. Len(messages') : IsCreate(messages'[j], record)
    <3>1. CASE record = Current
      BY <1>3, <1>4, <3>1
    <3>2. CASE record # Current
      <4>1. record \in Ids
        BY <2>2, NumberFacts
      <4>2. ~IsCreate(messages[1], record)
        BY <1>2, <3>2 DEF IsCreate
      <4> QED
        BY <1>2, <1>4, <2>2, <3>2, <4>1, <4>2, TailKeepsCreate DEF QueueInv
    <3> QED
      BY <3>1, <3>2
  <2> QED
    BY <1>1, <1>2, <2>1, <2>2 DEF QueueInv
<1>9. listeners = {}
  <2> SUFFICES ASSUME NEW l \in listeners PROVE FALSE
    OBVIOUS
  <2>1. l.instance = Current
    BY <1>1, OwnerFacts
  <2>2. instances[l.instance] # None
    BY DEF RunningMeansOneListener
  <2> QED
    BY <1>5, <2>1, <2>2
<1>10. OwnerInv' /\ ConfigurationSurvives'
  BY <1>1, <1>9 DEF OwnerInv, ConfigurationSurvives
<1>11. AskedInv'
  <2> SUFFICES ASSUME record # 0 PROVE FirstIntent(messages', record, asked)
    BY <1>1 DEF AskedInv
  <2>1. FirstIntent(messages, record, asked)
    BY <1>9 DEF AskedInv
  <2>2. ~IsArgs(messages[1], record)
    BY <1>2 DEF IsArgs
  <2> QED
    BY <1>2, <2>1, <2>2, TailFirstIntent
<1>12. RunningMeansOneListener'
  <2>1. \A i \in Ids : instances'[i] # None =>
            /\ instances'[i].cpuLock <=> instances'[i].listener # None
            /\ instances'[i].wifiLock <=> instances'[i].cpuLock /\ WifiAvailable
    BY <1>3, <1>4 DEF RunningMeansOneListener
  <2> QED
    BY <1>1, <1>9, <2>1 DEF RunningMeansOneListener
<1> QED
  BY <1>6, <1>7, <1>8, <1>10, <1>11, <1>12

(* The callbacks of an instance that has been created. *)
LEMMA CreatedFacts ==
    ASSUME IInv, NEW w, Handles(w), w # "create"
    PROVE  instances[Current] \in Instances /\ instances[Current] # None
<1>1. 1 \in 1 .. Len(messages) /\ Current = messages[1].instance /\ messages[1].what # "create"
      /\ Current \in Ids
  BY HandleFacts, QueueFacts
<1>2. AllBegin(messages, instances)
  BY DEF IInv, QueueInv
<1>3. instances[Current] # None
  BY <1>1, <1>2 DEF AllBegin
<1> QED
  BY <1>1, <1>3 DEF IInv, TypeInv

(* What the queue is like once an instance that exists has been served. *)
LEMMA ServedQueue ==
    ASSUME IInv, NEW w, Handles(w), w # "create", UNCHANGED <<record, made>>,
           instances' \in [Ids -> Instances \cup {None}], instances'[Current] # None,
           \A i \in Ids \ {Current} : instances'[i] = instances[i]
    PROVE  QueueInv'
<1> USE DEF IInv
<1>1. /\ messages \in Seq(Messages) /\ messages # <<>>
      /\ Current = messages[1].instance /\ messages[1].what # "create" /\ Current \in Ids
      /\ messages' = Tail(messages) /\ Ordered(messages') /\ AllEnd(messages', record)
  BY HandleFacts
<1>2. AllBegin(messages', instances')
  <2>1. /\ \A i \in Ids \ {messages[1].instance} : instances'[i] = None <=> instances[i] = None
        /\ instances'[messages[1].instance] # None
    BY <1>1
  <2>2. Ordered(messages) /\ AllBegin(messages, instances)
    BY DEF QueueInv
  <2> QED
    BY <1>1, <2>1, <2>2, TailAllBegin
<1>3. ASSUME record # 0
      PROVE  \/ instances'[record] # None
             \/ \E j \in 1 .. Len(messages') : IsCreate(messages'[j], record)
  <2>1. record \in Ids /\ ~IsCreate(messages[1], record)
    BY <1>1, <1>3, NumberFacts DEF IsCreate
  <2>2. CASE instances[record] # None
    BY <2>1, <2>2
  <2>3. CASE instances[record] = None
    BY <1>1, <1>3, <2>1, <2>3, TailKeepsCreate DEF QueueInv
  <2> QED
    BY <2>2, <2>3
<1> QED
  BY <1>1, <1>2, <1>3 DEF QueueInv

LEMMA OnDestroyIInv == IInv /\ OnDestroy => IInv'
<1> SUFFICES ASSUME IInv, OnDestroy PROVE IInv'
  OBVIOUS
<1> USE DEF IInv
<1> DEFINE closed == [instances[Current] EXCEPT !.listener = None, !.cpuLock = FALSE, !.wifiLock = FALSE]
<1>1. /\ Handles("destroy") /\ instances' = [instances EXCEPT ![Current] = closed]
      /\ listeners' = listeners \ {instances[Current].listener} /\ running' = FALSE
      /\ notification' = None
      /\ UNCHANGED <<applicationContext, settings, call, asked, calls, record, intents, made, kills>>
  BY DEF OnDestroy, appVars
<1>2. /\ messages \in Seq(Messages) /\ messages # <<>>
      /\ Current = messages[1].instance /\ messages[1].what = "destroy" /\ Current \in Ids
      /\ Current \in 1 .. made
      /\ messages' = Tail(messages) /\ messages' \in Seq(Messages)
      /\ \A k \in 1 .. Len(messages') : messages'[k].instance \in 1 .. made
  BY <1>1, HandleFacts
<1>3. instances[Current] \in Instances
  BY <1>1, CreatedFacts
<1>4. closed \in Instances /\ closed.listener = None /\ ~closed.cpuLock /\ ~closed.wifiLock
  BY <1>3 DEF Instances
<1> HIDE DEF closed
<1>5. closed # None
  BY <1>4, NoneAssumption
<1>6. /\ instances' \in [Ids -> Instances \cup {None}] /\ instances'[Current] = closed
      /\ \A i \in Ids \ {Current} : instances'[i] = instances[i]
  BY <1>1, <1>2, <1>4 DEF TypeInv
<1>7. listeners' = {}
  <2>1. \A l \in listeners : l.instance = Current
    BY <1>1, OwnerFacts
  <2>2. \A l \in listeners : l = instances[Current].listener
    BY <2>1 DEF RunningMeansOneListener
  <2> QED
    BY <1>1, <2>2
<1>8. TypeInv'
  BY <1>1, <1>2, <1>6, <1>7 DEF TypeInv
<1>9. FreshInv'
  <2>1. \A i \in Ids : i > made => i # Current
    BY <1>2, IdFacts, NumberFacts
  <2> QED
    BY <1>1, <1>2, <1>6, <2>1 DEF FreshInv
<1>10. QueueInv'
  BY <1>1, <1>5, <1>6, ServedQueue
<1>11. OwnerInv' /\ ConfigurationSurvives'
  BY <1>7 DEF OwnerInv, ConfigurationSurvives
<1>12. AskedInv'
  <2> SUFFICES ASSUME record # 0 PROVE FirstIntent(messages', record, asked)
    BY <1>1 DEF AskedInv
  <2>1. Current # record
    <3>1. 1 \in 1 .. Len(messages)
      BY <1>2, QueueFacts, TailFacts
    <3> QED
      BY <1>2, <3>1 DEF QueueInv, AllEnd
  <2>2. \A l \in listeners : l.instance # record
    BY <1>1, <2>1, OwnerFacts
  <2>3. FirstIntent(messages, record, asked)
    BY <2>2 DEF AskedInv
  <2>4. ~IsArgs(messages[1], record)
    BY <1>2 DEF IsArgs
  <2> QED
    BY <1>2, <2>3, <2>4, TailFirstIntent
<1>13. RunningMeansOneListener'
  <2>1. \A i \in Ids : instances'[i] # None =>
            /\ instances'[i].cpuLock <=> instances'[i].listener # None
            /\ instances'[i].wifiLock <=> instances'[i].cpuLock /\ WifiAvailable
    BY <1>4, <1>6 DEF RunningMeansOneListener
  <2> QED
    BY <1>1, <1>7, <2>1 DEF RunningMeansOneListener
<1> QED
  BY <1>8, <1>9, <1>10, <1>11, <1>12, <1>13

(* The first callback of an instance: there is no listener yet. *)
LEMMA StartListenerIInv ==
    ASSUME IInv, OnStartCommand, ~running
    PROVE  IInv'
<1> DEFINE c == messages[1].intent
           l == [instance |-> Current, configuration |-> c]
           started == [configuration |-> c, listener |-> l, cpuLock |-> TRUE,
                       wifiLock |-> WifiAvailable]
<1> USE DEF IInv
<1>1. Handles("args")
  BY DEF OnStartCommand
<1>2. /\ messages \in Seq(Messages) /\ messages # <<>> /\ Head(messages) = messages[1]
      /\ Current = messages[1].instance /\ messages[1].what = "args" /\ Current \in Ids
      /\ messages[1] \in Messages /\ Current \in 1 .. made
      /\ messages' = Tail(messages) /\ messages' \in Seq(Messages)
      /\ \A k \in 1 .. Len(messages') : messages'[k].instance \in 1 .. made
  BY <1>1, HandleFacts
<1>3. /\ applicationContext' = TRUE /\ notification' = c
      /\ instances' = [instances EXCEPT ![Current] = started]
      /\ listeners' = listeners \cup {l} /\ running' = TRUE
      /\ UNCHANGED <<settings, call, asked, calls, record, intents, made, kills>>
  BY <1>2 DEF OnStartCommand, StartListener, Configured, ContextAtStart, appVars
<1>4. c \in Configurations
  BY <1>2, MessageFacts
<1>5. /\ l \in Listeners /\ l.instance = Current /\ l.configuration = c
      /\ started \in Instances /\ started.listener = l
  BY <1>2, <1>4, ServiceAssumption DEF Listeners, Instances
<1>6. started.cpuLock /\ (started.wifiLock <=> WifiAvailable)
  BY ServiceAssumption
<1> HIDE DEF c, l, started
<1>7. l # None /\ started # None
  BY <1>5, NoneAssumption
<1>8. /\ instances' \in [Ids -> Instances \cup {None}] /\ instances'[Current] = started
      /\ \A i \in Ids \ {Current} : instances'[i] = instances[i]
  BY <1>2, <1>3, <1>5 DEF TypeInv
<1>9. listeners = {} /\ listeners' = {l}
  BY <1>3 DEF RunningMeansOneListener
<1>10. TypeInv'
  BY <1>2, <1>3, <1>4, <1>5, <1>8, <1>9 DEF TypeInv
<1>11. FreshInv'
  <2>1. \A i \in Ids : i > made => i # Current
    BY <1>2, IdFacts, NumberFacts
  <2> QED
    BY <1>2, <1>3, <1>8, <2>1 DEF FreshInv
<1>12. QueueInv'
  BY <1>1, <1>3, <1>7, <1>8, ServedQueue
<1>13. OwnerInv'
  <2>1. Current <= made
    BY <1>2, NumberFacts
  <2>2. EndsFirst(messages', Current)
    BY <1>2, TailEndsFirst DEF QueueInv
  <2>3. ASSUME Current # record
        PROVE  \E m \in 1 .. Len(messages') : IsDestroy(messages'[m], Current)
    <3>1. 1 \in 1 .. Len(messages)
      BY <1>2, QueueFacts, TailFacts
    <3>2. \E m \in 1 .. Len(messages) : IsDestroy(messages[m], Current)
      BY <1>2, <2>3, <3>1 DEF QueueInv, AllEnd
    <3> QED
      BY <1>2, <3>2, TailKeepsDestroy
  <2> QED
    BY <1>3, <1>5, <1>9, <2>1, <2>2, <2>3 DEF OwnerInv
<1>14. ASSUME record # 0, Current # record
       PROVE  FirstIntent(messages', record, asked)
  <2>1. FirstIntent(messages, record, asked)
    BY <1>9, <1>14 DEF AskedInv
  <2>2. ~IsArgs(messages[1], record)
    BY <1>2, <1>14 DEF IsArgs
  <2> QED
    BY <1>2, <2>1, <2>2, TailFirstIntent
<1>15. ASSUME Current = record
       PROVE  c = asked
  <2>1. FirstIntent(messages, record, asked)
    BY <1>2, <1>9, <1>15, IdFacts DEF AskedInv
  <2>2. IsArgs(messages[1], record)
    BY <1>2, <1>15 DEF IsArgs
  <2> QED
    BY <1>2, <2>1, <2>2, HeadFirstIntent DEF c
<1>16. AskedInv'
  BY <1>3, <1>5, <1>9, <1>14 DEF AskedInv
<1>17. ConfigurationSurvives'
  BY <1>3, <1>5, <1>9, <1>15 DEF ConfigurationSurvives
<1>18. RunningMeansOneListener'
  <2>1. \A i \in Ids : instances'[i] # None =>
            /\ instances'[i].cpuLock <=> instances'[i].listener # None
            /\ instances'[i].wifiLock <=> instances'[i].cpuLock /\ WifiAvailable
    BY <1>5, <1>6, <1>7, <1>8 DEF RunningMeansOneListener
  <2> QED
    BY <1>3, <1>5, <1>7, <1>8, <1>9, <2>1 DEF RunningMeansOneListener
<1> QED
  BY <1>10, <1>11, <1>12, <1>13, <1>16, <1>17, <1>18

(* A later one: the listener is that of this instance. *)
LEMMA ReconfigureIInv ==
    ASSUME IInv, OnStartCommand, running
    PROVE  IInv'
<1> DEFINE c == messages[1].intent
           changed == [instances[Current] EXCEPT !.configuration = c]
<1> USE DEF IInv
<1>1. Handles("args")
  BY DEF OnStartCommand
<1>2. /\ messages \in Seq(Messages) /\ messages # <<>> /\ Head(messages) = messages[1]
      /\ Current = messages[1].instance /\ messages[1].what = "args" /\ Current \in Ids
      /\ messages[1] \in Messages /\ Current \in 1 .. made
      /\ messages' = Tail(messages) /\ messages' \in Seq(Messages)
      /\ \A k \in 1 .. Len(messages') : messages'[k].instance \in 1 .. made
  BY <1>1, HandleFacts
<1>3. /\ applicationContext' = TRUE /\ notification' = c
      /\ instances' = [instances EXCEPT ![Current] = changed]
      /\ UNCHANGED <<settings, call, asked, calls, record, intents, made, kills, listeners, running>>
  BY <1>2 DEF OnStartCommand, Configured, ContextAtStart, appVars
<1>4. c \in Configurations
  BY <1>2, MessageFacts
<1>5. instances[Current] \in Instances /\ instances[Current] # None
  BY <1>1, CreatedFacts
<1>6. /\ changed \in Instances /\ changed.listener = instances[Current].listener
  BY <1>4, <1>5 DEF Instances
<1>7. /\ changed.cpuLock <=> instances[Current].cpuLock
      /\ changed.wifiLock <=> instances[Current].wifiLock
  BY <1>5 DEF Instances
<1> HIDE DEF c, changed
<1>8. changed # None
  BY <1>6, NoneAssumption
<1>9. /\ instances' \in [Ids -> Instances \cup {None}] /\ instances'[Current] = changed
      /\ \A i \in Ids \ {Current} : instances'[i] = instances[i]
  BY <1>2, <1>3, <1>6 DEF TypeInv
<1>10. TypeInv'
  BY <1>2, <1>3, <1>4, <1>9 DEF TypeInv
<1>11. FreshInv'
  <2>1. \A i \in Ids : i > made => i # Current
    BY <1>2, IdFacts, NumberFacts
  <2> QED
    BY <1>2, <1>3, <1>9, <2>1 DEF FreshInv
<1>12. QueueInv'
  BY <1>1, <1>3, <1>8, <1>9, ServedQueue
<1>13. OwnerInv'
  <2> SUFFICES ASSUME NEW l \in listeners
               PROVE  /\ l.instance <= made /\ EndsFirst(messages', l.instance)
                      /\ l.instance # record =>
                             \E m \in 1 .. Len(messages') : IsDestroy(messages'[m], l.instance)
    BY <1>3 DEF OwnerInv
  <2>1. /\ l.instance <= made /\ EndsFirst(messages, l.instance)
        /\ l.instance # record =>
               \E m \in 1 .. Len(messages) : IsDestroy(messages[m], l.instance)
    BY DEF OwnerInv
  <2>2. EndsFirst(messages', l.instance)
    BY <1>2, <2>1, TailKeepsEndsFirst
  <2> QED
    BY <1>2, <2>1, <2>2, TailKeepsDestroy
<1>14. AskedInv'
  <2>1. PICK l \in listeners : l.instance = Current
    BY <1>1, OwnerFacts DEF RunningMeansOneListener
  <2>2. CASE Current = record
    BY <1>3, <2>1, <2>2 DEF AskedInv
  <2>3. CASE Current # record
    <3>1. \A x \in listeners : x.instance # record
      BY <1>1, <2>3, OwnerFacts
    <3>2. ~IsArgs(messages[1], record)
      BY <1>2, <2>3 DEF IsArgs
    <3>3. record # 0 => FirstIntent(messages, record, asked)
      BY <3>1 DEF AskedInv
    <3>4. record # 0 => FirstIntent(messages', record, asked)
      BY <1>2, <3>2, <3>3, TailFirstIntent
    <3> QED
      BY <1>3, <3>4 DEF AskedInv
  <2> QED
    BY <2>2, <2>3
<1>15. ConfigurationSurvives'
  BY <1>3 DEF ConfigurationSurvives
<1>16. RunningMeansOneListener'
  <2>1. \A i \in Ids : instances'[i] # None =>
            /\ instances'[i].cpuLock <=> instances'[i].listener # None
            /\ instances'[i].wifiLock <=> instances'[i].cpuLock /\ WifiAvailable
    <3> SUFFICES ASSUME NEW i \in Ids, instances'[i] # None
                 PROVE  /\ instances'[i].cpuLock <=> instances'[i].listener # None
                        /\ instances'[i].wifiLock <=> instances'[i].cpuLock /\ WifiAvailable
      OBVIOUS
    <3>1. CASE i = Current
      BY <1>5, <1>6, <1>7, <1>9, <3>1 DEF RunningMeansOneListener
    <3>2. CASE i # Current
      BY <1>9, <3>2 DEF RunningMeansOneListener
    <3> QED
      BY <3>1, <3>2
  <2>2. \A l \in listeners : l.instance \in Ids
    BY DEF TypeInv, Listeners
  <2>3. \A l \in listeners : instances'[l.instance] # None /\ instances'[l.instance].listener = l
    BY <1>5, <1>6, <1>8, <1>9, <2>2 DEF RunningMeansOneListener
  <2> QED
    BY <1>3, <2>1, <2>3 DEF RunningMeansOneListener
<1> QED
  BY <1>10, <1>11, <1>12, <1>13, <1>14, <1>15, <1>16

-----------------------------------------------------------------------------
(* The death of the process. *)
LEMMA KillIInv == IInv /\ Kill => IInv'
<1> SUFFICES ASSUME IInv, Kill PROVE IInv'
  OBVIOUS
<1> USE DEF IInv
<1>1. /\ kills < MaxKills /\ kills' = kills + 1 /\ running' = FALSE /\ applicationContext' = FALSE
      /\ settings' = Default /\ call' = None /\ instances' = [i \in Ids |-> None]
      /\ listeners' = {} /\ notification' = None /\ UNCHANGED <<asked, calls>>
  BY DEF Kill
<1>2. call' # "start" /\ kills' \in 0 .. MaxKills /\ Default \in Configurations
  BY <1>1, NoneAssumption, ServiceAssumption DEF TypeInv
<1>3. \A i \in Ids : instances'[i] = None
  BY <1>1
<1>4. instances' \in [Ids -> Instances \cup {None}]
  BY <1>1
<1>5. RunningMeansOneListener' /\ ConfigurationSurvives' /\ OwnerInv'
  BY <1>1, <1>3 DEF RunningMeansOneListener, ConfigurationSurvives, OwnerInv
<1>6. CASE record = 0
  <2>1. messages' = <<>> /\ UNCHANGED <<record, intents, made>>
    BY <1>6 DEF Kill
  <2>2. messages' \in Seq(Messages) /\ Len(messages') = 0
    BY <2>1
  <2>3. TypeInv'
    BY <1>1, <1>2, <1>4, <2>1, <2>2 DEF TypeInv
  <2>4. FreshInv'
    <3>1. made \in 0 .. calls + kills'
      BY <1>1, NumberFacts
    <3> QED
      BY <1>1, <1>2, <1>3, <2>1, <2>2, <3>1 DEF FreshInv
  <2>5. QueueInv' /\ AskedInv'
    BY <1>6, <2>1, <2>2 DEF QueueInv, Ordered, AllEnd, AllBegin, AskedInv
  <2> QED
    BY <1>5, <2>3, <2>4, <2>5
<1>7. CASE record # 0
  <2> DEFINE i == made + 1
             given == [k \in DOMAIN intents |-> Args(i, intents[k])]
  <2>1. /\ made' = i /\ record' = i /\ intents' = intents
        /\ messages' = <<Create(i)>> \o given
    BY <1>7 DEF Kill, Redelivered
  <2>2. /\ i \in Ids /\ i \in Nat /\ i > 0 /\ made \in Nat /\ i <= calls + kills'
    BY <1>1, NumberFacts
  <2>3. /\ intents \in Seq(Configurations) /\ Len(intents) \in Nat /\ Len(intents) > 0
        /\ DOMAIN intents = 1 .. Len(intents)
        /\ \A k \in 1 .. Len(intents) : intents[k] \in Configurations
        /\ intents[1] = asked
    BY <1>7 DEF TypeInv, AskedInv
  <2>4. /\ Create(i) \in Messages /\ IsCreate(Create(i), i)
        /\ Create(i).instance = i /\ Create(i).what = "create"
    BY <1>2, <2>2, MadeFacts
  <2>5. \A k \in 1 .. Len(intents) :
           /\ Args(i, intents[k]) \in Messages /\ IsArgs(Args(i, intents[k]), i)
           /\ Args(i, intents[k]).instance = i /\ Args(i, intents[k]).what = "args"
           /\ Args(i, intents[k]).intent = intents[k]
    BY <2>2, <2>3, MadeFacts
  <2> HIDE DEF i
  <2>6. /\ given \in Seq(Messages) /\ Len(given) = Len(intents)
        /\ \A k \in 1 .. Len(intents) : given[k] = Args(i, intents[k])
    <3>1. given \in [1 .. Len(intents) -> Messages]
      BY <2>3, <2>5
    <3>2. given \in Seq(Messages) /\ Len(given) = Len(intents)
      BY <2>3, <3>1
    <3> QED
      BY <2>3, <3>2
  <2> HIDE DEF given
  <2>7. /\ messages' \in Seq(Messages) /\ Len(messages') = Len(intents) + 1
        /\ messages'[1] = Create(i)
        /\ \A k \in 2 .. Len(messages') : messages'[k] = Args(i, intents[k - 1])
    <3>1. messages' \in Seq(Messages) /\ Len(messages') = Len(intents) + 1
      BY <2>1, <2>4, <2>6
    <3>2. messages'[1] = Create(i)
      BY <2>1, <2>3, <2>6
    <3>3. \A k \in 2 .. Len(intents) + 1 : messages'[k] = given[k - 1]
      BY <2>1, <2>3, <2>6
    <3>4. \A k \in 2 .. Len(intents) + 1 : k - 1 \in 1 .. Len(intents)
      BY <2>3
    <3> QED
      BY <2>6, <3>1, <3>2, <3>3, <3>4
  <2>8. /\ \A k \in 1 .. Len(messages') : messages'[k].instance = i /\ messages'[k].what # "destroy"
        /\ \A k \in 2 .. Len(messages') :
               /\ messages'[k].what = "args" /\ IsArgs(messages'[k], i)
               /\ messages'[k].intent = intents[k - 1]
        /\ 1 \in 1 .. Len(messages') /\ 2 \in 2 .. Len(messages')
    <3>1. \A k \in 2 .. Len(messages') : k - 1 \in 1 .. Len(intents)
      BY <2>3, <2>7
    <3>2. \A k \in 2 .. Len(messages') :
             /\ messages'[k].what = "args" /\ messages'[k].instance = i
             /\ IsArgs(messages'[k], i) /\ messages'[k].intent = intents[k - 1]
      BY <2>5, <2>7, <3>1
    <3>3. messages'[1].instance = i /\ messages'[1].what = "create"
      BY <2>4, <2>7
    <3>4. \A k \in 1 .. Len(messages') : k = 1 \/ k \in 2 .. Len(messages')
      BY <2>3, <2>7
    <3> QED
      BY <2>3, <2>7, <3>2, <3>3, <3>4
  <2>9. TypeInv'
    BY <1>1, <1>2, <1>4, <2>1, <2>7 DEF TypeInv
  <2>10. FreshInv'
    BY <1>1, <1>2, <1>3, <2>1, <2>2, <2>8 DEF FreshInv
  <2>11. QueueInv'
    <3>1. Ordered(messages')
      <4>1. \A k \in 1 .. Len(messages') : k # 1 => messages'[k].what # "create"
        BY <2>8, <2>7, <2>3
      <4>2. \A j, k \in 1 .. Len(messages') : j < k => k # 1
        BY <2>3, <2>7
      <4> QED
        BY <2>2, <2>8, <4>1, <4>2 DEF Ordered
    <3>2. AllEnd(messages', i)
      BY <2>8 DEF AllEnd
    <3>3. AllBegin(messages', instances')
      <4>1. \A k \in 1 .. Len(messages') : k # 1 => 1 \in 1 .. k - 1
        BY <2>3, <2>7
      <4>2. IsCreate(messages'[1], i)
        BY <2>4, <2>7
      <4>3. messages'[1].what = "create"
        BY <2>4, <2>7
      <4> QED
        BY <1>3, <2>2, <2>8, <4>1, <4>2, <4>3 DEF AllBegin
    <3>4. \E j \in 1 .. Len(messages') : IsCreate(messages'[j], i)
      BY <2>4, <2>7, <2>8
    <3> QED
      BY <2>1, <3>1, <3>2, <3>3, <3>4 DEF QueueInv
  <2>12. AskedInv'
    <3>1. FirstIntent(messages', i, asked)
      <4>1. 2 \in 1 .. Len(messages') /\ 2 - 1 = 1
        BY <2>3, <2>7
      <4>2. IsArgs(messages'[2], i) /\ messages'[2].intent = asked
        BY <2>3, <2>8
      <4>3. \A j \in 1 .. 2 - 1 : ~IsArgs(messages'[j], i)
        BY <2>4, <2>7 DEF IsArgs
      <4> QED
        BY <4>1, <4>2, <4>3 DEF FirstIntent
    <3> QED
      BY <1>1, <2>1, <2>3, <3>1 DEF AskedInv
  <2> QED
    BY <1>5, <2>9, <2>10, <2>11, <2>12
<1> QED
  BY <1>6, <1>7

-----------------------------------------------------------------------------
LEMMA NextIInv == IInv /\ [Next]_vars => IInv'
<1> SUFFICES ASSUME IInv, [Next]_vars PROVE IInv'
  OBVIOUS
<1>1. CASE SetConfiguration
  BY <1>1, SetConfigurationIInv
<1>2. CASE Start
  BY <1>2, StartIInv
<1>3. CASE StartForegroundService
  BY <1>3, FirstIntentIInv, AnotherIntentIInv
<1>4. CASE Stop
  BY <1>4, StopIInv
<1>5. CASE StopService
  BY <1>5, StopServiceIInv
<1>6. CASE OnCreate
  BY <1>6, OnCreateIInv
<1>7. CASE OnStartCommand
  BY <1>7, StartListenerIInv, ReconfigureIInv
<1>8. CASE OnDestroy
  BY <1>8, OnDestroyIInv
<1>9. CASE Kill
  BY <1>9, KillIInv
<1>10. CASE UNCHANGED vars
  BY <1>10 DEF vars, appVars, serviceVars, systemVars, IInv, TypeInv, FreshInv, QueueInv, OwnerInv,
               AskedInv, RunningMeansOneListener, ConfigurationSurvives
<1>11. \/ SetConfiguration \/ Start \/ StartForegroundService \/ Stop \/ StopService
       \/ OnCreate \/ OnStartCommand \/ OnDestroy \/ Kill \/ UNCHANGED vars
  BY DEF Next, Application, MainThread
<1> QED
  BY <1>1, <1>2, <1>3, <1>4, <1>5, <1>6, <1>7, <1>8, <1>9, <1>10, <1>11

(* The inductive invariant: the order of what Android has yet to deliver,  *)
(* and what it means for the static fields and the listener.               *)
THEOREM Invariance == Spec => []IInv
<1>1. Init => IInv
  BY InitIInv
<1>2. IInv /\ [Next]_vars => IInv'
  BY NextIInv
<1> QED
  BY <1>1, <1>2, PTL DEF Spec

(* For any number of calls and deaths of the process there is one listener *)
(* at most, exactly while running is TRUE, and its owner can close it.     *)
THEOREM OneListener == Spec => []RunningMeansOneListener
<1>1. IInv => RunningMeansOneListener
  BY DEF IInv
<1> QED
  BY <1>1, Invariance, PTL

(* The listener of the started service has the configuration it was        *)
(* started with, however often the process died in between.                *)
THEOREM ConfigurationKept == Spec => []ConfigurationSurvives
<1>1. IInv => ConfigurationSurvives
  BY DEF IInv
<1> QED
  BY <1>1, Invariance, PTL

=============================================================================

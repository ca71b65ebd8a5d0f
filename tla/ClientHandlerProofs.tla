------------------------- MODULE ClientHandlerProofs -------------------------
(* Proofs about ClientHandler, for any requests of the client, however many *)
(* frames it sends and whenever the connection ends.                        *)
EXTENDS ClientHandler, TLAPS

(* The handler waits for a body, or for a size. *)
BodyNext == IF currentState = "READING_DATA" /\ pc # "handle" THEN 1 ELSE 0

(* How many requests are done with. *)
Handled == IF pc = "handle" THEN received - 1 ELSE received

Parts == {SizeOf(size) : size \in Sizes} \cup {BodyOf(r) : r \in Requests}

Answers ==
    {Nothing, "ERROR_READING_FROM_CLIENT", "INVALID_FORMAT", "NO_COMMAND_SPECIFIED",
     "UNKNOWN_COMMAND", "NO_DATABASE_SPECIFIED", "ok", "error", "list", "rows", "sqlError"}

(* Answers still get through. *)
Connected == socketOpen /\ peer # "reset"

-----------------------------------------------------------------------------
(* The strengthening that makes the properties inductive.                  *)

TypeInv ==
    /\ sent \in Seq(Requests) /\ Len(sent) \in Nat
    /\ network \in Seq(Parts)
    /\ peer \in {"up", "eof", "reset"}
    /\ bodyDue \in BOOLEAN /\ socketOpen \in BOOLEAN
    /\ authorized \in BOOLEAN /\ password \in BOOLEAN /\ denyAccess \in BOOLEAN
    /\ received \in Nat /\ executed \subseteq 1 .. received
    /\ request \in Requests \cup {None}
    /\ pc \in {"start", "loop", "read", "handle", "send", "cleanUp", "done", "crashed"}
    /\ currentState \in {"READING_SIZE", "READING_DATA"}
    /\ lost \in Nat \cup {None}
    /\ answers \in Seq(Answers) /\ answer \in Answers

(* Sizes and bodies alternate, and the bodies on their way are those of the *)
(* requests that were not received yet.                                     *)
FrameInv ==
    /\ InStep => received <= Len(sent)
    /\ InStep /\ peer # "reset" /\ pc # "crashed" =>
           /\ Len(network) + BodyNext =
                  2 * (Len(sent) - received) + (IF bodyDue THEN 1 ELSE 0)
           /\ \A m \in Nat \ {0} : 2 * m - BodyNext <= Len(network) =>
                  network[2 * m - BodyNext] = BodyOf(sent[received + m])

RequestInv ==
    pc = "handle" =>
        /\ request \in Requests /\ received > 0 /\ received \notin executed /\ ~denyAccess
        /\ InStep => request = sent[received]

(* The handler has seen the password exactly if a request that it is done   *)
(* with had it.                                                             *)
AuthorizedInv ==
    InStep => (authorized <=> (~password \/ \E j \in 1 .. Handled : Contract!Authorizes(sent[j])))

(* One answer for one request. *)
AnswerInv ==
    /\ ~InStep => lost <= Len(answers)
    /\ denyAccess => received \notin executed /\ pc \in {"loop", "cleanUp", "done"}
    /\ InStep =>
           /\ Len(answers) <= received /\ received <= Len(answers) + 1
           /\ pc = "handle" => Len(answers) = received - 1
           /\ Connected /\ pc = "send" =>
                  Len(answers) = received - 1 /\ answer \in Contract!AnswersTo(received)
           /\ Connected /\ pc \notin {"handle", "send", "crashed"} /\ ~denyAccess =>
                  Len(answers) = received

IInv ==
    /\ TypeInv /\ FrameInv /\ RequestInv
    /\ AuthorizedInv /\ AnswerInv
    /\ NothingBeforeAuthorization

-----------------------------------------------------------------------------
LEMMA InitIInv == Init => IInv
<1> SUFFICES ASSUME Init PROVE IInv
  OBVIOUS
<1> USE HandlerAssumption DEF Init
<1>1. TypeInv
  <2>1. sent \in Seq(Requests) /\ Len(sent) \in Nat /\ answers \in Seq(Answers)
        /\ network \in Seq(Parts)
    OBVIOUS
  <2>2. password \in BOOLEAN /\ authorized \in BOOLEAN
    OBVIOUS
  <2>3. answer \in Answers
    BY DEF Answers
  <2> QED
    BY <2>1, <2>2, <2>3 DEF TypeInv
<1>2. FrameInv /\ RequestInv
  BY DEF FrameInv, RequestInv, BodyNext
<1>3. AuthorizedInv
  <2>1. authorized <=> ~password
    OBVIOUS
  <2>2. \A j \in 1 .. Handled : FALSE
    BY DEF Handled
  <2> QED
    BY <2>1, <2>2 DEF AuthorizedInv
<1>4. AnswerInv /\ NothingBeforeAuthorization
  BY DEF AnswerInv, NothingBeforeAuthorization, InStep
<1> QED
  BY <1>1, <1>2, <1>3, <1>4 DEF IInv

(* What the handler does without reading, handling or sending. *)
LEMMA Elsewhere ==
    ASSUME IInv, UNCHANGED <<sent, network, bodyDue, peer, currentState, authVars, request, answer,
                             answers, received, executed, lost>>,
           socketOpen' \in BOOLEAN, socketOpen' => socketOpen,
           pc' = pc \/ {pc, pc'} \subseteq {"start", "loop", "read", "cleanUp", "done"},
           denyAccess => pc' \in {"loop", "cleanUp", "done"}
    PROVE  IInv'
<1> USE DEF IInv, authVars
<1>1. /\ pc' \in {"start", "loop", "read", "handle", "send", "cleanUp", "done", "crashed"}
      /\ pc' = "handle" <=> pc = "handle"
      /\ pc' = "send" <=> pc = "send"
      /\ pc' = "crashed" <=> pc = "crashed"
  BY DEF TypeInv
<1>2. BodyNext' = BodyNext /\ Handled' = Handled /\ (InStep' <=> InStep)
  BY <1>1 DEF BodyNext, Handled, InStep
<1>3. TypeInv'
  BY <1>1 DEF TypeInv
<1>4. FrameInv'
  BY <1>1, <1>2 DEF FrameInv
<1>5. RequestInv'
  BY <1>1, <1>2 DEF RequestInv
<1>6. AuthorizedInv'
  BY <1>2 DEF AuthorizedInv, Contract!Authorizes
<1>7. AnswerInv'
  <2>1. Connected' => Connected
    BY DEF Connected
  <2>2. Contract!AnswersTo(received)' = Contract!AnswersTo(received)
    BY DEF Contract!AnswersTo, Contract!Unlocked, Contract!CommandAnswers, Contract!Authorizes
  <2>3. ~InStep' => lost' <= Len(answers')
    BY <1>2 DEF AnswerInv
  <2>4. denyAccess' => received' \notin executed' /\ pc' \in {"loop", "cleanUp", "done"}
    BY DEF AnswerInv
  <2>5. InStep' =>
           /\ Len(answers') <= received' /\ received' <= Len(answers') + 1
           /\ pc' = "handle" => Len(answers') = received' - 1
           /\ Connected' /\ pc' = "send" =>
                  Len(answers') = received' - 1 /\ answer' \in Contract!AnswersTo(received)'
           /\ Connected' /\ pc' \notin {"handle", "send", "crashed"} /\ ~denyAccess' =>
                  Len(answers') = received'
    BY <1>1, <1>2, <2>1, <2>2 DEF AnswerInv
  <2> QED
    BY <2>3, <2>4, <2>5 DEF AnswerInv
<1>8. NothingBeforeAuthorization'
  BY <1>2 DEF NothingBeforeAuthorization, Contract!Unlocked, Contract!Authorizes
<1> QED
  BY <1>3, <1>4, <1>5, <1>6, <1>7, <1>8

LEMMA StartIInv == IInv /\ Start => IInv'
<1> SUFFICES ASSUME IInv, Start PROVE IInv'
  OBVIOUS
<1>1. denyAccess => pc \in {"loop", "cleanUp", "done"}
  BY DEF IInv, AnswerInv
<1> QED
  BY <1>1, Elsewhere DEF Start, clientVars, authVars, dataVars, IInv, TypeInv

LEMMA LoopIInv == IInv /\ Loop => IInv'
<1> SUFFICES ASSUME IInv, Loop PROVE IInv'
  OBVIOUS
<1>1. denyAccess => pc' \in {"loop", "cleanUp", "done"}
  BY DEF Loop
<1> QED
  BY <1>1, Elsewhere DEF Loop, clientVars, authVars, dataVars, IInv, TypeInv

LEMMA CleanUpIInv == IInv /\ CleanUp => IInv'
<1> SUFFICES ASSUME IInv, CleanUp PROVE IInv'
  OBVIOUS
<1> QED
  BY Elsewhere DEF CleanUp, clientVars, authVars, dataVars, IInv, TypeInv

LEMMA CloseIInv == IInv /\ Close => IInv'
<1> SUFFICES ASSUME IInv, Close PROVE IInv'
  OBVIOUS
<1>1. denyAccess => pc \in {"loop", "cleanUp", "done"}
  BY DEF IInv, AnswerInv
<1> QED
  BY <1>1, Elsewhere DEF Close, CloseSocket, clientVars, authVars, dataVars

LEMMA ReadEndsIInv == IInv /\ ReadEnds => IInv'
<1> SUFFICES ASSUME IInv, ReadEnds PROVE IInv'
  OBVIOUS
<1> QED
  BY Elsewhere DEF ReadEnds, CloseSocket, clientVars, authVars, dataVars, IInv, TypeInv

-----------------------------------------------------------------------------
(* The client. *)

(* The requests that were received stay what they are. *)
LEMMA MoreSent ==
    ASSUME IInv, NEW r \in Requests, sent' = Append(sent, r), InStep
    PROVE  /\ Len(sent') = Len(sent) + 1 /\ sent' \in Seq(Requests)
           /\ \A j \in 1 .. Len(sent) : sent'[j] = sent[j]
           /\ sent'[Len(sent) + 1] = r
           /\ received <= Len(sent) /\ \A j \in 1 .. received : sent'[j] = sent[j]
  BY DEF IInv, TypeInv, FrameInv

LEMMA SendSizeIInv == ASSUME IInv, NEW size \in Sizes, SendSize(size) PROVE IInv'
<1> USE DEF IInv
<1>1. /\ peer = "up" /\ ~bodyDue /\ bodyDue' = TRUE
      /\ network' = Append(network, SizeOf(size))
      /\ UNCHANGED <<sent, peer, running, socketOpen, currentState, password, authorized,
                     denyAccess, pc, request, answer, answers, received, executed, lost>>
  BY DEF SendSize, handlerVars, authVars, dataVars
<1>2. /\ Len(network) \in Nat /\ Len(network') = Len(network) + 1
      /\ \A k \in 1 .. Len(network) : network'[k] = network[k]
      /\ network' \in Seq(Parts)
  <2>1. SizeOf(size) \in Parts /\ network \in Seq(Parts)
    BY DEF TypeInv, Parts
  <2> QED
    BY <1>1, <2>1
<1>3. BodyNext' = BodyNext /\ BodyNext \in {0, 1} /\ (InStep' <=> InStep)
  BY <1>1 DEF BodyNext, InStep
<1>4. TypeInv'
  BY <1>1, <1>2 DEF TypeInv
<1>5. FrameInv'
  <2>1. InStep' => received' <= Len(sent')
    BY <1>1, <1>3 DEF FrameInv
  <2>2. ASSUME InStep, pc # "crashed"
        PROVE  /\ Len(network') + BodyNext' = 2 * (Len(sent') - received') + 1
               /\ \A m \in Nat \ {0} : 2 * m - BodyNext' <= Len(network') =>
                      network'[2 * m - BodyNext'] = BodyOf(sent'[received' + m])
    <3>2. Len(sent) \in Nat /\ received \in Nat
      BY DEF TypeInv
    <3>1. /\ Len(network) + BodyNext = 2 * (Len(sent) - received)
          /\ \A m \in Nat \ {0} : 2 * m - BodyNext <= Len(network) =>
                 network[2 * m - BodyNext] = BodyOf(sent[received + m])
      BY <1>1, <2>2, <3>2 DEF FrameInv
    <3>3. ASSUME NEW m \in Nat \ {0}, 2 * m - BodyNext <= Len(network) + 1
          PROVE  network'[2 * m - BodyNext] = BodyOf(sent[received + m])
      <4>1. 2 * m - BodyNext <= Len(network)
        BY <1>2, <1>3, <3>1, <3>2, <3>3
      <4>2. 2 * m - BodyNext \in 1 .. Len(network)
        BY <1>2, <1>3, <4>1
      <4> QED
        BY <1>2, <3>1, <4>1, <4>2
    <3> QED
      BY <1>1, <1>2, <1>3, <3>1, <3>2, <3>3
  <2> QED
    BY <1>1, <1>3, <2>1, <2>2 DEF FrameInv
<1>6. RequestInv' /\ AuthorizedInv'
  BY <1>1, <1>3 DEF RequestInv, AuthorizedInv, Handled, Contract!Authorizes
<1>7. AnswerInv'
  BY <1>1, <1>3 DEF AnswerInv, Connected, Contract!AnswersTo, Contract!Unlocked,
                    Contract!CommandAnswers, Contract!Authorizes
<1>8. NothingBeforeAuthorization'
  BY <1>1, <1>3 DEF NothingBeforeAuthorization, Contract!Unlocked, Contract!Authorizes
<1> QED
  BY <1>4, <1>5, <1>6, <1>7, <1>8

LEMMA SendBodyIInv == ASSUME IInv, NEW r \in Requests, SendBody(r) PROVE IInv'
<1> USE DEF IInv
<1>1. /\ peer = "up" /\ bodyDue /\ bodyDue' = FALSE
      /\ network' = Append(network, BodyOf(r)) /\ sent' = Append(sent, r)
      /\ UNCHANGED <<peer, running, socketOpen, currentState, password, authorized,
                     denyAccess, pc, request, answer, answers, received, executed, lost>>
  BY DEF SendBody, handlerVars, authVars, dataVars
<1>2. /\ Len(network) \in Nat /\ Len(network') = Len(network) + 1
      /\ \A k \in 1 .. Len(network) : network'[k] = network[k]
      /\ network'[Len(network) + 1] = BodyOf(r)
      /\ network' \in Seq(Parts)
  <2>1. BodyOf(r) \in Parts /\ network \in Seq(Parts)
    BY DEF TypeInv, Parts
  <2> QED
    BY <1>1, <2>1
<1>3. BodyNext' = BodyNext /\ BodyNext \in {0, 1} /\ (InStep' <=> InStep) /\ Handled' = Handled
  BY <1>1 DEF BodyNext, InStep, Handled
<1>4. TypeInv'
  <2>1. sent' \in Seq(Requests) /\ Len(sent') \in Nat
    BY <1>1 DEF TypeInv
  <2> QED
    BY <1>1, <1>2, <2>1 DEF TypeInv
<1>5. ASSUME InStep
      PROVE  /\ Len(sent') = Len(sent) + 1 /\ sent'[Len(sent) + 1] = r
             /\ \A j \in 1 .. Len(sent) : sent'[j] = sent[j]
             /\ received <= Len(sent) /\ \A j \in 1 .. received : sent'[j] = sent[j]
             /\ Len(sent) \in Nat /\ received \in Nat
  BY <1>1, <1>5, MoreSent DEF TypeInv
<1>6. FrameInv'
  <2>1. InStep' => received' <= Len(sent')
    BY <1>1, <1>3, <1>5
  <2>2. ASSUME InStep, pc # "crashed"
        PROVE  /\ Len(network') + BodyNext' = 2 * (Len(sent') - received')
               /\ \A m \in Nat \ {0} : 2 * m - BodyNext' <= Len(network') =>
                      network'[2 * m - BodyNext'] = BodyOf(sent'[received' + m])
    <3>1. /\ Len(network) + BodyNext = 2 * (Len(sent) - received) + 1
          /\ \A m \in Nat \ {0} : 2 * m - BodyNext <= Len(network) =>
                 network[2 * m - BodyNext] = BodyOf(sent[received + m])
      BY <1>1, <2>2 DEF FrameInv
    <3>0. /\ Len(network) \in Nat /\ Len(sent) \in Nat /\ received \in Nat /\ BodyNext \in {0, 1}
          /\ Len(network) + BodyNext = 2 * (Len(sent) - received) + 1
          /\ Len(network') = Len(network) + 1 /\ BodyNext' = BodyNext /\ received' = received
          /\ Len(sent') = Len(sent) + 1
      BY <1>1, <1>2, <1>3, <1>5, <2>2, <3>1
    <3>2. ASSUME NEW m \in Nat \ {0}, 2 * m - BodyNext <= Len(network) + 1
          PROVE  network'[2 * m - BodyNext] = BodyOf(sent'[received + m])
      <4>1. CASE 2 * m - BodyNext <= Len(network)
        <5>1. 2 * m - BodyNext \in 1 .. Len(network)
          BY <1>2, <1>3, <4>1
        <5>2. received + m \in 1 .. Len(sent)
          BY <1>2, <1>3, <1>5, <2>2, <3>1, <4>1
        <5>3. network'[2 * m - BodyNext] = network[2 * m - BodyNext]
          BY <1>2, <5>1
        <5>4. sent'[received + m] = sent[received + m]
          BY <1>5, <2>2, <5>2
        <5> QED
          BY <3>1, <4>1, <5>3, <5>4
      <4>2. CASE 2 * m - BodyNext = Len(network) + 1
        <5>1. received + m = Len(sent) + 1
          BY <3>0, <4>2
        <5> QED
          BY <1>2, <1>5, <2>2, <4>2, <5>1
      <4>3. 2 * m - BodyNext <= Len(network) \/ 2 * m - BodyNext = Len(network) + 1
        BY <1>2, <1>3, <3>2
      <4> QED
        BY <4>1, <4>2, <4>3
    <3>3. Len(network') + BodyNext' = 2 * (Len(sent') - received')
      BY <3>0
    <3> QED
      BY <3>0, <3>2, <3>3
  <2>3. 2 * (Len(sent') - received') + 0 = 2 * (Len(sent') - received') \/ ~InStep
    BY <1>1, <1>5
  <2> QED
    BY <1>1, <1>3, <2>1, <2>2, <2>3 DEF FrameInv
<1>7. RequestInv'
  <2>1. InStep /\ pc = "handle" => received \in 1 .. received
    BY DEF RequestInv, TypeInv
  <2> QED
    BY <1>1, <1>3, <1>5, <2>1 DEF RequestInv
<1>8. \A j \in 1 .. Handled : j \in 1 .. received
  BY DEF Handled, RequestInv, TypeInv
<1>9. AuthorizedInv'
  BY <1>1, <1>3, <1>5, <1>8 DEF AuthorizedInv, Contract!Authorizes
<1>10. ASSUME InStep, NEW k \in 1 .. received
       PROVE  /\ sent'[k] = sent[k]
              /\ Contract!Unlocked(k)' <=> Contract!Unlocked(k)
  <2>1. sent'[k] = sent[k] /\ \A j \in 1 .. k - 1 : sent'[j] = sent[j]
    BY <1>5, <1>10
  <2> QED
    BY <1>1, <2>1 DEF Contract!Unlocked, Contract!Authorizes
<1>11. AnswerInv'
  <2>1. ASSUME InStep, Len(answers) = received - 1
        PROVE  Contract!AnswersTo(received)' = Contract!AnswersTo(received)
    <3>1. received \in 1 .. received /\ \A j \in 1 .. received - 1 : j \in 1 .. received
      BY <2>1 DEF TypeInv, AnswerInv
    <3>2. sent'[received] = sent[received] /\ \A j \in 1 .. received - 1 : sent'[j] = sent[j]
      BY <1>5, <2>1, <3>1
    <3>3. Contract!Unlocked(received)' <=> Contract!Unlocked(received)
      BY <1>1, <3>2 DEF Contract!Unlocked, Contract!Authorizes
    <3>4. Contract!Authorizes(sent[received])' <=> Contract!Authorizes(sent[received])
      BY <1>1, <3>2 DEF Contract!Authorizes
    <3>5. Contract!CommandAnswers(sent[received])' = Contract!CommandAnswers(sent[received])
      BY <1>1, <3>2 DEF Contract!CommandAnswers
    <3> QED
      BY <1>1, <3>2, <3>3, <3>4, <3>5 DEF Contract!AnswersTo
  <2> QED
    BY <1>1, <1>3, <2>1 DEF AnswerInv, Connected
<1>12. NothingBeforeAuthorization'
  <2>1. \A k \in executed : k \in 1 .. received
    BY DEF TypeInv
  <2> QED
    BY <1>1, <1>3, <1>10, <2>1 DEF NothingBeforeAuthorization
<1> QED
  BY <1>4, <1>6, <1>7, <1>9, <1>11, <1>12

LEMMA HangUpIInv == IInv /\ HangUp => IInv'
<1> SUFFICES ASSUME IInv, HangUp PROVE IInv'
  OBVIOUS
<1> USE DEF IInv
<1>1. /\ \/ peer' = "eof" /\ network' = network
         \/ peer' = "reset" /\ network' = <<>>
      /\ peer = "up"
      /\ UNCHANGED <<sent, bodyDue, running, socketOpen, currentState, password, authorized,
                     denyAccess, pc, request, answer, answers, received, executed, lost>>
  BY DEF HangUp, handlerVars, authVars, dataVars
<1>2. /\ BodyNext' = BodyNext /\ Handled' = Handled
      /\ InStep' <=> InStep
      /\ Connected' => Connected
  BY <1>1 DEF BodyNext, InStep, Handled, Connected
<1>3. TypeInv'
  <2>1. network' \in Seq(Parts)
    <3>1. <<>> \in Seq(Parts) /\ network \in Seq(Parts)
      BY DEF TypeInv
    <3>2. CASE network' = network
      BY <3>1, <3>2
    <3>3. CASE network' = <<>>
      BY <3>1, <3>3
    <3> QED
      BY <1>1, <3>2, <3>3
  <2> QED
    BY <1>1, <2>1 DEF TypeInv
<1>4. FrameInv'
  BY <1>1, <1>2 DEF FrameInv
<1>5. RequestInv' /\ AuthorizedInv'
  BY <1>1, <1>2 DEF RequestInv, AuthorizedInv, Contract!Authorizes
<1>6. AnswerInv'
  BY <1>1, <1>2 DEF AnswerInv, Contract!AnswersTo, Contract!Unlocked,
                    Contract!CommandAnswers, Contract!Authorizes
<1>7. NothingBeforeAuthorization'
  BY <1>1, <1>2 DEF NothingBeforeAuthorization, Contract!Unlocked, Contract!Authorizes
<1> QED
  BY <1>3, <1>4, <1>5, <1>6, <1>7

-----------------------------------------------------------------------------
(* The handler reads. *)

LEMMA ReadFailsIInv == IInv /\ ReadFails => IInv'
<1> SUFFICES ASSUME IInv, ReadFails PROVE IInv'
  OBVIOUS
<1> USE DEF IInv
<1>1. /\ pc = "read" /\ ~Connected /\ answer' = "ERROR_READING_FROM_CLIENT" /\ pc' = "send"
      /\ UNCHANGED <<sent, network, bodyDue, peer, socketOpen, currentState, password, authorized,
                     denyAccess, request, answers, received, executed, lost>>
  BY DEF ReadFails, SendAnswer, Connected, clientVars, authVars
<1>2. /\ BodyNext' = BodyNext /\ Handled' = Handled
      /\ InStep' <=> InStep
      /\ ~Connected'
  BY <1>1 DEF BodyNext, InStep, Handled, Connected
<1>3. TypeInv'
  BY <1>1 DEF TypeInv, Answers
<1>4. FrameInv'
  BY <1>1, <1>2 DEF FrameInv
<1>5. RequestInv' /\ AuthorizedInv'
  BY <1>1, <1>2 DEF RequestInv, AuthorizedInv, Contract!Authorizes
<1>6. AnswerInv'
  BY <1>1, <1>2 DEF AnswerInv
<1>7. NothingBeforeAuthorization'
  BY <1>1, <1>2 DEF NothingBeforeAuthorization, Contract!Unlocked, Contract!Authorizes
<1> QED
  BY <1>3, <1>4, <1>5, <1>6, <1>7

LEMMA ReadSizeIInv == IInv /\ ReadSize => IInv'
<1> SUFFICES ASSUME IInv, ReadSize PROVE IInv'
  OBVIOUS
<1> USE DEF IInv
<1>1. /\ pc = "read" /\ Connected /\ currentState = "READING_SIZE"
      /\ UNCHANGED <<sent, bodyDue, peer, socketOpen, password, authorized, denyAccess,
                     request, answers, received, executed>>
  BY DEF ReadSize, Reading, Connected, SizeRead, authVars
<1>2. \/ currentState' = "READING_DATA" /\ pc' = "loop" /\ answer' = answer
      \/ currentState' = currentState /\ pc' = "send" /\ answer' = "ERROR_READING_FROM_CLIENT"
      \/ currentState' = currentState /\ pc' = "crashed" /\ answer' = answer
  BY DEF ReadSize, SizeRead, SendAnswer
<1>3. \/ InStep /\ network # <<>> /\ network' = Tail(network) /\ lost' = None
         /\ network[1].size # "huge"
      \/ InStep /\ network # <<>> /\ network' = Tail(network) /\ lost' = Len(answers)
      \/ ~InStep /\ lost' = lost /\ network' = network
  BY DEF ReadSize
<1>4. /\ Connected' /\ Handled' = Handled
      /\ InStep' => InStep /\ lost' = None /\ network # <<>> /\ network' = Tail(network)
  BY <1>1, <1>2, <1>3 DEF InStep, Handled, Connected
<1>5. ~denyAccess
  BY <1>1 DEF AnswerInv
<1>6. ASSUME InStep' PROVE pc' # "send"
  <2>1. network[1].size # "huge" /\ SizeRead(network[1].size)
    BY <1>6, <1>3, HandlerAssumption DEF InStep, TypeInv, ReadSize
  <2> QED
    BY <2>1 DEF SizeRead, SendAnswer
<1>7. TypeInv'
  <2>1. network' \in Seq(Parts)
    <3>1. network \in Seq(Parts)
      BY DEF TypeInv
    <3>2. network # <<>> => Tail(network) \in Seq(Parts)
      BY <3>1
    <3> QED
      BY <1>3, <3>1, <3>2
  <2>2. lost' \in Nat \cup {None}
    <3>1. Len(answers) \in Nat
      BY DEF TypeInv
    <3> QED
      BY <1>3, <3>1 DEF TypeInv
  <2>3. answer' \in Answers
    BY <1>2 DEF Answers, TypeInv
  <2> QED
    BY <1>1, <1>2, <2>1, <2>2, <2>3 DEF TypeInv
<1>8. FrameInv'
  <2>1. InStep' => received' <= Len(sent')
    BY <1>1, <1>4 DEF FrameInv
  <2>2. ASSUME InStep', pc' # "crashed"
        PROVE  /\ Len(network') + BodyNext' =
                      2 * (Len(sent') - received') + (IF bodyDue' THEN 1 ELSE 0)
               /\ \A m \in Nat \ {0} : 2 * m - BodyNext' <= Len(network') =>
                      network'[2 * m - BodyNext'] = BodyOf(sent'[received' + m])
    <3>1. InStep /\ network # <<>> /\ network' = Tail(network)
      BY <1>4, <2>2
    <3>2. /\ Len(network) \in Nat /\ Len(network) > 0 /\ Len(network') = Len(network) - 1
          /\ \A k \in 1 .. Len(network) - 1 : network'[k] = network[k + 1]
      BY <3>1 DEF TypeInv
    <3>3. BodyNext = 0 /\ BodyNext' = 1
      BY <1>1, <1>2, <1>6, <2>2 DEF BodyNext
    <3>4. /\ Len(network) + 0 = 2 * (Len(sent) - received) + (IF bodyDue THEN 1 ELSE 0)
          /\ \A m \in Nat \ {0} : 2 * m - 0 <= Len(network) =>
                 network[2 * m - 0] = BodyOf(sent[received + m])
      BY <1>1, <3>1, <3>3 DEF FrameInv, Connected
    <3>5. ASSUME NEW m \in Nat \ {0}, 2 * m - 1 <= Len(network')
          PROVE  network'[2 * m - 1] = BodyOf(sent[received + m])
      <4>1. /\ 2 * m - 1 \in 1 .. Len(network) - 1 /\ (2 * m - 1) + 1 = 2 * m - 0
            /\ 2 * m - 0 <= Len(network)
        BY <3>2, <3>5
      <4> QED
        BY <3>2, <3>4, <4>1
    <3>6. Len(network') + 1 = 2 * (Len(sent) - received) + (IF bodyDue THEN 1 ELSE 0)
      BY <3>2, <3>4
    <3> QED
      BY <1>1, <3>3, <3>5, <3>6
  <2> QED
    BY <2>1, <2>2 DEF FrameInv
<1>9. RequestInv' /\ AuthorizedInv'
  BY <1>1, <1>2, <1>4 DEF RequestInv, AuthorizedInv, Contract!Authorizes
<1>10. AnswerInv'
  <2>1. ~InStep' => lost' <= Len(answers')
    <3>1. Len(answers) \in Nat
      BY DEF TypeInv
    <3> QED
      BY <1>1, <1>3, <3>1 DEF AnswerInv, InStep
  <2>2. InStep' => Len(answers) = received /\ received \in Nat
    BY <1>1, <1>4, <1>5 DEF AnswerInv, TypeInv
  <2> QED
    BY <1>1, <1>2, <1>4, <1>5, <1>6, <2>1, <2>2 DEF AnswerInv
<1>11. NothingBeforeAuthorization'
  BY <1>1, <1>4 DEF NothingBeforeAuthorization, Contract!Unlocked, Contract!Authorizes
<1> QED
  BY <1>7, <1>8, <1>9, <1>10, <1>11

LEMMA ReadBodyIInv == IInv /\ ReadBody => IInv'
<1> SUFFICES ASSUME IInv, ReadBody PROVE IInv'
  OBVIOUS
<1> USE DEF IInv
<1>1. /\ pc = "read" /\ Connected /\ currentState = "READING_DATA"
      /\ pc' = "handle" /\ received' = received + 1
      /\ UNCHANGED <<sent, bodyDue, peer, socketOpen, currentState, password, authorized,
                     denyAccess, answer, answers, executed, lost>>
  BY DEF ReadBody, Reading, Connected, BodyRead, authVars
<1>2. \/ InStep /\ network # <<>> /\ network' = Tail(network) /\ request' = network[1].request
      \/ ~InStep /\ network' = network /\ request' \in Requests
  BY DEF ReadBody, BodyRead
<1>3. /\ InStep' <=> InStep
      /\ Connected' /\ ~denyAccess
  BY <1>1 DEF InStep, Connected, AnswerInv
<1>4. received \in Nat /\ Len(sent) \in Nat /\ Len(network) \in Nat /\ Len(answers) \in Nat
  BY DEF TypeInv
<1>5. BodyNext = 1 /\ BodyNext' = 0 /\ Handled = received /\ Handled' = received
  BY <1>1, <1>4 DEF BodyNext, Handled
<1>6. ASSUME InStep
      PROVE  /\ Len(network) > 0 /\ Len(network') = Len(network) - 1
             /\ \A k \in 1 .. Len(network) - 1 : network'[k] = network[k + 1]
             /\ Len(network) + 1 = 2 * (Len(sent) - received) + (IF bodyDue THEN 1 ELSE 0)
             /\ \A m \in Nat \ {0} : 2 * m - 1 <= Len(network) =>
                    network[2 * m - 1] = BodyOf(sent[received + m])
             /\ received + 1 <= Len(sent)
             /\ request' = sent[received + 1] /\ request' \in Requests
  <2>1. network # <<>> /\ network' = Tail(network) /\ request' = network[1].request
    BY <1>2, <1>6
  <2>2. /\ Len(network) > 0 /\ Len(network') = Len(network) - 1
        /\ \A k \in 1 .. Len(network) - 1 : network'[k] = network[k + 1]
    BY <2>1 DEF TypeInv
  <2>3. /\ Len(network) + 1 = 2 * (Len(sent) - received) + (IF bodyDue THEN 1 ELSE 0)
        /\ \A m \in Nat \ {0} : 2 * m - 1 <= Len(network) =>
               network[2 * m - 1] = BodyOf(sent[received + m])
    BY <1>1, <1>5, <1>6 DEF FrameInv, Connected
  <2>4. 1 \in Nat \ {0} /\ 2 * 1 - 1 = 1 /\ 1 <= Len(network)
    BY <1>4, <2>2
  <2>5. network[1] = BodyOf(sent[received + 1])
    BY <2>3, <2>4
  <2>6. request' = sent[received + 1]
    BY <2>1, <2>5 DEF BodyOf
  <2>7. received + 1 <= Len(sent)
    BY <1>4, <2>2, <2>3
  <2>8. sent[received + 1] \in Requests
    BY <1>4, <2>7 DEF TypeInv
  <2> QED
    BY <2>2, <2>3, <2>6, <2>7, <2>8
<1>7. request' \in Requests
  BY <1>2, <1>6
<1>8. TypeInv'
  <2>1. network' \in Seq(Parts)
    <3>1. network \in Seq(Parts)
      BY DEF TypeInv
    <3>2. network # <<>> => Tail(network) \in Seq(Parts)
      BY <3>1
    <3> QED
      BY <1>2, <3>1, <3>2
  <2>2. received' \in Nat /\ executed' \subseteq 1 .. received'
    BY <1>1, <1>4 DEF TypeInv
  <2> QED
    BY <1>1, <1>7, <2>1, <2>2 DEF TypeInv
<1>9. FrameInv'
  <2>1. InStep' => received' <= Len(sent')
    BY <1>1, <1>3, <1>6
  <2>2. ASSUME InStep
        PROVE  /\ Len(network') + BodyNext' =
                      2 * (Len(sent') - received') + (IF bodyDue' THEN 1 ELSE 0)
               /\ \A m \in Nat \ {0} : 2 * m - BodyNext' <= Len(network') =>
                      network'[2 * m - BodyNext'] = BodyOf(sent'[received' + m])
    <3>1. ASSUME NEW m \in Nat \ {0}, 2 * m - 0 <= Len(network')
          PROVE  network'[2 * m - 0] = BodyOf(sent[(received + 1) + m])
      <4>1. /\ 2 * m - 0 \in 1 .. Len(network) - 1 /\ (2 * m - 0) + 1 = 2 * (m + 1) - 1
            /\ 2 * (m + 1) - 1 <= Len(network) /\ m + 1 \in Nat \ {0}
            /\ (received + 1) + m = received + (m + 1)
        <5>1. Len(network) \in Nat /\ Len(network') = Len(network) - 1 /\ received \in Nat
          BY <1>4, <1>6, <2>2
        <5> QED
          BY <3>1, <5>1
      <4> QED
        <5>1. network'[2 * m - 0] = network[(2 * m - 0) + 1]
          BY <1>6, <2>2, <4>1
        <5>2. network[2 * (m + 1) - 1] = BodyOf(sent[received + (m + 1)])
          BY <1>6, <2>2, <4>1
        <5> QED
          BY <4>1, <5>1, <5>2
    <3>2. Len(network') + 0 = 2 * (Len(sent) - (received + 1)) + (IF bodyDue THEN 1 ELSE 0)
      BY <1>4, <1>6, <2>2
    <3> QED
      BY <1>1, <1>5, <3>1, <3>2
  <2> QED
    BY <1>3, <2>1, <2>2 DEF FrameInv
<1>10. RequestInv'
  <2>1. received' > 0 /\ received' \notin executed'
    BY <1>1, <1>4 DEF TypeInv
  <2> QED
    BY <1>1, <1>3, <1>6, <1>7, <2>1 DEF RequestInv
<1>11. AuthorizedInv'
  BY <1>1, <1>3, <1>5 DEF AuthorizedInv, Contract!Authorizes
<1>12. AnswerInv'
  <2>1. InStep => Len(answers) = received
    BY <1>1, <1>3 DEF AnswerInv
  <2> QED
    BY <1>1, <1>3, <1>4, <2>1 DEF AnswerInv
<1>13. NothingBeforeAuthorization'
  BY <1>1, <1>3 DEF NothingBeforeAuthorization, Contract!Unlocked, Contract!Authorizes
<1> QED
  BY <1>8, <1>9, <1>10, <1>11, <1>12, <1>13

-----------------------------------------------------------------------------
(* The handler handles, and sends. *)

(* What is refused, or executed, is answered as the contract says. *)
LEMMA CommandFacts ==
    ASSUME Command, request \in Requests
    PROVE  /\ \/ pc' = "send" /\ answer' \in Contract!CommandAnswers(request) /\ answer' \in Answers
              \/ pc' = "crashed" /\ answer' = answer
           /\ executed' = executed \/ executed' = executed \cup {received}
<1>1. request \in AllRequests
  BY HandlerAssumption
<1>2. /\ request.cmd \in {"none", "unknown", "LIST", "QUERY", "DELETE_DB"}
      /\ request.db \in BOOLEAN
  BY <1>1 DEF AllRequests
<1>3. CASE request.cmd = "none" /\ Refused("NO_COMMAND_SPECIFIED")
  BY <1>3 DEF Refused, SendAnswer, Contract!CommandAnswers, Answers
<1>4. CASE request.cmd = "unknown" /\ Refused("UNKNOWN_COMMAND")
  BY <1>4 DEF Refused, SendAnswer, Contract!CommandAnswers, Answers
<1>5. CASE request.cmd \in {"QUERY", "DELETE_DB"} /\ ~request.db /\ Refused("NO_DATABASE_SPECIFIED")
  BY <1>5 DEF Refused, SendAnswer, Contract!CommandAnswers, Answers
<1>6. CASE List /\ executed' = executed \cup {received}
  BY <1>6 DEF List, SendAnswer, Contract!CommandAnswers, Answers
<1>7. CASE DeleteDb /\ executed' = executed \cup {received}
  BY <1>7 DEF DeleteDb, SendAnswer, Contract!CommandAnswers, Answers
<1>8. CASE Query /\ executed' = executed \cup {received}
  BY <1>8 DEF Query, SendAnswer, Contract!CommandAnswers, Answers
<1> QED
  BY <1>3, <1>4, <1>5, <1>6, <1>7, <1>8 DEF Command

(* What HandleRequest does to a request that it received. *)
LEMMA HandleFacts ==
    ASSUME IInv, HandleRequest
    PROVE  /\ pc = "handle" /\ request \in Requests
           /\ \/ /\ ~request.json /\ pc' = "send" /\ answer' = "INVALID_FORMAT"
                 /\ UNCHANGED <<authVars, executed>>
              \/ /\ request.json /\ ~authorized /\ request.auth = "right"
                 /\ authorized' = TRUE /\ pc' = "send" /\ answer' = "ok"
                 /\ UNCHANGED <<password, denyAccess, executed>>
              \/ /\ request.json /\ ~authorized /\ request.auth # "right"
                 /\ denyAccess' = TRUE /\ pc' = "loop"
                 /\ UNCHANGED <<password, authorized, answer, executed>>
              \/ /\ request.json /\ authorized /\ UNCHANGED authVars
                 /\ executed' = executed \/ executed' = executed \cup {received}
                 /\ \/ /\ pc' = "send" /\ answer' \in Contract!CommandAnswers(request)
                       /\ answer' \in Answers
                    \/ pc' = "crashed" /\ answer' = answer
<1>1. pc = "handle" /\ request \in Requests
  BY DEF HandleRequest, IInv, RequestInv
<1>2. CASE ~request.json /\ Refused("INVALID_FORMAT") /\ UNCHANGED authVars
  BY <1>1, <1>2 DEF Refused, SendAnswer
<1>3. CASE request.json /\ ~authorized /\ Authorize /\ UNCHANGED <<executed, databases>>
  BY <1>1, <1>3 DEF Authorize, SendAnswer
<1>4. CASE request.json /\ authorized /\ Command /\ UNCHANGED authVars
  BY <1>1, <1>4, CommandFacts
<1> QED
  BY <1>2, <1>3, <1>4 DEF HandleRequest

LEMMA HandleRequestIInv == IInv /\ HandleRequest => IInv'
<1> SUFFICES ASSUME IInv, HandleRequest PROVE IInv'
  OBVIOUS
<1> USE DEF IInv
<1>1. /\ pc = "handle" /\ currentState' = "READING_SIZE" /\ request' = None
      /\ UNCHANGED <<sent, network, bodyDue, peer, socketOpen, answers, received, lost>>
  BY DEF HandleRequest, clientVars
<1>2. request \in Requests /\ received > 0 /\ received \notin executed /\ ~denyAccess
      /\ (InStep => request = sent[received])
  BY <1>1 DEF RequestInv
<1>3. received \in Nat /\ received \in 1 .. received /\ Len(answers) \in Nat
  BY <1>2 DEF TypeInv
<1>4. pc' \in {"send", "loop", "crashed"} /\ answer' \in Answers
      /\ password' = password
      /\ (executed' = executed \/ executed' = executed \cup {received})
  <2>1. answer \in Answers
    BY DEF TypeInv
  <2> QED
    BY <2>1, HandleFacts DEF authVars, Answers
<1>5. /\ InStep' <=> InStep
      /\ Connected' <=> Connected
  BY <1>1 DEF InStep, Connected
<1>6. BodyNext = 0 /\ BodyNext' = 0 /\ Handled = received - 1 /\ Handled' = received
  BY <1>1, <1>4 DEF BodyNext, Handled
<1>7. TypeInv'
  <2>1. executed' \subseteq 1 .. received
    BY <1>3, <1>4 DEF TypeInv
  <2>2. authorized' \in BOOLEAN /\ denyAccess' \in BOOLEAN
    BY HandleFacts DEF authVars, TypeInv
  <2> QED
    BY <1>1, <1>4, <2>1, <2>2 DEF TypeInv
<1>8. FrameInv'
  BY <1>1, <1>4, <1>5, <1>6 DEF FrameInv
<1>9. RequestInv'
  BY <1>4 DEF RequestInv
<1>10. ASSUME InStep
       PROVE  /\ authorized <=> Contract!Unlocked(received)
              /\ request = sent[received]
  BY <1>2, <1>6, <1>10 DEF AuthorizedInv, Contract!Unlocked
<1>11. AuthorizedInv'
  <2> SUFFICES ASSUME InStep
               PROVE  authorized' <=>
                          (~password \/ \E j \in 1 .. received : Contract!Authorizes(sent[j])')
    BY <1>1, <1>4, <1>5, <1>6 DEF AuthorizedInv
  <2>1. \A j \in 1 .. received : Contract!Authorizes(sent[j])' <=> Contract!Authorizes(sent[j])
    BY <1>1 DEF Contract!Authorizes
  <2>2. authorized <=> (~password \/ \E j \in 1 .. received - 1 : Contract!Authorizes(sent[j]))
    BY <1>6 DEF AuthorizedInv
  <2>3. \A j \in 1 .. received : j = received \/ j \in 1 .. received - 1
    BY <1>3
  <2>4. \A j \in 1 .. received - 1 : j \in 1 .. received
    BY <1>3
  <2>5. Contract!Authorizes(sent[received]) <=> request.json /\ request.auth = "right"
    BY <1>10 DEF Contract!Authorizes
  <2>6. authorized' <=> authorized \/ Contract!Authorizes(sent[received])
    <3>1. CASE authorized
      <4>1. authorized' = authorized
        BY <3>1, HandleFacts DEF authVars
      <4> QED
        BY <3>1, <4>1
    <3>2. CASE ~authorized /\ request.json /\ request.auth = "right"
      <4>1. authorized' = TRUE
        BY <3>2, HandleFacts
      <4> QED
        BY <2>5, <3>2, <4>1
    <3>3. CASE ~authorized /\ ~(request.json /\ request.auth = "right")
      <4>1. authorized' = authorized
        BY <3>3, HandleFacts DEF authVars
      <4> QED
        BY <2>5, <3>3, <4>1
    <3> QED
      BY <3>1, <3>2, <3>3
  <2> QED
    BY <1>3, <2>1, <2>2, <2>3, <2>4, <2>6
<1>12. AnswerInv'
  <2>1. ~InStep' => lost' <= Len(answers')
    BY <1>1, <1>5 DEF AnswerInv
  <2>2. denyAccess' => received' \notin executed' /\ pc' \in {"loop", "cleanUp", "done"}
    BY <1>1, <1>2, HandleFacts DEF authVars
  <2>3. InStep => Len(answers) = received - 1
    BY <1>1 DEF AnswerInv
  <2>4. ASSUME InStep, pc' = "send" PROVE answer' \in Contract!AnswersTo(received)'
    <3>1. answer' \in Contract!AnswersTo(received)
      BY <1>10, <2>4, HandleFacts DEF Contract!AnswersTo, Contract!Authorizes
    <3>2. Contract!AnswersTo(received)' = Contract!AnswersTo(received)
      BY <1>1, <1>4 DEF Contract!AnswersTo, Contract!Unlocked, Contract!CommandAnswers,
                        Contract!Authorizes
    <3> QED
      BY <3>1, <3>2
  <2>5. pc' = "loop" => denyAccess'
    BY HandleFacts
  <2> QED
    BY <1>1, <1>3, <1>4, <1>5, <2>1, <2>2, <2>3, <2>4, <2>5 DEF AnswerInv
<1>13. NothingBeforeAuthorization'
  <2> SUFFICES ASSUME InStep, NEW k \in executed'
               PROVE  Contract!Unlocked(k)'
    BY <1>5 DEF NothingBeforeAuthorization
  <2>1. Contract!Unlocked(k)
    <3>1. CASE k \in executed
      BY <3>1 DEF NothingBeforeAuthorization
    <3>2. CASE k \notin executed
      <4>1. k = received /\ authorized
        BY <1>4, <3>2, HandleFacts
      <4> QED
        BY <1>10, <4>1
    <3> QED
      BY <3>1, <3>2
  <2> QED
    BY <1>1, <1>4, <2>1 DEF Contract!Unlocked, Contract!Authorizes
<1> QED
  BY <1>7, <1>8, <1>9, <1>11, <1>12, <1>13

LEMMA SendIInv == IInv /\ Send => IInv'
<1> SUFFICES ASSUME IInv, Send PROVE IInv'
  OBVIOUS
<1> USE DEF IInv
<1>1. /\ pc = "send" /\ pc' = "loop" /\ answer' = Nothing
      /\ answers' = IF Connected THEN Append(answers, answer) ELSE answers
      /\ UNCHANGED <<sent, network, bodyDue, peer, socketOpen, currentState, password, authorized,
                     denyAccess, request, received, executed, lost>>
  BY DEF Send, Connected, clientVars, authVars
<1>2. /\ BodyNext' = BodyNext /\ Handled' = Handled
      /\ InStep' <=> InStep
      /\ Connected' <=> Connected
  BY <1>1 DEF BodyNext, InStep, Handled, Connected
<1>3. /\ answers' \in Seq(Answers) /\ Len(answers) \in Nat /\ Len(answers') >= Len(answers)
      /\ Connected => Len(answers') = Len(answers) + 1
      /\ ~Connected => answers' = answers
  BY <1>1 DEF TypeInv
<1>4. TypeInv'
  BY <1>1, <1>3 DEF TypeInv, Answers
<1>5. FrameInv'
  BY <1>1, <1>2 DEF FrameInv
<1>6. RequestInv' /\ AuthorizedInv'
  BY <1>1, <1>2 DEF RequestInv, AuthorizedInv, Contract!Authorizes
<1>7. AnswerInv'
  <2>1. ~InStep' => lost' <= Len(answers')
    <3>1. ~InStep => lost \in Nat
      BY DEF InStep, TypeInv
    <3> QED
      BY <1>1, <1>2, <1>3, <3>1 DEF AnswerInv
  <2>2. ~denyAccess
    BY <1>1 DEF AnswerInv
  <2>3. received \in Nat
    BY DEF TypeInv
  <2> QED
    BY <1>1, <1>2, <1>3, <2>1, <2>2, <2>3 DEF AnswerInv
<1>8. NothingBeforeAuthorization'
  BY <1>1, <1>2 DEF NothingBeforeAuthorization, Contract!Unlocked, Contract!Authorizes
<1> QED
  BY <1>4, <1>5, <1>6, <1>7, <1>8

-----------------------------------------------------------------------------
LEMMA NextIInv == IInv /\ [Next]_vars => IInv'
<1> SUFFICES ASSUME IInv, [Next]_vars PROVE IInv'
  OBVIOUS
<1>1. ASSUME NEW size \in Sizes, SendSize(size) PROVE IInv'
  BY <1>1, SendSizeIInv
<1>2. ASSUME NEW r \in Requests, SendBody(r) PROVE IInv'
  BY <1>2, SendBodyIInv
<1>3. CASE HangUp \/ Close
  BY <1>3, HangUpIInv, CloseIInv
<1>4. CASE Start \/ Loop \/ CleanUp
  BY <1>4, StartIInv, LoopIInv, CleanUpIInv
<1>5. CASE ReadEnds \/ ReadFails \/ ReadSize \/ ReadBody
  BY <1>5, ReadEndsIInv, ReadFailsIInv, ReadSizeIInv, ReadBodyIInv
<1>6. CASE HandleRequest \/ Send
  BY <1>6, HandleRequestIInv, SendIInv
<1>7. CASE UNCHANGED vars
  BY <1>7, Elsewhere DEF vars, clientVars, authVars, dataVars, IInv, TypeInv, AnswerInv
<1> QED
  BY <1>1, <1>2, <1>3, <1>4, <1>5, <1>6, <1>7 DEF Next, Client, Handler

(* The inductive invariant: sizes and bodies, requests and answers keep in  *)
(* step, and authorized says what the requests so far amount to.            *)
THEOREM Invariance == Spec => []IInv
<1>1. Init => IInv
  BY InitIInv
<1>2. IInv /\ [Next]_vars => IInv'
  BY NextIInv
<1> QED
  BY <1>1, <1>2, PTL DEF Spec

(* For any requests in any order: with a password set, nothing is executed  *)
(* before a request that carries it.                                        *)
THEOREM AuthorizationFirst == Spec => []NothingBeforeAuthorization
<1>1. IInv => NothingBeforeAuthorization
  BY DEF IInv
<1> QED
  BY <1>1, Invariance, PTL

(* At most the last request was executed without an answer, and only when   *)
(* the connection or the process ended.                                     *)
THEOREM AnswerLostOnce == Spec => []OneEffectUnanswered
<1>1. IInv => OneEffectUnanswered
  <2> SUFFICES ASSUME IInv, InStep, NEW k \in executed, ~(k <= Len(answers))
               PROVE  k = received /\ (pc \in {"send", "crashed"} \/ ~socketOpen \/ peer = "reset")
    BY DEF OneEffectUnanswered
  <2>1. k \in 1 .. received /\ received \in Nat /\ Len(answers) \in Nat
    BY DEF IInv, TypeInv
  <2>2. k = received /\ Len(answers) = received - 1
    BY <2>1 DEF IInv, AnswerInv
  <2>3. pc # "handle" /\ ~denyAccess
    BY <2>2 DEF IInv, AnswerInv, RequestInv
  <2> QED
    BY <2>1, <2>2, <2>3 DEF IInv, AnswerInv, Connected
<1> QED
  BY <1>1, Invariance, PTL

-----------------------------------------------------------------------------
(* Each step of the handler is a step of the contract, or none.             *)

(* Nothing the contract sees. *)
LEMMA Silent ==
    ASSUME IInv, UNCHANGED <<sent, password, answers>>,
           \/ lost' = lost
           \/ InStep /\ lost' = Len(answers)
           \/ InStep /\ lost' = None
    PROVE  UNCHANGED Contract!vars
<1>1. AnswersInStep' = AnswersInStep
  <2>1. CASE lost' = lost
    BY <2>1 DEF AnswersInStep, InStep
  <2>2. CASE InStep /\ lost' = None
    BY <2>2 DEF AnswersInStep, InStep
  <2>3. CASE InStep /\ lost' = Len(answers)
    <3>1. answers \in Seq(Answers)
      BY DEF IInv, TypeInv
    <3>2. SubSeq(answers, 1, Len(answers)) = answers
      BY <3>1
    <3>3. Len(answers) # None
      BY <3>1, HandlerAssumption
    <3> QED
      BY <2>3, <3>2, <3>3 DEF AnswersInStep, InStep
  <2> QED
    BY <2>1, <2>2, <2>3
<1> QED
  BY <1>1 DEF Contract!vars

LEMMA SendIsAnswer ==
    ASSUME IInv, Send
    PROVE  Contract!Answer \/ UNCHANGED Contract!vars
<1> USE DEF IInv
<1>1. /\ pc = "send" /\ UNCHANGED <<sent, password, received, lost, peer, socketOpen>>
      /\ answers' = IF Connected THEN Append(answers, answer) ELSE answers
  BY DEF Send, Connected, clientVars, authVars
<1>2. answers \in Seq(Answers) /\ answer \in Answers /\ Len(answers) \in Nat
  BY DEF TypeInv
<1>3. CASE ~Connected
  BY <1>1, <1>3, Silent
<1>4. CASE Connected /\ InStep
  <2>1. /\ Len(answers) + 1 = received /\ answer \in Contract!AnswersTo(received)
        /\ received <= Len(sent) /\ received \in Nat /\ Len(sent) \in Nat
    BY <1>1, <1>4 DEF AnswerInv, FrameInv, TypeInv
  <2>2. AnswersInStep = answers /\ AnswersInStep' = Append(answers, answer)
    BY <1>1, <1>4 DEF AnswersInStep, InStep
  <2>3. Len(answers) < Len(sent) /\ answer \in Contract!AnswersTo(Len(answers) + 1)
    BY <1>2, <2>1
  <2> QED
    BY <1>1, <2>2, <2>3 DEF Contract!Answer
<1>5. CASE Connected /\ ~InStep
  <2>1. answers' = Append(answers, answer) /\ lost \in Nat /\ lost <= Len(answers)
    BY <1>1, <1>5 DEF InStep, AnswerInv, TypeInv
  <2>2. SubSeq(answers', 1, lost) = SubSeq(answers, 1, lost)
    BY <1>2, <2>1
  <2>3. AnswersInStep' = AnswersInStep
    BY <1>1, <1>5, <2>2 DEF AnswersInStep, InStep
  <2> QED
    BY <1>1, <2>3 DEF Contract!vars
<1> QED
  BY <1>3, <1>4, <1>5

LEMMA NextIsContract == IInv /\ [Next]_vars => [Contract!Ask \/ Contract!Answer]_(Contract!vars)
<1> SUFFICES ASSUME IInv, [Next]_vars
             PROVE  Contract!Ask \/ Contract!Answer \/ UNCHANGED Contract!vars
  OBVIOUS
<1>1. ASSUME NEW size \in Sizes, SendSize(size) PROVE UNCHANGED Contract!vars
  BY <1>1, Silent DEF SendSize, handlerVars, authVars, dataVars
<1>2. ASSUME NEW r \in Requests, SendBody(r) PROVE Contract!Ask
  <2>1. sent' = Append(sent, r) /\ UNCHANGED <<password, answers, lost>>
    BY <1>2 DEF SendBody, handlerVars, authVars, dataVars
  <2> QED
    BY <2>1 DEF Contract!Ask, AnswersInStep, InStep
<1>3. CASE HangUp \/ Close \/ Start \/ Loop \/ CleanUp \/ ReadEnds \/ ReadFails \/ HandleRequest
  <2>1. UNCHANGED <<sent, answers, lost>>
    BY <1>3 DEF HangUp, Close, Start, Loop, CleanUp, ReadEnds, ReadFails, HandleRequest,
                handlerVars, clientVars, authVars, dataVars
  <2>2. CASE HandleRequest
    BY <2>1, <2>2, Silent, HandleFacts DEF authVars
  <2>3. CASE ~HandleRequest
    <3>1. UNCHANGED password
      BY <1>3, <2>3 DEF HangUp, Close, Start, Loop, CleanUp, ReadEnds, ReadFails, handlerVars,
                        authVars
    <3> QED
      BY <2>1, <3>1, Silent
  <2> QED
    BY <2>2, <2>3
<1>4. CASE ReadSize
  <2>1. UNCHANGED <<sent, password, answers>>
    BY <1>4 DEF ReadSize, SizeRead, authVars
  <2>2. \/ lost' = lost
        \/ InStep /\ lost' = Len(answers)
        \/ InStep /\ lost' = None
    BY <1>4 DEF ReadSize
  <2> QED
    BY <2>1, <2>2, Silent
<1>5. CASE ReadBody
  BY <1>5, Silent DEF ReadBody, BodyRead, authVars
<1>6. CASE Send
  BY <1>6, SendIsAnswer
<1>7. CASE UNCHANGED vars
  BY <1>7, Silent DEF vars, clientVars, authVars, dataVars
<1> QED
  BY <1>1, <1>2, <1>3, <1>4, <1>5, <1>6, <1>7 DEF Next, Client, Handler

(* ClientHandler implements RequestServer: one fitting answer for one       *)
(* request, in order, for as long as the framing is kept.                   *)
THEOREM Implements == Spec => KeepsContract
<1>1. Init => Contract!Init
  <2> SUFFICES ASSUME Init PROVE Contract!Init
    OBVIOUS
  <2>1. password \in BOOLEAN /\ sent = <<>> /\ AnswersInStep = <<>>
    BY HandlerAssumption DEF Init, AnswersInStep, InStep
  <2> QED
    BY <2>1 DEF Contract!Init
<1>2. IInv /\ [Next]_vars => [Contract!Ask \/ Contract!Answer]_(Contract!vars)
  BY NextIsContract
<1> QED
  BY <1>1, <1>2, Invariance, PTL DEF Spec, KeepsContract, Contract!Spec

-----------------------------------------------------------------------------
(* What IInv says nothing of: the limits of the run, and what holds only    *)
(* where a request or an answer is at hand.                                 *)
AtHandInv ==
    /\ Len(sent) <= MaxFrames /\ (bodyDue => Len(sent) < MaxFrames)
    /\ running \in BOOLEAN /\ databases \in BOOLEAN
    /\ pc = "handle" <=> request # None
    /\ pc = "send" <=> answer # Nothing
    /\ ~running => ~socketOpen
    /\ pc = "done" => ~socketOpen /\ ~databases

LEMMA InitAtHand == Init => AtHandInv
<1> SUFFICES ASSUME Init PROVE AtHandInv
  OBVIOUS
<1>1. Len(sent) = 0 /\ Len(sent) <= MaxFrames /\ bodyDue = FALSE
  BY HandlerAssumption DEF Init
<1> QED
  BY <1>1 DEF Init, AtHandInv

LEMMA NextAtHand == IInv /\ AtHandInv /\ [Next]_vars => AtHandInv'
<1> SUFFICES ASSUME IInv, AtHandInv, [Next]_vars PROVE AtHandInv'
  OBVIOUS
<1>0. TypeInv /\ RequestInv /\ None \notin Requests /\ MaxFrames \in Nat
      /\ \A r \in Requests : \A s \in Seq(Requests) : Len(Append(s, r)) = Len(s) + 1
  BY HandlerAssumption DEF IInv
<1> USE DEF AtHandInv
<1>1. CASE Client
  <2>1. ASSUME NEW size \in Sizes, SendSize(size) PROVE AtHandInv'
    BY <2>1 DEF SendSize, handlerVars, dataVars
  <2>2. ASSUME NEW r \in Requests, SendBody(r) PROVE AtHandInv'
    <3>1. sent \in Seq(Requests) /\ Len(sent) \in Nat /\ Len(sent) < MaxFrames
      BY <1>0, <2>2 DEF TypeInv, SendBody
    <3>2. Len(sent') = Len(sent) + 1
      BY <1>0, <2>2, <3>1 DEF SendBody
    <3> QED
      BY <1>0, <2>2, <3>1, <3>2 DEF SendBody, handlerVars, dataVars
  <2>3. CASE HangUp
    BY <2>3 DEF HangUp, handlerVars, dataVars
  <2> QED
    BY <1>1, <2>1, <2>2, <2>3 DEF Client
<1>2. CASE Close
  BY <1>2 DEF Close, CloseSocket, clientVars, authVars, dataVars
<1>3. CASE Start \/ Loop \/ CleanUp
  <2>1. UNCHANGED <<sent, bodyDue, running, request, answer>>
        /\ pc \notin {"handle", "send"} /\ pc' \notin {"handle", "send"}
    BY <1>3 DEF Start, Loop, CleanUp, clientVars, dataVars
  <2>2. CASE Start \/ Loop
    BY <2>1, <2>2 DEF Start, Loop
  <2>3. CASE CleanUp
    BY <2>1, <2>3 DEF CleanUp
  <2> QED
    BY <1>3, <2>2, <2>3
<1>4. CASE ReadEnds
  BY <1>4 DEF ReadEnds, CloseSocket, clientVars, authVars, dataVars
<1>5. CASE ReadFails
  BY <1>5 DEF ReadFails, SendAnswer, Nothing, clientVars, authVars
<1>6. CASE ReadSize
  <2>1. PICK size : SizeRead(size)
    BY <1>6 DEF ReadSize
  <2> QED
    BY <1>6, <2>1 DEF ReadSize, Reading, SizeRead, SendAnswer, Nothing, authVars
<1>7. CASE ReadBody
  <2>1. PICK r \in Requests : BodyRead(r)
    <3>1. request' \in Requests
      <4>1. pc' = "handle" /\ RequestInv'
        BY <1>7, ReadBodyIInv DEF ReadBody, BodyRead, IInv
      <4> QED
        BY <4>1 DEF RequestInv
    <3>2. BodyRead(request')
      BY <1>7 DEF ReadBody, BodyRead
    <3> QED
      BY <3>1, <3>2
  <2> QED
    BY <1>0, <1>7, <2>1 DEF ReadBody, Reading, BodyRead, authVars
<1>8. CASE HandleRequest
  BY <1>8
  DEF HandleRequest, Refused, Authorize, Command, List, DeleteDb, Query, SendAnswer, Nothing,
      clientVars, authVars
<1>9. CASE Send
  BY <1>9 DEF Send, clientVars, authVars
<1>10. CASE UNCHANGED vars
  BY <1>10 DEF vars, clientVars, authVars, dataVars
<1> QED
  BY <1>1, <1>2, <1>3, <1>4, <1>5, <1>6, <1>7, <1>8, <1>9, <1>10 DEF Next, Handler

(* Always: a request is at hand only while it is handled, an answer only    *)
(* while it is sent, close() has closed the socket when it has cleared      *)
(* running, and a thread that ended has given the socket and the databases  *)
(* back (run and close of ClientHandler.java).                              *)
THEOREM AtHand == Spec => []AtHandInv
<1> QED
  BY InitAtHand, NextAtHand, Invariance, PTL DEF Spec

(* The handler's fields have their types, and no more is on its socket than *)
(* the client may have written: for every set of requests, of users and of  *)
(* results, and every length of the conversation.                           *)
THEOREM TypeCorrect == Spec => []TypeOK
<1>1. IInv /\ AtHandInv => TypeOK
  BY DEF IInv, AtHandInv, TypeInv, TypeOK
<1> QED
  BY <1>1, AtHand, Invariance, PTL

-----------------------------------------------------------------------------
(* The safety half of what the run checks as liveness.                     *)

(* close() was called, or the client failed to authorize. *)
Stopping == ~running \/ denyAccess

(* How many steps the handler's thread has left then, at most. *)
StepsLeft ==
    CASE pc = "start" -> 6 [] pc = "read" -> 5 [] pc = "handle" -> 4 [] pc = "send" -> 3
      [] pc = "loop" -> 2 [] pc = "cleanUp" -> 1 [] OTHER -> 0

StopsSoon ==
    [][Stopping => /\ Stopping' /\ StepsLeft' <= StepsLeft
                   /\ Handler => StepsLeft' < StepsLeft]_vars

(* The read it may be in ends, and what it ends with is given back. *)
StopWaitsForNobody ==
    /\ Stopping /\ pc = "read" => ~socketOpen
    /\ pc = "done" => ~socketOpen /\ ~databases

(* The handler waits for the client only when it has answered everything   *)
(* the client has written.                                                 *)
WaitsWhenAnswered ==
    InStep /\ Connected /\ pc = "read" /\ network = <<>> => Len(answers) = Len(sent)

(* What a handler in step has yet to do for what the client has written. *)
WorkLeft ==
    5 * Len(network) + (CASE pc = "handle" -> 4 [] pc \in {"start", "send"} -> 3
                          [] pc = "loop" -> 2 [] pc = "read" -> 1 [] OTHER -> 0)

WorkGetsLess ==
    [][InStep /\ Connected /\ Handler /\ InStep' /\ Connected' => WorkLeft' < WorkLeft]_vars

LEMMA ClientKeepsPC == Client => UNCHANGED <<running, denyAccess, pc>>
  BY DEF Client, SendSize, SendBody, HangUp, handlerVars, authVars

(* Nothing takes a stop back, and the handler's own steps use up what is    *)
(* left: one case for each of them.                                         *)
LEMMA StoppingStep ==
    ASSUME IInv, AtHandInv, Stopping, [Next]_vars
    PROVE  Stopping' /\ StepsLeft' <= StepsLeft /\ (Handler => StepsLeft' < StepsLeft)
<1> USE DEF Stopping, StepsLeft
<1>1. StepsLeft \in 0 .. 6
  OBVIOUS
<1>2. CASE Handler
  <2>1. CASE Start \/ Loop \/ CleanUp
    BY <2>1 DEF Start, Loop, CleanUp, authVars
  <2>2. CASE ReadEnds \/ ReadFails
    BY <2>2 DEF ReadEnds, ReadFails, CloseSocket, SendAnswer, authVars
  <2>3. CASE ReadSize
    <3>1. PICK size : SizeRead(size)
      BY <2>3 DEF ReadSize
    <3> QED
      BY <2>3, <3>1 DEF ReadSize, Reading, SizeRead, SendAnswer, authVars
  <2>4. CASE ReadBody
    <3>1. PICK r : BodyRead(r)
      BY <2>4 DEF ReadBody
    <3> QED
      BY <2>4, <3>1 DEF ReadBody, Reading, BodyRead, authVars
  <2>5. CASE HandleRequest
    <3>1. pc = "handle" /\ running' = running /\ pc' \in {"send", "loop", "crashed"}
      BY <2>5 DEF HandleRequest, Refused, Authorize, Command, List, DeleteDb, Query, SendAnswer
    <3>2. ~denyAccess
      BY <3>1 DEF IInv, RequestInv
    <3> QED
      BY <3>1, <3>2
  <2>6. CASE Send
    BY <2>6 DEF Send, authVars
  <2> QED
    BY <1>2, <2>1, <2>2, <2>3, <2>4, <2>5, <2>6 DEF Handler
<1>3. CASE Client
  BY <1>1, <1>2, <1>3, ClientKeepsPC
<1>4. CASE Close
  BY <1>1, <1>2, <1>4 DEF Close, CloseSocket
<1>5. CASE UNCHANGED vars
  BY <1>1, <1>2, <1>5 DEF vars, authVars
<1> QED
  BY <1>2, <1>3, <1>4, <1>5 DEF Next

(* After close(), or when a client is denied, the thread of the handler is  *)
(* not kept in a read, has six steps left at most, whatever the client does *)
(* meanwhile, and at the end holds neither databases nor the socket (run,   *)
(* close and cleanUp of ClientHandler.java).                                *)
THEOREM EndsInBoundedSteps == Spec => StopsSoon /\ []StopWaitsForNobody
<1>1. IInv /\ AtHandInv => StopWaitsForNobody
  BY DEF IInv, AnswerInv, AtHandInv, StopWaitsForNobody, Stopping
<1>2. IInv /\ AtHandInv /\ [Next]_vars =>
          [Stopping => /\ Stopping' /\ StepsLeft' <= StepsLeft
                       /\ Handler => StepsLeft' < StepsLeft]_vars
  BY StoppingStep
<1> QED
  BY <1>1, <1>2, AtHand, Invariance, PTL DEF Spec, StopsSoon

(* By the frames: with nothing on the network and no body due, every size   *)
(* and every body that was written has been read, and answered.             *)
LEMMA IdleIsDone == IInv => WaitsWhenAnswered
<1> SUFFICES ASSUME IInv, InStep, Connected, pc = "read", network = <<>>
             PROVE  Len(answers) = Len(sent)
  BY DEF WaitsWhenAnswered
<1>1. Len(sent) \in Nat /\ received \in Nat /\ Len(network) = 0 /\ bodyDue \in BOOLEAN
  BY DEF IInv, TypeInv
<1>2. 0 + BodyNext = 2 * (Len(sent) - received) + (IF bodyDue THEN 1 ELSE 0)
  BY <1>1 DEF IInv, FrameInv, Connected
<1>3. Len(sent) = received
  BY <1>1, <1>2 DEF BodyNext
<1>4. ~denyAccess /\ Len(answers) = received
  BY DEF IInv, AnswerInv
<1> QED
  BY <1>3, <1>4

(* A step either consumes a frame of the client's or brings the handling of *)
(* one that was consumed nearer to its end.                                 *)
LEMMA WorkingStep ==
    ASSUME IInv, InStep, Connected, Handler, InStep', Connected'
    PROVE  WorkLeft' < WorkLeft
<1>1. network \in Seq(Parts) /\ Len(network) \in Nat
  BY DEF IInv, TypeInv
<1>2. ASSUME network # <<>>, network' = Tail(network) PROVE Len(network') = Len(network) - 1
  BY <1>1, <1>2
<1>3. CASE Start \/ Loop
  BY <1>1, <1>3 DEF Start, Loop, clientVars, WorkLeft
<1>4. CASE ReadSize
  <2>1. network # <<>> /\ network' = Tail(network) /\ pc = "read"
    BY <1>4 DEF ReadSize, Reading
  <2>2. PICK size : SizeRead(size)
    BY <1>4 DEF ReadSize
  <2>3. pc' \in {"loop", "send", "crashed"}
    BY <2>2 DEF SizeRead, SendAnswer
  <2> QED
    BY <1>1, <1>2, <2>1, <2>3 DEF WorkLeft
<1>5. CASE ReadBody
  <2>1. network # <<>> /\ network' = Tail(network) /\ pc = "read" /\ pc' = "handle"
    BY <1>5 DEF ReadBody, Reading, BodyRead
  <2> QED
    BY <1>1, <1>2, <2>1 DEF WorkLeft
<1>6. CASE HandleRequest
  <2>1. pc = "handle" /\ pc' \in {"send", "loop", "crashed"} /\ network' = network
    BY <1>6 DEF HandleRequest, Refused, Authorize, Command, List, DeleteDb, Query, SendAnswer, clientVars
  <2> QED
    BY <1>1, <2>1 DEF WorkLeft
<1>7. CASE Send
  BY <1>1, <1>7 DEF Send, clientVars, WorkLeft
<1>8. ~CleanUp /\ ~ReadEnds /\ ~ReadFails
  BY DEF CleanUp, ReadEnds, ReadFails, CloseSocket, Connected
<1> QED
  BY <1>3, <1>4, <1>5, <1>6, <1>7, <1>8 DEF Handler

(* A handler in step waits for the client only when it has answered all     *)
(* that the client has written, and otherwise each of its steps brings that *)
(* nearer: the client, which may write on meanwhile, adds to what is left,  *)
(* and the handler never does (readClientChannel and handleRequest of       *)
(* ClientHandler.java).                                                     *)
THEOREM AnswersInBoundedSteps == Spec => []WaitsWhenAnswered /\ WorkGetsLess
<1>1. IInv /\ [Next]_vars =>
          [InStep /\ Connected /\ Handler /\ InStep' /\ Connected' => WorkLeft' < WorkLeft]_vars
  BY WorkingStep
<1> QED
  BY <1>1, IdleIsDone, Invariance, PTL DEF Spec, WorkGetsLess

=============================================================================

---------------------------- MODULE LetosService ----------------------------
(***************************************************************************)
(* LetosService: what start() and stop() of the application, the service   *)
(* callbacks on the main thread and the death of the process make of one   *)
(* listener.                                                               *)
(*                                                                         *)
(* LetosService.instance() is an object the application configures; the    *)
(* instances that run are others, made by Android, and they share with it  *)
(* only the static fields running and applicationContext.  Android is      *)
(* external: it keeps one record of the started service, and delivers its  *)
(* messages to the main thread in order.  start() and stop() are two steps *)
(* each, the test of running and the call to Android, since other threads  *)
(* than the main one may call them.                                        *)
(*                                                                         *)
(* A configuration stands for the port, the address, the password and the  *)
(* two lists of an intent.                                                 *)
(***************************************************************************)
EXTENDS Naturals, Sequences

CONSTANTS
    Configurations,     \* what the application configures
    Default,            \* the configuration of a new LetosService object
    None,
    WifiAvailable,      \* is there a WifiManager
    MaxCalls,           \* bound on the calls of start() and stop()
    MaxKills            \* bound on the deaths of the process; Android gives
                        \* up redelivering an intent after six

ASSUME ServiceAssumption ==
    /\ Default \in Configurations /\ None \notin Configurations
    /\ WifiAvailable \in BOOLEAN
    /\ MaxCalls \in Nat /\ MaxKills \in Nat

VARIABLES
    running, applicationContext,    \* the static fields
    settings,       \* the configuration of LetosService.instance()
    call,           \* the start() or stop() that has tested running
    asked,          \* the settings of the start() that started the service
    instances,      \* the instances Android makes, by number
    listeners,      \* the listeners started and not closed
    notification,   \* the configuration the notification shows
    record,         \* Android: the instance of the started service, or 0
    intents,        \* Android: the intents the service was given since it was started
    messages,       \* Android: what the main thread has yet to do
    made,           \* Android: the last instance
    calls, kills

appVars == <<settings, call, asked, calls>>
serviceVars == <<running, instances, listeners, notification>>
systemVars == <<record, intents, messages, made>>
vars == <<applicationContext, appVars, serviceVars, systemVars, kills>>

Ids == 1 .. MaxCalls + MaxKills
Listeners == [instance : Ids, configuration : Configurations]
Instances == [configuration : Configurations, listener : Listeners \cup {None},
              cpuLock : BOOLEAN, wifiLock : BOOLEAN]
ASSUME NoneAssumption == None \notin Listeners \cup Instances \cup {"start", "stop"}

NewInstance == [configuration |-> Default, listener |-> None, cpuLock |-> FALSE, wifiLock |-> FALSE]
Create(i) == [what |-> "create", instance |-> i]
Args(i, intent) == [what |-> "args", instance |-> i, intent |-> intent]
Destroy(i) == [what |-> "destroy", instance |-> i]

Init ==
    /\ running = FALSE /\ applicationContext = FALSE
    /\ settings = Default /\ call = None /\ asked = None
    /\ instances = [i \in Ids |-> None]
    /\ listeners = {} /\ notification = None
    /\ record = 0 /\ intents = <<>> /\ messages = <<>> /\ made = 0
    /\ calls = 0 /\ kills = 0

-----------------------------------------------------------------------------
(* The application: LetosService.instance() and its methods.               *)

SetConfiguration ==
    /\ \E c \in Configurations \ {settings} : settings' = c
    /\ UNCHANGED <<applicationContext, call, asked, calls, serviceVars, systemVars, kills>>

Start ==
    /\ call = None /\ calls < MaxCalls
    /\ calls' = calls + 1
    /\ IF running
       THEN UNCHANGED <<applicationContext, call>>
       ELSE applicationContext' = TRUE /\ call' = "start"
    /\ UNCHANGED <<settings, asked, serviceVars, systemVars, kills>>

(* startForegroundService: Android makes an instance if the service is not *)
(* started, and gives it the intent.                                       *)
StartForegroundService ==
    /\ call = "start" /\ call' = None
    /\ IF record = 0
       THEN /\ made' = made + 1 /\ record' = made'
            /\ intents' = <<settings>> /\ asked' = settings
            /\ messages' = messages \o <<Create(made'), Args(made', settings)>>
       ELSE /\ intents' = Append(intents, settings)
            /\ messages' = Append(messages, Args(record, settings))
            /\ UNCHANGED <<made, record, asked>>
    /\ UNCHANGED <<applicationContext, settings, calls, serviceVars, kills>>

Stop ==
    /\ call = None /\ calls < MaxCalls
    /\ calls' = calls + 1
    /\ call' = IF running /\ applicationContext THEN "stop" ELSE None
    /\ UNCHANGED <<applicationContext, settings, asked, serviceVars, systemVars, kills>>

StopService ==
    /\ call = "stop" /\ call' = None
    /\ IF record = 0
       THEN UNCHANGED systemVars
       ELSE /\ record' = 0 /\ intents' = <<>>
            /\ messages' = Append(messages, Destroy(record))
            /\ UNCHANGED made
    /\ UNCHANGED <<applicationContext, settings, asked, calls, serviceVars, kills>>

-----------------------------------------------------------------------------
(* The callbacks, on the main thread.                                      *)

Handles(what) == messages # <<>> /\ Head(messages).what = what /\ messages' = Tail(messages)
Current == Head(messages).instance

OnCreate ==
    /\ Handles("create")
    /\ instances' = [instances EXCEPT ![Current] = NewInstance]
    /\ UNCHANGED <<applicationContext, appVars, running, listeners, notification, record, intents,
                   made, kills>>

(* applyConfiguration: what the extras of the intent say. *)
Configured(intent) == intent

(* applicationContext = getApplicationContext() *)
ContextAtStart == TRUE

StartListener(configuration) ==
    LET listener == [instance |-> Current, configuration |-> configuration] IN
    /\ instances' = [instances EXCEPT ![Current] =
                        [configuration |-> configuration, listener |-> listener,
                         cpuLock |-> TRUE, wifiLock |-> WifiAvailable]]
    /\ listeners' = listeners \cup {listener}
    /\ running' = TRUE

OnStartCommand_Unchecked ==
    /\ Handles("args")
    /\ applicationContext' = ContextAtStart
    /\ notification' = Configured(Head(messages).intent)
    /\ StartListener(notification')
    /\ UNCHANGED <<appVars, record, intents, made, kills>>

OnStartCommand ==
    /\ Handles("args")
    /\ applicationContext' = ContextAtStart
    /\ LET configuration == Configured(Head(messages).intent) IN
       /\ notification' = configuration
       /\ IF running
          THEN /\ instances' = [instances EXCEPT ![Current].configuration = configuration]
               /\ UNCHANGED <<listeners, running>>
          ELSE StartListener(configuration)
    /\ UNCHANGED <<appVars, record, intents, made, kills>>

(* shutdownListener closes the listener and joins its thread; what that     *)
(* takes is the subject of LetosListener.                                   *)
OnDestroy ==
    /\ Handles("destroy")
    /\ listeners' = listeners \ {instances[Current].listener}
    /\ running' = FALSE
    /\ instances' = [instances EXCEPT ![Current] =
                        [@ EXCEPT !.listener = None, !.cpuLock = FALSE, !.wifiLock = FALSE]]
    /\ notification' = None
    /\ UNCHANGED <<applicationContext, appVars, record, intents, made, kills>>

-----------------------------------------------------------------------------
(* The process dies and takes every object and static field with it.  A    *)
(* service that is started is made again and, since onStartCommand returns *)
(* START_REDELIVER_INTENT, given its intents again.                        *)
Redelivered_LastOnly(given) == <<given[Len(given)]>>
Redelivered(given) == given

Kill ==
    /\ kills < MaxKills /\ kills' = kills + 1
    /\ running' = FALSE /\ applicationContext' = FALSE
    /\ settings' = Default /\ call' = None
    /\ instances' = [i \in Ids |-> None] /\ listeners' = {} /\ notification' = None
    /\ IF record = 0
       THEN messages' = <<>> /\ UNCHANGED <<record, intents, made>>
       ELSE /\ made' = made + 1 /\ record' = made'
            /\ intents' = Redelivered(intents)
            /\ messages' = <<Create(made')>> \o
                   [k \in DOMAIN intents' |-> Args(made', intents'[k])]
    /\ UNCHANGED <<asked, calls>>

Application == SetConfiguration \/ Start \/ StartForegroundService \/ Stop \/ StopService
MainThread == OnCreate \/ OnStartCommand \/ OnDestroy
Next == Application \/ MainThread \/ Kill

Spec == Init /\ [][Next]_vars

-----------------------------------------------------------------------------
(* Properties.                                                             *)

(* Every variable keeps the type of what it stands for. *)
TypeOK ==
    /\ {running, applicationContext} \subseteq BOOLEAN
    /\ {settings} \cup {intents[k] : k \in DOMAIN intents} \subseteq Configurations
    /\ asked \in Configurations \cup {None} /\ notification \in Configurations \cup {None}
    /\ listeners \subseteq Listeners /\ instances \in [Ids -> Instances \cup {None}]
    /\ call \in {None, "start", "stop"}
    /\ record \in 0 .. made /\ made \in 0 .. MaxCalls + MaxKills
    /\ \A k \in DOMAIN messages : messages[k].instance \in 1 .. made

(* The static field running, which decides for every instance, is TRUE      *)
(* exactly while there is a listener; there is never a second one, and the  *)
(* one there is belongs to an instance that can close it: stop and start in *)
(* any order, old and new instances and the death of the process included.  *)
(* Wake locks are held with it and only with it, and stop() has a context,  *)
(* also in a process in which nobody has called start().                    *)
RunningMeansOneListener ==
    /\ running <=> listeners # {}
    /\ running => applicationContext
    /\ \A l, m \in listeners : l = m
    /\ \A l \in listeners : instances[l.instance] # None /\ instances[l.instance].listener = l
    /\ \A i \in Ids : instances[i] # None =>
           /\ instances[i].cpuLock <=> instances[i].listener # None
           /\ instances[i].wifiLock <=> instances[i].cpuLock /\ WifiAvailable

(* The listener has the configuration of the start that started the        *)
(* service, also after the process died: address, port and password are    *)
(* those the application had set then.                                     *)
ConfigurationSurvives ==
    \A l \in listeners : l.instance = record => l.configuration = asked

=============================================================================

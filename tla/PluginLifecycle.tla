---------------------------- MODULE PluginLifecycle ----------------------------
(***************************************************************************)
(* The shell (HdmiCecSource: Initialize, Deinitialize, Deactivated), the   *)
(* construction, configuration and destruction of the implementation, and  *)
(* the process that may hold it and may die at any time.                   *)
(*                                                                         *)
(* The framework activates and deactivates one thing at a time; it tells   *)
(* of a closed connection on a thread of its own, and is assumed not to    *)
(* return from Unregister while it does.  A call to an object whose        *)
(* process is dead has no effect.  A platform that is not supported        *)
(* refuses to start before anything is done, and is left out; but          *)
(* Deinitialize asks for the profile again.  If it does not find it, it    *)
(* returns with nothing undone; what the framework makes of such a shell   *)
(* is not in the code, and here its thread does no more.                   *)
(***************************************************************************)
EXTENDS Naturals

CONSTANT Ids  \* connection IDs, which name objects too; none of them is 0

ASSUME IdAssumption == Ids \subseteq Nat \ {0}

VARIABLES
    pc,             \* where the framework thread is in Initialize or Deinitialize
    _service, _hdmiCecSource, _connectionId,    \* the members of the shell
    hooked,         \* _notification is registered with the framework
    json,           \* JHdmiCecSource is registered
    services,       \* references on the framework service
    remote,         \* the objects that live in a process of their own
    objects,        \* the objects that exist
    _instance,      \* of the framework's process, which a local object uses
    power, display, \* per object: its registrations with the power and display managers
    stranded,       \* history: objects whose display registration was not taken back
    listed,         \* objects that have the shell in their list of notifications
    held,           \* objects on which somebody else keeps a reference
    closed,         \* connections whose end the framework has not told yet
    watcher,        \* the connection Deactivated has recognised as its own
    jobs,           \* jobs that deactivate the plugin, by the connection they are for
    told,           \* what JSON-RPC clients heard last of the active source status
    begun,          \* the events that are on their way to the shell
    late, outlived  \* history: an event overtook Deinitialize; an object outlived it

members == <<_service, _hdmiCecSource, _connectionId>>
managers == <<power, display, stranded>>
world == <<remote, objects, _instance, managers, listed, held>>
news == <<closed, watcher, jobs>>
heard == <<told, begun, late>>
vars == <<pc, members, hooked, json, services, world, news, heard, outlived>>

Init ==
    /\ pc = "down"
    /\ _service = FALSE /\ _hdmiCecSource = 0 /\ _connectionId = 0
    /\ hooked = FALSE /\ json = FALSE /\ services = 0
    /\ remote = {} /\ objects = {} /\ _instance = 0
    /\ power = [i \in Ids |-> 0] /\ display = [i \in Ids |-> 0]
    /\ listed = {} /\ held = {}
    /\ closed = {} /\ watcher = 0 /\ jobs = {}
    /\ stranded = {} /\ begun = {}
    /\ told = FALSE /\ late = FALSE /\ outlived = FALSE

-------------------------------------------------------------------------------
(* Initialize *)

\* Seeded fault: the shell does not ask to be told of closed connections.
InitializeUnhooked ==
    /\ pc = "down"
    /\ pc' = "root"
    /\ _service' = TRUE /\ services' = services + 1
    /\ UNCHANGED <<_hdmiCecSource, _connectionId, hooked, json, world, news, heard, outlived>>

InitializeStarts ==
    /\ pc = "down"
    /\ pc' = "root"
    /\ _service' = TRUE /\ services' = services + 1 /\ hooked' = TRUE
    /\ UNCHANGED <<_hdmiCecSource, _connectionId, json, world, news, heard, outlived>>

Fresh(i) == i \notin objects \cup stranded \cup remote \cup closed \cup jobs \cup {watcher}

\* Seeded fault: the constructor does not set _instance.
RootUnset(i) ==
    /\ pc = "root"
    /\ Fresh(i)
    /\ objects' = objects \cup {i}
    /\ _hdmiCecSource' = i
    /\ \/ remote' = remote \cup {i} /\ _connectionId' = i
       \/ UNCHANGED <<remote, _connectionId>>
    /\ pc' = "configure"
    /\ UNCHANGED <<_service, hooked, json, services, _instance, managers, listed, held, news,
                   heard, outlived>>

\* Root, which runs the constructor, here or in another process ...
Root(i) ==
    /\ pc = "root"
    /\ Fresh(i)
    /\ objects' = objects \cup {i}
    /\ _hdmiCecSource' = i
    /\ \/ remote' = remote \cup {i} /\ _connectionId' = i /\ UNCHANGED _instance
       \/ _instance' = i /\ UNCHANGED <<remote, _connectionId>>
    /\ pc' = "configure"
    /\ UNCHANGED <<_service, hooked, json, services, managers, listed, held, news,
                   heard, outlived>>

\* ... or gives nothing, and Initialize calls Deinitialize.
RootFails ==
    /\ pc = "root"
    /\ pc' \in {"forget", "abandoned"}
    /\ UNCHANGED <<members, hooked, json, services, world, news, heard, outlived>>

\* Seeded fault: registerEventHandlers, which is called twice, does not look at
\* its flag.
ConfigureTwice ==
    /\ pc = "configure"
    /\ IF _hdmiCecSource \in objects
       THEN /\ power' = [power EXCEPT ![_hdmiCecSource] = 2]
            /\ display' \in {display, [display EXCEPT ![_hdmiCecSource] = 1]}
       ELSE UNCHANGED <<power, display>>
    /\ pc' = "register"
    /\ UNCHANGED <<members, hooked, json, services, remote, objects, _instance, stranded, listed,
                   held, news, heard, outlived>>

\* Configure registers once for power changes, if there is a power manager, and
\* with the display manager, unless that throws; neither, if there is no IARM bus.
\* Nobody looks at the result.
Configure ==
    /\ pc = "configure"
    /\ IF _hdmiCecSource \in objects
       THEN \E p \in {0, 1}, d \in {0, 1} :
               /\ power' = [power EXCEPT ![_hdmiCecSource] = p]
               /\ display' = [display EXCEPT ![_hdmiCecSource] = d]
       ELSE UNCHANGED <<power, display>>
    /\ pc' = "register"
    /\ UNCHANGED <<members, hooked, json, services, remote, objects, _instance, stranded, listed,
                   held, news, heard, outlived>>

InitializeEnds ==
    /\ pc = "register"
    /\ listed' = listed \cup ({_hdmiCecSource} \cap objects)
    /\ json' = TRUE
    /\ pc' = "up"
    /\ UNCHANGED <<members, hooked, services, remote, objects, _instance, managers, held,
                   news, heard, outlived>>

-------------------------------------------------------------------------------
(* Deinitialize *)

\* Seeded fault: clients are not told that the device is not active any more.
DeinitializeSilently ==
    /\ pc = "up"
    /\ late' = FALSE
    /\ pc' = "unregister"
    /\ UNCHANGED <<members, hooked, json, services, world, closed, watcher, told, begun, outlived>>

\* Clients are told that the device is not the active source, unless the profile
\* is not found: then this is all.
DeinitializeStarts ==
    /\ pc = "up"
    /\ \/ told' = FALSE /\ late' = FALSE /\ pc' = "unregister"
       \/ pc' = "abandoned" /\ UNCHANGED <<told, late>>
    /\ UNCHANGED <<members, hooked, json, services, world, closed, watcher, begun, outlived>>

UnregisterClient ==
    /\ pc = "unregister"
    /\ listed' = listed \ {_hdmiCecSource}
    /\ json' = FALSE
    /\ pc' = "release"
    /\ UNCHANGED <<members, hooked, services, remote, objects, _instance, managers, held,
                   news, heard, outlived>>

\* The destructor takes back each registration once; the display manager may throw,
\* and keeps its own.  The _instance is that of the process of the object.
Destructor(i) ==
    /\ objects' = objects \ {i}
    /\ _instance' = IF i \in remote THEN _instance ELSE 0
    /\ power' = [power EXCEPT ![i] = IF @ > 0 THEN @ - 1 ELSE 0]
    /\ \/ /\ display' = [display EXCEPT ![i] = IF @ > 0 THEN @ - 1 ELSE 0]
          /\ UNCHANGED stranded
       \/ /\ display[i] > 0
          /\ stranded' = stranded \cup {i}
          /\ UNCHANGED display

ReleaseObject ==
    /\ pc = "release"
    /\ IF _hdmiCecSource \in objects \ held THEN Destructor(_hdmiCecSource)
       ELSE UNCHANGED <<objects, _instance, managers>>
    /\ outlived' = (outlived \/ _hdmiCecSource \in held \ remote)
    /\ _hdmiCecSource' = 0
    /\ pc' = "terminate"
    /\ UNCHANGED <<_service, _connectionId, hooked, json, services, remote, listed, held, news,
                   heard>>

\* The process of connection i is gone, and all that it had registered.
Closes(i) ==
    /\ objects' = objects \ {i} /\ remote' = remote \ {i}
    /\ power' = [power EXCEPT ![i] = 0] /\ display' = [display EXCEPT ![i] = 0]
    /\ stranded' = stranded \ {i}
    /\ listed' = listed \ {i} /\ held' = held \ {i}
    /\ closed' = closed \cup {i}

\* The framework may tell that the connection is closed while it is still ours.  A
\* Terminate that throws is logged, and the process goes on.
Terminate ==
    /\ pc = "terminate"
    /\ \/ _connectionId \in remote /\ Closes(_connectionId)
       \/ UNCHANGED <<objects, remote, managers, listed, held, closed>>
    /\ pc' = "forget"
    /\ UNCHANGED <<members, hooked, json, services, _instance, watcher, jobs, heard, outlived>>

\* Seeded fault: the service is given up before the notification is taken back.
ForgetAll ==
    /\ pc = "forget"
    /\ _connectionId' = 0 /\ _service' = FALSE
    /\ pc' = "unhook"
    /\ UNCHANGED <<_hdmiCecSource, hooked, json, services, world, news, heard, outlived>>

Forget ==
    /\ pc = "forget"
    /\ _connectionId' = 0
    /\ pc' = "unhook"
    /\ UNCHANGED <<_service, _hdmiCecSource, hooked, json, services, world, news, heard, outlived>>

Unhook ==
    /\ pc = "unhook"
    /\ watcher = 0
    /\ hooked' = FALSE
    /\ pc' = "leave"
    /\ UNCHANGED <<members, json, services, world, news, heard, outlived>>

DeinitializeEnds ==
    /\ pc = "leave"
    /\ services' = services - 1
    /\ _service' = FALSE
    /\ pc' = "down"
    /\ UNCHANGED <<_hdmiCecSource, _connectionId, hooked, json, world, news, heard, outlived>>

-------------------------------------------------------------------------------
(* Everybody else. *)

Deactivate == DeinitializeStarts /\ UNCHANGED jobs

\* A job finds the plugin up, whichever activation that is, or has nothing to do.
RunJob ==
    \E i \in jobs :
        /\ jobs' = jobs \ {i}
        /\ \/ DeinitializeStarts
           \/ /\ pc \in {"down", "abandoned"}
              /\ UNCHANGED <<pc, members, hooked, json, services, world, closed, watcher, heard,
                             outlived>>

ProcessDies(i) ==
    /\ i \in remote
    /\ Closes(i)
    /\ UNCHANGED <<pc, members, hooked, json, services, _instance, watcher, jobs, heard,
                   outlived>>

\* Deactivated, in two steps: the comparison of the IDs ...
Deactivated ==
    /\ watcher = 0
    /\ \E i \in closed :
          /\ closed' = closed \ {i}
          /\ watcher' = IF hooked /\ i = _connectionId THEN i ELSE 0
    /\ UNCHANGED <<pc, members, hooked, json, services, world, jobs, heard, outlived>>

\* ... and the job, for which it needs the service.
Submit ==
    /\ watcher # 0
    /\ jobs' = jobs \cup {watcher}
    /\ watcher' = 0
    /\ UNCHANGED <<pc, members, hooked, json, services, world, closed, heard, outlived>>

\* OnActiveSourceStatusUpdated from the implementation, which takes no lock for its
\* walk: the shell is in the list when an event turns to it ...
TellStarts(v) ==
    /\ _hdmiCecSource \in listed
    /\ begun' = begun \cup {v}
    /\ UNCHANGED <<pc, members, hooked, json, services, world, news, told, late, outlived>>

\* ... and may be out of it, or down, when the event arrives.
Tell(v) ==
    /\ v \in begun
    /\ begun' = begun \ {v}
    /\ told' = v
    /\ late' = (late \/ pc # "up")
    /\ UNCHANGED <<pc, members, hooked, json, services, world, news, outlived>>

\* The shell hands its object out to who asks for its interface.
Hold ==
    /\ pc = "up" /\ _hdmiCecSource \in objects
    /\ held' = held \cup {_hdmiCecSource}
    /\ UNCHANGED <<pc, members, hooked, json, services, remote, objects, _instance, managers,
                   listed, news, heard, outlived>>

LetGo(i) ==
    /\ i \in held
    /\ held' = held \ {i}
    /\ IF i # _hdmiCecSource THEN Destructor(i)
       ELSE UNCHANGED <<objects, _instance, managers>>
    /\ UNCHANGED <<pc, members, hooked, json, services, remote, listed, news, heard, outlived>>

Framework == \/ \E i \in Ids : Root(i)
             \/ RootFails \/ Configure \/ InitializeEnds
             \/ UnregisterClient \/ ReleaseObject \/ Terminate
             \/ Forget \/ Unhook \/ DeinitializeEnds

\* Where nothing may be left to do.
Abandoned == pc = "abandoned" /\ UNCHANGED vars

Next == \/ InitializeStarts \/ Deactivate \/ Framework
        \/ RunJob \/ Deactivated \/ Submit
        \/ \E i \in Ids : ProcessDies(i) \/ LetGo(i)
        \/ Hold \/ \E v \in BOOLEAN : TellStarts(v) \/ Tell(v)
        \/ Abandoned

Spec == Init /\ [][Next]_vars

\* The framework goes on with what it does, tells of closed connections and runs
\* its jobs.
FairSpec == Spec /\ WF_vars(Framework) /\ WF_vars(RunJob)
                 /\ WF_vars(Deactivated) /\ WF_vars(Submit)

-------------------------------------------------------------------------------
(* Properties. *)

Places == {"down", "root", "configure", "register", "up", "unregister", "release",
           "terminate", "forget", "unhook", "leave", "abandoned"}

TypeOK ==
    /\ pc \in Places
    /\ _service \in BOOLEAN
    /\ {_hdmiCecSource, _connectionId, _instance, watcher} \subseteq Ids \cup {0}
    /\ {hooked, json, told, late, outlived} \subseteq BOOLEAN
    /\ services \in 0 .. 1
    /\ \A S \in {remote, objects, stranded, listed, held, closed, jobs} : S \subseteq Ids
    /\ begun \subseteq BOOLEAN
    /\ power \in [Ids -> 0 .. 1] /\ display \in [Ids -> 0 .. 1]

\* When the plugin is down, however it came there, the ASSERTs of the next
\* Initialize hold, no registration of the shell is left, and none of an object
\* but of those that somebody else still holds, and with a display manager that
\* threw.  Nor is a client left with an active source
\* ("OnActiveSourceStatusUpdated(false)"), unless an event of before arrived after
\* that call.  A Deinitialize that does not find the profile leaves the shell where
\* Initialize had brought it.
NothingLeft ==
    /\ pc = "down" =>
        /\ ~_service /\ _hdmiCecSource = 0 /\ _connectionId = 0
        /\ ~hooked /\ ~json /\ services = 0 /\ listed = {}
        /\ objects \subseteq held
        /\ \A i \in Ids \ objects : power[i] = 0 /\ (display[i] = 0 \/ i \in stranded)
        /\ late \/ ~told
    /\ pc = "abandoned" => /\ _service /\ hooked /\ services = 1
                           /\ _hdmiCecSource # 0 => json

\* ASSERT(_service != nullptr) in Deactivated: Deinitialize never takes the service
\* from under a Deactivated that has recognised its connection.
WatcherHasService == watcher # 0 => _service

\* A local object that is up is the one that the static functions use, unless an
\* object before it has outlived its shell: its destructor clears _instance.
InstanceIsOurs ==
    pc = "up" /\ _hdmiCecSource \in objects \ remote /\ ~outlived
        => _instance = _hdmiCecSource

\* A plugin whose process has died is deactivated in the end: Deinitialize has run.
CrashNoticed ==
    pc = "up" /\ _connectionId # 0 /\ _connectionId \notin remote
        ~> pc \in {"down", "abandoned"}
===============================================================================

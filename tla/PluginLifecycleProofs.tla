-------------------------- MODULE PluginLifecycleProofs --------------------------
(***************************************************************************)
(* Proofs about PluginLifecycle, for every set of IDs: any number of       *)
(* activations, processes that die and objects that somebody else keeps.   *)
(***************************************************************************)
EXTENDS PluginLifecycle, TLAPS

\* What the shell has at each place of Initialize and Deinitialize.
ShellInv ==
    /\ _service <=> pc # "down"
    /\ pc = "down" => services = 0
    /\ pc # "down" => services = 1
    /\ hooked <=> pc \notin {"down", "leave"}
    /\ json => pc \in {"up", "unregister", "abandoned"}
    /\ pc = "up" => json
    /\ pc = "abandoned" /\ _hdmiCecSource # 0 => json
    /\ _hdmiCecSource # 0 =>
          pc \in {"configure", "register", "up", "unregister", "release", "abandoned"}
    /\ _connectionId # 0 =>
          pc \notin {"down", "root", "unhook", "leave"}
    /\ watcher # 0 => hooked

\* Objects live by the shell or by another holder, and only they are registered.
ObjectInv ==
    /\ objects \subseteq held \cup {_hdmiCecSource}
    /\ listed \subseteq {_hdmiCecSource}
    /\ listed # {} => pc \in {"up", "unregister", "abandoned"}
    /\ \A i \in Ids \ objects : power[i] = 0 /\ (display[i] = 0 \/ i \in stranded)

\* A local object that somebody else holds is our own or has outlived its shell.
InstanceInv ==
    /\ \A i \in held : i \in remote \/ i = _hdmiCecSource \/ outlived
    /\ _hdmiCecSource \in objects \ remote /\ ~outlived => _instance = _hdmiCecSource

ToldInv == pc \notin {"up", "abandoned"} /\ ~late => ~told

\* The part of the type that ShellInv does not fix already.
TypeInv ==
    /\ pc \in Places
    /\ _service \in BOOLEAN /\ hooked \in BOOLEAN /\ json \in BOOLEAN
    /\ told \in BOOLEAN /\ late \in BOOLEAN /\ outlived \in BOOLEAN
    /\ _hdmiCecSource \in Ids \cup {0} /\ _connectionId \in Ids \cup {0}
    /\ _instance \in Ids \cup {0} /\ watcher \in Ids \cup {0}
    /\ services \in 0 .. 1
    /\ remote \subseteq Ids /\ objects \subseteq Ids /\ listed \subseteq Ids
    /\ stranded \subseteq Ids /\ begun \subseteq BOOLEAN
    /\ held \subseteq Ids /\ closed \subseteq Ids /\ jobs \subseteq Ids
    /\ power \in [Ids -> 0 .. 1] /\ display \in [Ids -> 0 .. 1]

IInv == TypeInv /\ ShellInv /\ ObjectInv /\ InstanceInv /\ ToldInv

-------------------------------------------------------------------------------
\* Everything holds before the first activation.
LEMMA InitIInv == Init => IInv
<1> SUFFICES ASSUME Init PROVE IInv
  OBVIOUS
<1>1. TypeInv
  <2>1. /\ _service \in BOOLEAN /\ hooked \in BOOLEAN /\ json \in BOOLEAN
        /\ told \in BOOLEAN /\ late \in BOOLEAN /\ outlived \in BOOLEAN
    BY DEF Init
  <2>2. /\ pc \in Places /\ services \in 0 .. 1
        /\ _hdmiCecSource \in Ids \cup {0} /\ _connectionId \in Ids \cup {0}
        /\ _instance \in Ids \cup {0} /\ watcher \in Ids \cup {0}
        /\ power \in [Ids -> 0 .. 1] /\ display \in [Ids -> 0 .. 1]
    BY DEF Init, Places
  <2> QED
    BY <2>1, <2>2 DEF Init, TypeInv
<1>2. ShellInv
  BY DEF Init, ShellInv
<1>3. ObjectInv /\ InstanceInv /\ ToldInv
  BY DEF Init, ObjectInv, InstanceInv, ToldInv
<1> QED
  BY <1>1, <1>2, <1>3 DEF IInv

\* An object that is destroyed loses its registrations but for one that is stranded,
\* and no other object does.
LEMMA DestructorFacts ==
  ASSUME TypeInv, NEW i \in Ids, Destructor(i)
  PROVE  /\ power' \in [Ids -> 0 .. 1] /\ display' \in [Ids -> 0 .. 1]
         /\ power'[i] = 0 /\ (display'[i] = 0 \/ i \in stranded')
         /\ stranded \subseteq stranded' /\ stranded' \subseteq Ids
         /\ \A j \in Ids : j # i => power'[j] = power[j] /\ display'[j] = display[j]
         /\ objects' = objects \ {i}
         /\ _instance' \in Ids \cup {0}
  BY DEF Destructor, TypeInv

\* A process that is gone leaves no registrations behind.
LEMMA ClosesFacts ==
  ASSUME TypeInv, NEW i \in Ids, Closes(i)
  PROVE  /\ power' \in [Ids -> 0 .. 1] /\ display' \in [Ids -> 0 .. 1]
         /\ power'[i] = 0 /\ display'[i] = 0 /\ stranded' = stranded \ {i}
         /\ \A j \in Ids : j # i => power'[j] = power[j] /\ display'[j] = display[j]
         /\ objects' = objects \ {i} /\ remote' = remote \ {i}
         /\ listed' = listed \ {i} /\ held' = held \ {i} /\ closed' = closed \cup {i}
  BY DEF Closes, TypeInv

-------------------------------------------------------------------------------
\* Every step of Initialize keeps the invariant.
LEMMA InitializeKeeps ==
  ASSUME IInv,
         InitializeStarts \/ (\E i \in Ids : Root(i)) \/ RootFails \/ Configure \/ InitializeEnds
  PROVE  IInv'
<1> USE IdAssumption
        DEF IInv, TypeInv, ShellInv, ObjectInv, InstanceInv, ToldInv, Places, members, world, managers, news, heard
<1>1. CASE InitializeStarts
  BY <1>1 DEF InitializeStarts
<1>2. ASSUME NEW i \in Ids, Root(i) PROVE IInv'
  <2> USE <1>2 DEF Root, Fresh
  <2>1. TypeInv'
    <3>1. /\ UNCHANGED <<_service, hooked, json, services, managers, listed, held, news, heard,
                         outlived>>
          /\ pc' \in Places /\ _hdmiCecSource' \in Ids \cup {0}
      OBVIOUS
    <3>2. /\ objects' \subseteq Ids /\ remote' \subseteq Ids
          /\ _connectionId' \in Ids \cup {0} /\ _instance' \in Ids \cup {0}
      OBVIOUS
    <3> HIDE <1>2 DEF Root, Fresh, Places
    <3> QED
      BY <3>1, <3>2
  <2>2. ShellInv'
    OBVIOUS
  <2>3. ObjectInv'
    OBVIOUS
  <2>4. InstanceInv' /\ ToldInv'
    OBVIOUS
  <2> QED
    BY <2>1, <2>2, <2>3, <2>4
<1>3. CASE RootFails
  BY <1>3 DEF RootFails
<1>4. CASE Configure
  <2> USE <1>4 DEF Configure
  <2>1. /\ power' \in [Ids -> 0 .. 1] /\ display' \in [Ids -> 0 .. 1]
        /\ \A i \in Ids \ objects : power'[i] = power[i] /\ display'[i] = display[i]
    OBVIOUS
  <2>2. TypeInv' /\ ShellInv'
    BY <2>1
  <2>3. ObjectInv' /\ InstanceInv' /\ ToldInv'
    BY <2>1
  <2> QED
    BY <2>2, <2>3
<1>5. CASE InitializeEnds
  BY <1>5 DEF InitializeEnds
<1> HIDE DEF IInv
<1> QED
  BY <1>1, <1>2, <1>3, <1>4, <1>5

\* Every step of Deinitialize keeps the invariant.
LEMMA DeinitializeKeeps ==
  ASSUME IInv,
         UnregisterClient \/ ReleaseObject \/ Terminate \/ Forget \/ Unhook \/ DeinitializeEnds
  PROVE  IInv'
<1> USE IdAssumption
        DEF IInv, TypeInv, ShellInv, ObjectInv, InstanceInv, ToldInv, Places, members, world, managers, news, heard
<1>1. CASE UnregisterClient
  <2>1. TypeInv'
    BY <1>1 DEF UnregisterClient
  <2>2. ShellInv'
    BY <1>1 DEF UnregisterClient
  <2>3. ObjectInv'
    BY <1>1 DEF UnregisterClient
  <2>4. InstanceInv' /\ ToldInv'
    BY <1>1 DEF UnregisterClient
  <2> QED
    BY <2>1, <2>2, <2>3, <2>4
<1>2. CASE ReleaseObject
  <2> USE <1>2 DEF ReleaseObject
  <2>1. CASE _hdmiCecSource \in objects \ held
    <3>1. Destructor(_hdmiCecSource) /\ _hdmiCecSource \in Ids
      BY <2>1
    <3>2. /\ power' \in [Ids -> 0 .. 1] /\ display' \in [Ids -> 0 .. 1]
          /\ power'[_hdmiCecSource] = 0
          /\ display'[_hdmiCecSource] = 0 \/ _hdmiCecSource \in stranded'
          /\ stranded \subseteq stranded' /\ stranded' \subseteq Ids
          /\ \A j \in Ids : j # _hdmiCecSource => power'[j] = power[j] /\ display'[j] = display[j]
          /\ objects' = objects \ {_hdmiCecSource}
          /\ _instance' \in Ids \cup {0}
      BY <3>1, DestructorFacts
    <3>3. TypeInv' /\ ShellInv'
      BY <3>2
    <3>4. ObjectInv'
      BY <3>2, <2>1
    <3>5. InstanceInv' /\ ToldInv'
      BY <3>2, <2>1
    <3> QED
      BY <3>3, <3>4, <3>5
  <2>2. CASE _hdmiCecSource \notin objects \ held
    <3>1. TypeInv'
      BY <2>2
    <3>2. ShellInv'
      BY <2>2
    <3>3. ObjectInv'
      <4>1. listed = {} /\ UNCHANGED <<objects, held, listed, power, display>>
        BY <2>2
      <4>2. objects \subseteq held
        BY <2>2
      <4> QED
        BY <4>1, <4>2
    <3>4. InstanceInv' /\ ToldInv'
      BY <2>2
    <3> QED
      BY <3>1, <3>2, <3>3, <3>4
  <2> QED
    BY <2>1, <2>2
<1>3. CASE Terminate
  <2> USE <1>3 DEF Terminate
  <2>1. CASE _connectionId \in remote /\ Closes(_connectionId)
    <3>1. Closes(_connectionId) /\ _connectionId \in Ids
      BY <2>1
    <3>2. /\ power' \in [Ids -> 0 .. 1] /\ display' \in [Ids -> 0 .. 1]
          /\ power'[_connectionId] = 0 /\ display'[_connectionId] = 0
          /\ stranded' = stranded \ {_connectionId}
          /\ \A j \in Ids : j # _connectionId => power'[j] = power[j] /\ display'[j] = display[j]
          /\ objects' = objects \ {_connectionId} /\ remote' = remote \ {_connectionId}
          /\ listed' = listed \ {_connectionId} /\ held' = held \ {_connectionId}
          /\ closed' = closed \cup {_connectionId}
      BY <3>1, ClosesFacts
    <3>3. TypeInv' /\ ShellInv'
      BY <3>1, <3>2
    <3>4. ObjectInv'
      BY <3>2
    <3>5. InstanceInv' /\ ToldInv'
      BY <3>2
    <3> QED
      BY <3>3, <3>4, <3>5
  <2>2. CASE UNCHANGED <<objects, remote, managers, listed, held, closed>>
    BY <2>2
  <2> QED
    BY <2>1, <2>2
<1>4. CASE Forget
  BY <1>4 DEF Forget
<1>5. CASE Unhook
  BY <1>5 DEF Unhook
<1>6. CASE DeinitializeEnds
  <2>0. services' = 0 /\ pc' = "down" /\ ~_service'
    BY <1>6 DEF DeinitializeEnds
  <2>1. TypeInv'
    <3>1. _service' \in BOOLEAN
      BY <1>6 DEF DeinitializeEnds
    <3> QED
      BY <1>6, <2>0, <3>1 DEF DeinitializeEnds
  <2>2. ShellInv'
    BY <1>6 DEF DeinitializeEnds
  <2>3. ObjectInv'
    BY <1>6 DEF DeinitializeEnds
  <2>4. InstanceInv' /\ ToldInv'
    BY <1>6 DEF DeinitializeEnds
  <2> QED
    BY <2>1, <2>2, <2>3, <2>4
<1> HIDE DEF IInv
<1> QED
  BY <1>1, <1>2, <1>3, <1>4, <1>5, <1>6

\* A job, a closed connection, a dying process, an event or another holder keeps
\* the invariant.
LEMMA OthersKeep ==
  ASSUME IInv,
         \/ Deactivate \/ RunJob \/ Deactivated \/ Submit \/ Hold
         \/ \E i \in Ids : ProcessDies(i) \/ LetGo(i)
         \/ \E v \in BOOLEAN : TellStarts(v) \/ Tell(v)
         \/ Abandoned
  PROVE  IInv'
<1> USE IdAssumption
        DEF IInv, TypeInv, ShellInv, ObjectInv, InstanceInv, ToldInv, Places, members, world, managers, news, heard
<1>1. CASE Deactivate
  BY <1>1 DEF Deactivate, DeinitializeStarts
<1>2. CASE RunJob
  <2>1. TypeInv'
    <3>1. /\ pc' \in Places /\ jobs' \subseteq Ids /\ UNCHANGED <<members, hooked, json, services>>
          /\ UNCHANGED <<world, closed, watcher, begun, outlived>>
      BY <1>2 DEF RunJob, DeinitializeStarts
    <3>2. told' \in BOOLEAN /\ late' \in BOOLEAN
      BY <1>2 DEF RunJob, DeinitializeStarts
    <3> HIDE <1>2 DEF Places
    <3> QED
      BY <3>1, <3>2
  <2>2. ShellInv'
    BY <1>2 DEF RunJob, DeinitializeStarts
  <2>3. ObjectInv'
    BY <1>2 DEF RunJob, DeinitializeStarts
  <2>4. ToldInv'
    BY <1>2 DEF RunJob, DeinitializeStarts
  <2>5. UNCHANGED world /\ UNCHANGED _hdmiCecSource /\ UNCHANGED outlived
    BY <1>2 DEF RunJob, DeinitializeStarts
  <2>6. InstanceInv'
    BY <2>5
  <2> QED
    BY <2>1, <2>2, <2>3, <2>4, <2>6
<1>3. CASE Deactivated
  BY <1>3 DEF Deactivated
<1>4. CASE Submit
  BY <1>4 DEF Submit
<1>5. CASE Hold
  BY <1>5 DEF Hold
<1>6. ASSUME NEW i \in Ids, ProcessDies(i) PROVE IInv'
  <2> USE <1>6 DEF ProcessDies
  <2>1. /\ power' \in [Ids -> 0 .. 1] /\ display' \in [Ids -> 0 .. 1]
        /\ power'[i] = 0 /\ display'[i] = 0 /\ stranded' = stranded \ {i}
        /\ \A j \in Ids : j # i => power'[j] = power[j] /\ display'[j] = display[j]
        /\ objects' = objects \ {i} /\ remote' = remote \ {i}
        /\ listed' = listed \ {i} /\ held' = held \ {i} /\ closed' = closed \cup {i}
    BY ClosesFacts
  <2>2. TypeInv' /\ ShellInv'
    BY <2>1
  <2>3. ObjectInv' /\ InstanceInv' /\ ToldInv'
    BY <2>1
  <2> QED
    BY <2>2, <2>3
<1>7. ASSUME NEW i \in Ids, LetGo(i) PROVE IInv'
  <2> USE <1>7 DEF LetGo
  <2>1. CASE i # _hdmiCecSource
    <3>1. /\ power' \in [Ids -> 0 .. 1] /\ display' \in [Ids -> 0 .. 1]
          /\ power'[i] = 0 /\ (display'[i] = 0 \/ i \in stranded')
          /\ stranded \subseteq stranded' /\ stranded' \subseteq Ids
          /\ \A j \in Ids : j # i => power'[j] = power[j] /\ display'[j] = display[j]
          /\ objects' = objects \ {i}
          /\ _instance' \in Ids \cup {0}
      BY <2>1, DestructorFacts
    <3>2. TypeInv' /\ ShellInv'
      BY <3>1
    <3>3. ObjectInv' /\ ToldInv'
      BY <3>1, <2>1
    <3>4. InstanceInv'
      BY <3>1, <2>1 DEF Destructor
    <3> QED
      BY <3>2, <3>3, <3>4
  <2>2. CASE i = _hdmiCecSource
    BY <2>2
  <2> QED
    BY <2>1, <2>2
<1>8. ASSUME NEW v \in BOOLEAN, Tell(v) PROVE IInv'
  BY <1>8 DEF Tell
<1>9. ASSUME NEW v \in BOOLEAN, TellStarts(v) PROVE IInv'
  BY <1>9 DEF TellStarts
<1>10. CASE Abandoned
  BY <1>10 DEF Abandoned, vars
<1> HIDE DEF IInv
<1> QED
  BY <1>1, <1>2, <1>3, <1>4, <1>5, <1>6, <1>7, <1>8, <1>9, <1>10

-------------------------------------------------------------------------------
\* The inductive invariant.
THEOREM Invariant == Spec => []IInv
<1>1. IInv /\ [Next]_vars => IInv'
  <2> SUFFICES ASSUME IInv, [Next]_vars PROVE IInv'
    OBVIOUS
  <2>1. CASE Next
    BY <2>1, InitializeKeeps, DeinitializeKeeps, OthersKeep DEF Next, Framework
  <2>2. CASE UNCHANGED vars
    BY <2>2 DEF vars, members, world, managers, news, heard, IInv, TypeInv, ShellInv, ObjectInv,
       InstanceInv, ToldInv
  <2> QED
    BY <2>1, <2>2
<1> QED
  BY <1>1, InitIInv, PTL DEF Spec

\* Every variable keeps its type: no object is registered twice with the power or
\* display manager, and the framework service is referenced at most once.
THEOREM TypeCorrect == Spec => []TypeOK
<1>1. IInv => TypeOK
  BY DEF IInv, TypeInv, TypeOK
<1> QED
  BY <1>1, Invariant, PTL

\* After Deinitialize, or an Initialize that failed, nothing of the shell is left and
\* nothing of an object that nobody else holds but what the display manager kept;
\* clients believe in no active source, unless an event of before came late.  Only
\* where the profile was not found is everything left.
THEOREM DownIsClean == Spec => []NothingLeft
<1>1. IInv => NothingLeft
  <2> SUFFICES ASSUME IInv PROVE NothingLeft
    OBVIOUS
  <2>1. ASSUME pc = "down"
        PROVE  /\ ~_service /\ _hdmiCecSource = 0 /\ _connectionId = 0
               /\ ~hooked /\ ~json /\ services = 0 /\ listed = {}
               /\ objects \subseteq held
               /\ late \/ ~told
    <3>1. ~_service /\ ~hooked /\ ~json
      BY <2>1 DEF IInv, ShellInv
    <3>2. _hdmiCecSource = 0 /\ _connectionId = 0 /\ services = 0
      BY <2>1 DEF IInv, ShellInv
    <3>3. listed = {} /\ objects \subseteq held
      BY <3>2, IdAssumption DEF IInv, TypeInv, ObjectInv
    <3>4. late \/ ~told
      BY <2>1 DEF IInv, ToldInv
    <3> QED
      BY <3>1, <3>2, <3>3, <3>4
  <2>2. \A i \in Ids \ objects : power[i] = 0 /\ (display[i] = 0 \/ i \in stranded)
    BY DEF IInv, ObjectInv
  <2>3. ASSUME pc = "abandoned" PROVE _service /\ hooked /\ services = 1
    <3>1. _service /\ hooked
      BY <2>3 DEF IInv, ShellInv
    <3>2. services = 1
      BY <2>3 DEF IInv, ShellInv
    <3> QED
      BY <3>1, <3>2
  <2>4. pc = "abandoned" /\ _hdmiCecSource # 0 => json
    BY DEF IInv, ShellInv
  <2> QED
    BY <2>1, <2>2, <2>3, <2>4 DEF NothingLeft
<1> QED
  BY <1>1, Invariant, PTL

\* The ASSERT of Deactivated holds: Unregister comes before _service is given up.
THEOREM ServiceStays == Spec => []WatcherHasService
<1>1. IInv => WatcherHasService
  BY DEF IInv, ShellInv, WatcherHasService
<1> QED
  BY <1>1, Invariant, PTL

\* The static functions reach the local object that is up, if none outlived its shell.
THEOREM InstanceStays == Spec => []InstanceIsOurs
<1>1. IInv => InstanceIsOurs
  BY DEF IInv, InstanceInv, InstanceIsOurs
<1> QED
  BY <1>1, Invariant, PTL

-------------------------------------------------------------------------------
(* A death that was noticed.                                                     *)

\* The connection of the shell that is closed is with the framework, with Deactivated
\* or in a job.
DeathKnown == pc \in {"configure", "register", "up"} /\ _connectionId \notin remote \cup {0}
                => _connectionId \in closed \cup jobs \/ watcher = _connectionId

\* The death of the process is never lost while the plugin comes up or is up: not when
\* it dies before Initialize has returned, nor while Deactivated is busy with another.
THEOREM DeathNotLost == Spec => []DeathKnown
<1>1. Init => DeathKnown
  BY DEF Init, DeathKnown
<1>2. IInv /\ DeathKnown /\ [Next]_vars => DeathKnown'
  <2> SUFFICES ASSUME IInv, DeathKnown, [Next]_vars PROVE DeathKnown'
    OBVIOUS
  <2> USE DEF IInv, ShellInv, DeathKnown, members, world, managers, news, heard
  <2>1. CASE InitializeStarts \/ Deactivate \/ RunJob
    BY <2>1 DEF InitializeStarts, Deactivate, RunJob, DeinitializeStarts
  <2>2. ASSUME NEW i \in Ids, Root(i) PROVE DeathKnown'
    BY <2>2 DEF Root
  <2>3. CASE RootFails \/ Configure \/ InitializeEnds
    BY <2>3 DEF RootFails, Configure, InitializeEnds
  <2>4. CASE UnregisterClient \/ ReleaseObject \/ Terminate \/ Forget \/ Unhook \/ DeinitializeEnds
    BY <2>4 DEF UnregisterClient, ReleaseObject, Terminate, Forget, Unhook, DeinitializeEnds
  <2>5. CASE Deactivated
    BY <2>5 DEF Deactivated
  <2>6. CASE Submit
    BY <2>6 DEF Submit
  <2>7. ASSUME NEW i \in Ids, ProcessDies(i) PROVE DeathKnown'
    BY <2>7 DEF ProcessDies, Closes
  <2>8. ASSUME NEW i \in Ids, LetGo(i) PROVE DeathKnown'
    BY <2>8 DEF LetGo
  <2>9. ASSUME NEW v \in BOOLEAN, TellStarts(v) \/ Tell(v) PROVE DeathKnown'
    BY <2>9 DEF TellStarts, Tell
  <2>10. CASE Hold
    BY <2>10 DEF Hold
  <2>11. CASE Abandoned \/ UNCHANGED vars
    BY <2>11 DEF Abandoned, vars
  <2> HIDE DEF IInv, DeathKnown
  <2> QED
    BY <2>1, <2>2, <2>3, <2>4, <2>5, <2>6, <2>7, <2>8, <2>9, <2>10, <2>11 DEF Next, Framework
<1> QED
  BY <1>1, <1>2, Invariant, PTL DEF Spec

-------------------------------------------------------------------------------
(* The plugin goes down.  The provers know nothing of ENABLED: that a thread can *)
(* move where one of its guards holds is a hypothesis of the theorem.            *)

FrameworkCanMove == \/ pc \notin {"down", "up", "unhook", "abandoned"}
                    \/ pc = "unhook" /\ watcher = 0

GuardsEnable ==
    /\ FrameworkCanMove => ENABLED <<Framework>>_vars
    /\ jobs # {} /\ pc = "up" => ENABLED <<RunJob>>_vars
    /\ watcher # 0 => ENABLED <<Submit>>_vars

Live == Spec /\ []IInv /\ WF_vars(Framework) /\ WF_vars(RunJob) /\ WF_vars(Submit)
             /\ []GuardsEnable

\* The place of Deinitialize that follows p.
NextPlace(p) == CASE p = "unregister" -> "release"
                  [] p = "release" -> "terminate"
                  [] p = "terminate" -> "forget"
                  [] p = "forget" -> "unhook"
                  [] p = "unhook" -> "leave"
                  [] p = "leave" -> "down"

\* Deinitialize goes on by itself, whoever dies, speaks or lets go meanwhile; once
\* the connection is forgotten Deactivated recognises no other.
LEMMA DeinitializeMoves ==
  ASSUME IInv, [Next]_vars,
         pc \in {"unregister", "release", "terminate", "forget", "unhook", "leave"}
  PROVE  /\ pc' = pc \/ pc' = NextPlace(pc)
         /\ Framework => pc' = NextPlace(pc)
         /\ pc = "unhook" /\ pc' = pc /\ watcher = 0 => watcher' = 0
         /\ pc = "unhook" /\ Submit => watcher' = 0
<1>1. ASSUME Framework PROVE pc' = NextPlace(pc)
  BY <1>1 DEF Framework, Root, RootFails, Configure, InitializeEnds, UnregisterClient,
              ReleaseObject, Terminate, Forget, Unhook, DeinitializeEnds, NextPlace
<1>2. ASSUME pc = "unhook", Submit PROVE watcher' = 0
  BY <1>2 DEF Submit
<1>3. ASSUME Next, ~Framework
      PROVE  pc' = pc /\ (pc = "unhook" /\ watcher = 0 => watcher' = 0)
  <2>1. CASE InitializeStarts \/ Deactivate \/ RunJob
    BY <2>1 DEF InitializeStarts, Deactivate, RunJob, DeinitializeStarts
  <2>2. CASE Deactivated
    BY <2>2, IdAssumption DEF Deactivated, IInv, TypeInv, ShellInv
  <2>3. CASE Submit
    BY <2>3 DEF Submit
  <2>4. ASSUME NEW i \in Ids, ProcessDies(i) \/ LetGo(i) PROVE pc' = pc /\ watcher' = watcher
    BY <2>4 DEF ProcessDies, LetGo, news
  <2>5. ASSUME NEW v \in BOOLEAN, Hold \/ TellStarts(v) \/ Tell(v)
        PROVE  pc' = pc /\ watcher' = watcher
    BY <2>5 DEF Hold, TellStarts, Tell, news
  <2>6. CASE Abandoned
    BY <2>6 DEF Abandoned
  <2> QED
    BY <1>3, <2>1, <2>2, <2>3, <2>4, <2>5, <2>6 DEF Next
<1>4. ASSUME UNCHANGED vars PROVE pc' = pc /\ watcher' = watcher
  BY <1>4 DEF vars, news
<1> QED
  BY <1>1, <1>2, <1>3, <1>4 DEF NextPlace

\* While the plugin is up the watcher keeps what it has recognised until it has
\* made its job, and a job stays until one is run.
LEMMA UpMoves ==
  ASSUME IInv, [Next]_vars, pc = "up"
  PROVE  /\ pc' \in {"up", "unregister", "abandoned"}
         /\ watcher # 0 => pc' # "up" \/ watcher' = watcher \/ jobs' # {}
         /\ watcher # 0 /\ Submit => jobs' # {}
         /\ jobs # {} => pc' # "up" \/ jobs' # {}
         /\ RunJob => pc' # "up"
<1>1. ASSUME Submit PROVE pc' = "up" /\ jobs' # {}
  BY <1>1 DEF Submit
<1>2. ASSUME Deactivate \/ RunJob PROVE pc' \in {"unregister", "abandoned"}
  BY <1>2 DEF Deactivate, RunJob, DeinitializeStarts
<1>3. ASSUME Deactivated PROVE watcher = 0 /\ UNCHANGED <<pc, jobs>>
  BY <1>3 DEF Deactivated
<1>4. ~InitializeStarts /\ ~Framework
  BY DEF InitializeStarts, Framework, Root, RootFails, Configure, InitializeEnds,
         UnregisterClient, ReleaseObject, Terminate, Forget, Unhook, DeinitializeEnds
<1>5. ASSUME NEW i \in Ids, ProcessDies(i) \/ LetGo(i) PROVE UNCHANGED <<pc, watcher, jobs>>
  BY <1>5 DEF ProcessDies, LetGo, news
<1>6. ASSUME NEW v \in BOOLEAN, Hold \/ TellStarts(v) \/ Tell(v)
      PROVE  UNCHANGED <<pc, watcher, jobs>>
  BY <1>6 DEF Hold, TellStarts, Tell, news
<1>7. ASSUME UNCHANGED vars PROVE UNCHANGED <<pc, watcher, jobs>>
  BY <1>7 DEF vars, news
<1>8. RunJob => pc' # "up"
  BY <1>2
<1>9. ~Abandoned
  BY DEF Abandoned
<1> QED
  BY <1>1, <1>2, <1>3, <1>4, <1>5, <1>6, <1>7, <1>8, <1>9 DEF Next

At(p) == pc = p
Starts == pc \in {"unregister", "abandoned"}
Recognised == pc = "up" /\ watcher # 0
Asked == pc = "up" /\ jobs # {}
Busy == pc = "unhook" /\ watcher # 0
Quiet == pc = "unhook" /\ watcher = 0

\* Deactivated makes its job, unless the plugin is deactivated before.
LEMMA Submits == Live => (Recognised ~> Asked \/ Starts)
<1>1. IInv /\ Recognised /\ [Next]_vars => (Recognised \/ Asked \/ Starts)'
  BY UpMoves DEF Recognised, Asked, Starts
<1>2. IInv /\ Recognised /\ [Next]_vars /\ <<Submit>>_vars => (Asked \/ Starts)'
  BY UpMoves DEF Recognised, Asked, Starts
<1>3. Recognised => watcher # 0
  BY DEF Recognised, Asked, Starts
<1> QED
  BY <1>1, <1>2, <1>3, PTL DEF Live, Spec, GuardsEnable

\* The job calls Deinitialize.
LEMMA Runs == Live => (Asked ~> Starts)
<1>1. IInv /\ Asked /\ [Next]_vars => (Asked \/ Starts)'
  BY UpMoves DEF Asked, Starts
<1>2. IInv /\ Asked /\ [Next]_vars /\ <<RunJob>>_vars => (Starts)'
  BY UpMoves DEF Asked, Starts
<1>3. Asked => (jobs # {} /\ pc = "up")
  BY DEF Asked, Starts
<1> QED
  BY <1>1, <1>2, <1>3, PTL DEF Live, Spec, GuardsEnable

\* The clients are taken from the lists ...
LEMMA Unregisters == Live => (At("unregister") ~> At("release"))
<1>1. IInv /\ At("unregister") /\ [Next]_vars => (At("unregister") \/ At("release"))'
  BY DeinitializeMoves DEF At, NextPlace, FrameworkCanMove
<1>2. IInv /\ At("unregister") /\ [Next]_vars /\ <<Framework>>_vars => (At("release"))'
  BY DeinitializeMoves DEF At, NextPlace, FrameworkCanMove
<1>3. At("unregister") => FrameworkCanMove
  BY DEF At, NextPlace, FrameworkCanMove
<1> QED
  BY <1>1, <1>2, <1>3, PTL DEF Live, Spec, GuardsEnable

\* ... the object is released ...
LEMMA Releases == Live => (At("release") ~> At("terminate"))
<1>1. IInv /\ At("release") /\ [Next]_vars => (At("release") \/ At("terminate"))'
  BY DeinitializeMoves DEF At, NextPlace, FrameworkCanMove
<1>2. IInv /\ At("release") /\ [Next]_vars /\ <<Framework>>_vars => (At("terminate"))'
  BY DeinitializeMoves DEF At, NextPlace, FrameworkCanMove
<1>3. At("release") => FrameworkCanMove
  BY DEF At, NextPlace, FrameworkCanMove
<1> QED
  BY <1>1, <1>2, <1>3, PTL DEF Live, Spec, GuardsEnable

\* ... its process is terminated ...
LEMMA Terminates == Live => (At("terminate") ~> At("forget"))
<1>1. IInv /\ At("terminate") /\ [Next]_vars => (At("terminate") \/ At("forget"))'
  BY DeinitializeMoves DEF At, NextPlace, FrameworkCanMove
<1>2. IInv /\ At("terminate") /\ [Next]_vars /\ <<Framework>>_vars => (At("forget"))'
  BY DeinitializeMoves DEF At, NextPlace, FrameworkCanMove
<1>3. At("terminate") => FrameworkCanMove
  BY DEF At, NextPlace, FrameworkCanMove
<1> QED
  BY <1>1, <1>2, <1>3, PTL DEF Live, Spec, GuardsEnable

\* ... the connection is forgotten ...
LEMMA Forgets == Live => (At("forget") ~> Busy \/ Quiet)
<1>1. IInv /\ At("forget") /\ [Next]_vars => (At("forget") \/ Busy \/ Quiet)'
  BY DeinitializeMoves DEF At, Busy, Quiet, NextPlace, FrameworkCanMove
<1>2. IInv /\ At("forget") /\ [Next]_vars /\ <<Framework>>_vars => (Busy \/ Quiet)'
  BY DeinitializeMoves DEF At, Busy, Quiet, NextPlace, FrameworkCanMove
<1>3. At("forget") => FrameworkCanMove
  BY DEF At, Busy, Quiet, NextPlace, FrameworkCanMove
<1> QED
  BY <1>1, <1>2, <1>3, PTL DEF Live, Spec, GuardsEnable

\* ... Unregister waits for a Deactivated that is in progress ...
LEMMA Waits == Live => (Busy ~> Quiet \/ At("leave"))
<1>1. IInv /\ Busy /\ [Next]_vars => (Busy \/ Quiet \/ At("leave"))'
  BY DeinitializeMoves DEF Busy, Quiet, At, NextPlace
<1>2. IInv /\ Busy /\ [Next]_vars /\ <<Submit>>_vars => (Quiet \/ At("leave"))'
  BY DeinitializeMoves DEF Busy, Quiet, At, NextPlace
<1>3. Busy => watcher # 0
  BY DEF Busy, Quiet, At, NextPlace
<1> QED
  BY <1>1, <1>2, <1>3, PTL DEF Live, Spec, GuardsEnable

\* ... which is the last one ...
LEMMA Unhooks == Live => (Quiet ~> At("leave"))
<1>1. IInv /\ Quiet /\ [Next]_vars => (Quiet \/ At("leave"))'
  BY DeinitializeMoves DEF Quiet, At, NextPlace, FrameworkCanMove
<1>2. IInv /\ Quiet /\ [Next]_vars /\ <<Framework>>_vars => (At("leave"))'
  BY DeinitializeMoves DEF Quiet, At, NextPlace, FrameworkCanMove
<1>3. Quiet => FrameworkCanMove
  BY DEF Quiet, At, NextPlace, FrameworkCanMove
<1> QED
  BY <1>1, <1>2, <1>3, PTL DEF Live, Spec, GuardsEnable

\* ... and the service is given up.
LEMMA Leaves == Live => (At("leave") ~> At("down"))
<1>1. IInv /\ At("leave") /\ [Next]_vars => (At("leave") \/ At("down"))'
  BY DeinitializeMoves DEF At, NextPlace, FrameworkCanMove
<1>2. IInv /\ At("leave") /\ [Next]_vars /\ <<Framework>>_vars => (At("down"))'
  BY DeinitializeMoves DEF At, NextPlace, FrameworkCanMove
<1>3. At("leave") => FrameworkCanMove
  BY DEF At, NextPlace, FrameworkCanMove
<1> QED
  BY <1>1, <1>2, <1>3, PTL DEF Live, Spec, GuardsEnable

\* A plugin that is up goes down once Deactivated has recognised that its process
\* died, or has asked for the deactivation, whatever comes in between; unless
\* Deinitialize does not find the profile.
THEOREM NoticedGoesDown ==
  FairSpec /\ []GuardsEnable
    => (pc = "up" /\ (watcher # 0 \/ jobs # {}) ~> pc \in {"down", "abandoned"})
<1>1. FairSpec /\ []GuardsEnable => Live
  BY Invariant, PTL DEF FairSpec, Live
<1>2. pc = "up" /\ (watcher # 0 \/ jobs # {}) => Recognised \/ Asked
  BY DEF Recognised, Asked
<1>3. Starts <=> At("unregister") \/ pc = "abandoned"
  BY DEF Starts, At
<1>4. pc \in {"down", "abandoned"} <=> At("down") \/ pc = "abandoned"
  BY DEF At
<1> QED
  BY <1>1, <1>2, <1>3, <1>4, Submits, Runs, Unregisters, Releases, Terminates, Forgets, Waits,
     Unhooks, Leaves, PTL DEF Live
==================================================================================

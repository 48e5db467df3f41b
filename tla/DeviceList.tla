------------------------------- MODULE DeviceList -------------------------------
(***************************************************************************)
(* deviceList and m_numberOfDevices, which addDevice and removeDevice      *)
(* change without a lock from three threads: the poll thread (threadRun,   *)
(* pingDeviceUpdateList), the reader thread of the CEC connection          *)
(* (HdmiCecSourceProcessor::process) and the SetEnabled caller             *)
(* (removeAllCecDevices).  The two functions are split where another       *)
(* thread can come in between: at the test of BIT_DEVICE_PRESENT, at the   *)
(* load and the store of m_numberOfDevices, and at the notification.       *)
(* CECDeviceInfo_2::clear and update are one step each.  Nothing keeps the *)
(* threads apart: raced and crowded say where and when they have met.      *)
(*                                                                         *)
(* The bus is the environment: devices come, go and speak.  Frames wait in *)
(* the connection in the order they were sent.  One caller of SetEnabled   *)
(* at a time is assumed, and that Connection::close and LibCCEC::term wait *)
(* for a frame handler in progress (a property of the CEC library).        *)
(***************************************************************************)
EXTENDS Integers, Sequences, FiniteSets, SequencesExt

CONSTANTS
    UNREGISTERED,   \* 15 in the code: addresses below it are devices
    TunerAddrs,     \* the addresses the CEC library gives a device of our type
    Devices,        \* identities of the other devices
    None,           \* no device, or the default value "NA" of a detail
    Details,        \* what is asked of a device: its OSD name, its vendor ID
    PingFailures,   \* the exceptions ping may throw beside CECNoAckException
    MaxFrames,      \* bound: frames that wait in the connection
    MaxEvents       \* bound: what the environment does in a behaviour

ASSUME AddressAssumption ==
    UNREGISTERED \in Nat \ {0} /\ TunerAddrs \subseteq 0 .. UNREGISTERED - 1
ASSUME DeviceAssumption == None \notin Devices
ASSUME DetailAssumption == IsFiniteSet(Details) /\ "announce" \notin Details
ASSUME PingAssumption == PingFailures \subseteq {"io", "other"}
ASSUME BoundAssumption == MaxFrames \in Nat /\ MaxEvents \in Nat

VARIABLES
    present,    \* the addresses whose BIT_DEVICE_PRESENT is set
    m_numberOfDevices,
    updated,    \* the details of an entry that are marked as updated
    info,       \* the details of an entry
    client,     \* the devices a client knows of from OnDeviceAdded and OnDeviceRemoved
    raced,      \* history: addresses at which two threads changed the table at once
    alone,      \* history: threads that change the table and met nobody at their address
    crowded,    \* history: two threads changed the counter at once since it was reset
    logicalAddress, \* the address of this device
    cecEnableStatus,
    listening,  \* the frame listener is attached to an open connection
    phase,      \* what the SetEnabled caller is doing
    pc, la, tmp,    \* per thread: program counter, address at hand, loaded count
    bus,        \* environment: the device at each address
    frames,     \* environment: frames sent to us and not yet handled
    events      \* bound: events of the environment so far

table == <<present, m_numberOfDevices>>
entries == <<updated, info>>
views == <<client, raced, alone, crowded>>
session == <<logicalAddress, cecEnableStatus, listening, phase>>
local == <<la, tmp>>
world == <<bus, frames, events>>
vars == <<table, entries, views, session, pc, local, world>>

Addrs == 0 .. UNREGISTERED - 1
AllAddrs == 0 .. UNREGISTERED   \* deviceList has an entry for 15 too
Unset == UNREGISTERED + 1       \* the constructor's 0xFF, which is not UNREGISTERED
Threads == {"poll", "frame", "ctl"}

TableSteps == {"addCheck", "addSet", "addCount", "addTell", "ask",
               "remCheck", "remCount", "remClear", "remTell"}
Steps == TableSteps \cup {"none", "idle", "ping", "end"}
Phases == {"idle", "enable", "attached", "greet", "term", "join", "disable"}

InTable(t) == pc[t] \in TableSteps

\* A thread that has passed its test and not yet told the clients.
Changing(t) == pc[t] \in {"addSet", "addCount", "addTell", "remCount", "remClear", "remTell"}

\* A thread between its load and its store of m_numberOfDevices.
Counting(t) == pc[t] \in {"addCount", "remCount"}

\* The threads that change the table at the address of t.
Met(t) == {u \in Threads \ {t} : Changing(u) /\ la[u] = la[t]}

Go(t, l) == pc' = [pc EXCEPT ![t] = l]
At(t, a) == la' = [la EXCEPT ![t] = a]

Occupied == {a \in Addrs : bus[a] # None}

Frame(k, a) == [kind |-> k, from |-> a, dev |-> IF a \in Addrs THEN bus[a] ELSE None]

\* Frames beyond the bound are lost.
Clip(s) == IF Len(s) > MaxFrames THEN SubSeq(s, 1, MaxFrames) ELSE s

\* What the device at a sends when it is asked for the details in D; a request
\* to nobody, or one sent while CEC is disabled, has no answer.
Answer(a, D) ==
    IF cecEnableStatus /\ a \in Occupied
    THEN Clip(frames \o SetToSeq({Frame(d, a) : d \in D}))
    ELSE frames

Empty == [a \in AllAddrs |-> [d \in Details |-> None]]

Init ==
    /\ present = {}
    /\ m_numberOfDevices = 0
    /\ updated = [a \in AllAddrs |-> {}]
    /\ info = Empty
    /\ client = {}
    /\ raced = {} /\ alone = {} /\ crowded = FALSE
    /\ logicalAddress = Unset
    /\ cecEnableStatus = FALSE
    /\ listening = FALSE
    /\ phase = "idle"
    /\ pc = [t \in Threads |-> IF t = "poll" THEN "none" ELSE "idle"]
    /\ la = [t \in Threads |-> 0]
    /\ tmp = [t \in Threads |-> 0]
    /\ bus = [a \in Addrs |-> None]
    /\ frames = <<>>
    /\ events = 0

-------------------------------------------------------------------------------
(* The bus. *)

Event == events < MaxEvents /\ events' = events + 1

Send(f) == frames' = IF listening THEN Clip(Append(frames, f)) ELSE frames

\* A device appears, or another one takes the address over; its announcement
\* may be lost.  The address may be ours too (line 577).
Plug(a, d, announced) ==
    /\ Event
    /\ bus[a] # d
    /\ bus' = [bus EXCEPT ![a] = d]
    /\ IF announced /\ d # None
       THEN Send([kind |-> "announce", from |-> a, dev |-> d])
       ELSE UNCHANGED frames
    /\ UNCHANGED <<table, entries, views, session, pc, local>>

\* A device says something of itself unasked: any frame that makes process call
\* addDevice, or one of its details.  Address 15 is a device without an address.
Speak(a, k) ==
    /\ Event
    /\ a \in Occupied \cup {UNREGISTERED}
    /\ Send(Frame(k, a))
    /\ UNCHANGED <<table, entries, views, session, pc, local, bus>>

\* getLogicalAddress: an exception leaves the address as it is; otherwise the
\* library has a free address for us or none.
NewAddress == logicalAddress' \in {logicalAddress, UNREGISTERED} \cup (TunerAddrs \ Occupied)

\* A hot-plug or a power-on asks for the address again, while CEC is enabled or not.
GetLogicalAddress ==
    /\ Event
    /\ NewAddress
    /\ UNCHANGED <<table, entries, views, cecEnableStatus, listening, phase, pc, local,
                   bus, frames>>

-------------------------------------------------------------------------------
(* History: who meets whom. *)

\* t has passed its test and is going to change the table.
Decide(t) ==
    IF Met(t) = {}
    THEN alone' = alone \cup {t} /\ UNCHANGED raced
    ELSE alone' = alone \ Met(t) /\ raced' = raced \cup {la[t]}

\* t has changed the table and told the clients.  If it met nobody at its address,
\* they agree there again.
Told(t) ==
    /\ raced' = IF t \in alone THEN raced \ {la[t]} ELSE raced
    /\ alone' = alone \ {t}

-------------------------------------------------------------------------------
(* addDevice(la[t]) *)

\* Seeded fault: the entry for the unregistered address is not refused.
AddCheckUnguarded(t) ==
    /\ pc[t] = "addCheck"
    /\ IF la[t] \in present
       THEN Go(t, "ask") /\ UNCHANGED <<raced, alone, crowded>>
       ELSE Go(t, "addSet") /\ Decide(t) /\ crowded' = (crowded \/ Met(t) # {})
    /\ UNCHANGED <<table, entries, client, session, local, world>>

\* Seeded fault: a device that is present already is counted again.
AddCheckAgain(t) ==
    /\ pc[t] = "addCheck"
    /\ IF la[t] >= UNREGISTERED
       THEN Go(t, "end") /\ UNCHANGED <<raced, alone, crowded>>
       ELSE Go(t, "addSet") /\ Decide(t) /\ crowded' = (crowded \/ Met(t) # {})
    /\ UNCHANGED <<table, entries, client, session, local, world>>

AddCheck(t) ==
    /\ pc[t] = "addCheck"
    /\ \/ /\ la[t] >= UNREGISTERED \/ la[t] \in present
          /\ Go(t, IF la[t] \in present THEN "ask" ELSE "end")
          /\ UNCHANGED <<raced, alone, crowded>>
       \/ /\ la[t] < UNREGISTERED /\ la[t] \notin present
          /\ Go(t, "addSet")
          /\ Decide(t) /\ crowded' = (crowded \/ Met(t) # {})
    /\ UNCHANGED <<table, entries, client, session, local, world>>

\* The bit is set and the counter loaded for its increment ...
AddSet(t) ==
    /\ pc[t] = "addSet"
    /\ present' = present \cup {la[t]}
    /\ tmp' = [tmp EXCEPT ![t] = m_numberOfDevices]
    /\ crowded' = (crowded \/ \E u \in Threads : Counting(u))
    /\ Go(t, "addCount")
    /\ UNCHANGED <<m_numberOfDevices, entries, client, raced, alone, session, la, world>>

\* ... which is then stored.
AddCount(t) ==
    /\ pc[t] = "addCount"
    /\ m_numberOfDevices' = tmp[t] + 1
    /\ Go(t, "addTell")
    /\ UNCHANGED <<present, entries, views, session, local, world>>

AddTell(t) ==
    /\ pc[t] = "addTell"
    /\ client' = client \cup {la[t]}
    /\ Told(t)
    /\ Go(t, "ask")
    /\ UNCHANGED <<table, entries, crowded, session, local, world>>

\* requestCecDevDetails, for a device that was present before too.
Ask(t) ==
    /\ pc[t] = "ask"
    /\ frames' = Answer(la[t], Details)
    /\ Go(t, "end")
    /\ UNCHANGED <<table, entries, views, session, local, bus, events>>

-------------------------------------------------------------------------------
(* removeDevice(la[t]) *)

RemCheck(t) ==
    /\ pc[t] = "remCheck"
    /\ \/ /\ la[t] \in present
          /\ tmp' = [tmp EXCEPT ![t] = m_numberOfDevices]
          /\ Go(t, "remCount")
          /\ Decide(t)
          /\ crowded' = (crowded \/ Met(t) # {} \/ \E u \in Threads : Counting(u))
       \/ /\ la[t] \notin present
          /\ Go(t, "end")
          /\ UNCHANGED <<tmp, raced, alone, crowded>>
    /\ UNCHANGED <<table, entries, client, session, la, world>>

RemCount(t) ==
    /\ pc[t] = "remCount"
    /\ m_numberOfDevices' = tmp[t] - 1
    /\ Go(t, "remClear")
    /\ UNCHANGED <<present, entries, views, session, local, world>>

\* Seeded fault: a device that goes is not announced.
RemClearSilent(t) ==
    /\ pc[t] = "remClear"
    /\ present' = present \ {la[t]}
    /\ updated' = [updated EXCEPT ![la[t]] = {}]
    /\ info' = [info EXCEPT ![la[t]] = [d \in Details |-> None]]
    /\ Told(t)
    /\ Go(t, "end")
    /\ UNCHANGED <<m_numberOfDevices, client, crowded, session, local, world>>

\* CECDeviceInfo_2::clear
RemClear(t) ==
    /\ pc[t] = "remClear"
    /\ present' = present \ {la[t]}
    /\ updated' = [updated EXCEPT ![la[t]] = {}]
    /\ info' = [info EXCEPT ![la[t]] = [d \in Details |-> None]]
    /\ Go(t, "remTell")
    /\ UNCHANGED <<m_numberOfDevices, views, session, local, world>>

RemTell(t) ==
    /\ pc[t] = "remTell"
    /\ client' = client \ {la[t]}
    /\ Told(t)
    /\ Go(t, "end")
    /\ UNCHANGED <<table, entries, crowded, session, local, world>>

-------------------------------------------------------------------------------
(* The poll thread. *)

\* Seeded fault: the scan leaves the TV out.
TriggerFromOne ==
    /\ pc["poll"] = "idle"
    /\ phase # "join"
    /\ Go("poll", "ping")
    /\ At("poll", 1)
    /\ UNCHANGED <<table, entries, views, session, tmp, world>>

\* A signal on m_condSig (GetDeviceList, a hot-plug, a power change) or a
\* spurious wake-up starts a scan.
Trigger ==
    /\ pc["poll"] = "idle"
    /\ phase # "join"
    /\ Go("poll", "ping")
    /\ At("poll", 0)
    /\ UNCHANGED <<table, entries, views, session, tmp, world>>

\* pingDeviceUpdateList: the own address is not pinged, and without an own
\* address nobody is.
PingSkipped ==
    /\ pc["poll"] = "ping"
    /\ la["poll"] = logicalAddress \/ logicalAddress = UNREGISTERED
    /\ Go("poll", "end")
    /\ UNCHANGED <<table, entries, views, session, local, world>>

Pinged ==
    /\ pc["poll"] = "ping"
    /\ la["poll"] # logicalAddress /\ logicalAddress # UNREGISTERED
    /\ UNCHANGED <<table, entries, views, session, local, bus, frames>>

PingAck ==
    /\ Pinged
    /\ la["poll"] \in Occupied
    /\ Go("poll", IF la["poll"] \in present THEN "end" ELSE "addCheck")
    /\ UNCHANGED events

\* Seeded fault: a missing acknowledge of a known device is ignored.
PingNoAckIgnored ==
    /\ Pinged
    /\ la["poll"] \notin Occupied
    /\ Go("poll", "end")
    /\ UNCHANGED events

PingNoAck ==
    /\ Pinged
    /\ la["poll"] \notin Occupied
    /\ Go("poll", IF la["poll"] \in present THEN "remCheck" ELSE "end")
    /\ UNCHANGED events

PingIOException ==
    /\ "io" \in PingFailures
    /\ Pinged
    /\ Event
    /\ Go("poll", "remCheck")

\* Any other exception is logged, and control reaches the code for an ACK.
PingException ==
    /\ "other" \in PingFailures
    /\ Pinged
    /\ Event
    /\ Go("poll", IF la["poll"] \in present THEN "end" ELSE "addCheck")

\* The next address, or the wait for a signal after the last one or after the
\* exit request of CECDisable.
PollNext ==
    /\ pc["poll"] = "end"
    /\ IF la["poll"] + 1 < UNREGISTERED /\ phase # "join"
       THEN Go("poll", "ping") /\ At("poll", la["poll"] + 1)
       ELSE Go("poll", "idle") /\ UNCHANGED la
    /\ UNCHANGED <<table, entries, views, session, tmp, world>>

\* The update thread asks a present device for a detail it does not have.
UpdateCheck(a, d) ==
    /\ pc["poll"] # "none"
    /\ a \in present
    /\ d \notin updated[a]
    /\ Len(frames) < MaxFrames
    /\ frames' = Answer(a, {d})
    /\ UNCHANGED <<table, entries, views, session, pc, local, bus, events>>

-------------------------------------------------------------------------------
(* The reader thread of the connection. *)

\* ActiveSource, CECVersion, ReportPhysicalAddress and ReportPowerStatus.
HandleAnnounce ==
    /\ listening /\ pc["frame"] = "idle"
    /\ frames # <<>> /\ Head(frames).kind = "announce"
    /\ frames' = Tail(frames)
    /\ Go("frame", "addCheck")
    /\ At("frame", Head(frames).from)
    /\ UNCHANGED <<table, entries, views, session, tmp, bus, events>>

\* SetOSDName and DeviceVendorID: the entry is written whether present or not.
HandleDetail ==
    /\ listening /\ pc["frame"] = "idle"
    /\ frames # <<>> /\ Head(frames).kind \in Details
    /\ LET f == Head(frames) IN
          /\ updated' = [updated EXCEPT ![f.from] = @ \cup {f.kind}]
          /\ info' = [info EXCEPT ![f.from][f.kind] = f.dev]
    /\ frames' = Tail(frames)
    /\ UNCHANGED <<table, views, session, pc, local, bus, events>>

FrameDone ==
    /\ pc["frame"] = "end"
    /\ Go("frame", "idle")
    /\ UNCHANGED <<table, entries, views, session, local, world>>

-------------------------------------------------------------------------------
(* The SetEnabled caller. *)

\* CECEnable asks for the address and clears the table before it opens the
\* connection.
CECEnable ==
    /\ phase = "idle" /\ ~cecEnableStatus
    /\ NewAddress
    /\ phase' = "enable"
    /\ Go("ctl", "remCheck")
    /\ At("ctl", 0)
    /\ UNCHANGED <<table, entries, views, cecEnableStatus, listening, tmp, world>>

\* removeAllCecDevices goes on with the next address.
RemoveNext ==
    /\ pc["ctl"] = "end"
    /\ la["ctl"] + 1 < UNREGISTERED
    /\ Go("ctl", "remCheck")
    /\ At("ctl", la["ctl"] + 1)
    /\ UNCHANGED <<table, entries, views, session, tmp, world>>

RemovedAll == pc["ctl"] = "end" /\ la["ctl"] + 1 >= UNREGISTERED

\* Seeded fault: the counter is not reset.
OpenConnectionOnly ==
    /\ phase = "enable" /\ RemovedAll
    /\ listening' = TRUE
    /\ phase' = "attached"
    /\ Go("ctl", "idle")
    /\ UNCHANGED <<table, entries, views, cecEnableStatus, logicalAddress, local, world>>

\* m_numberOfDevices = 0, the connection is opened and the listener attached.
OpenConnection ==
    /\ phase = "enable" /\ RemovedAll
    /\ m_numberOfDevices' = 0
    /\ crowded' = FALSE
    /\ listening' = TRUE
    /\ phase' = "attached"
    /\ Go("ctl", "idle")
    /\ UNCHANGED <<present, entries, client, raced, alone, cecEnableStatus, logicalAddress,
                   local, world>>

\* The connection cannot be opened: nothing was attached.
OpenFails ==
    /\ phase = "enable" /\ RemovedAll
    /\ m_numberOfDevices' = 0
    /\ crowded' = FALSE
    /\ phase' = "idle"
    /\ Go("ctl", "idle")
    /\ UNCHANGED <<present, entries, client, raced, alone, cecEnableStatus, listening,
                   logicalAddress, local, world>>

\* Frames that came before it were handled without a request for details.
SetEnableStatus ==
    /\ phase = "attached"
    /\ cecEnableStatus' = TRUE
    /\ phase' = "greet"
    /\ UNCHANGED <<table, entries, views, listening, logicalAddress, pc, local, world>>

\* The first messages are sent and the poll thread starts with a scan.
StartPolling ==
    /\ phase = "greet"
    /\ phase' = "idle"
    /\ pc' = [pc EXCEPT !["poll"] = "ping"]
    /\ At("poll", 0)
    /\ UNCHANGED <<table, entries, views, cecEnableStatus, listening, logicalAddress, tmp, world>>

\* One of them cannot be sent: the rollback deletes the connection, whatever
\* the reader thread is doing, and leaves the table as it is ...
GreetFails ==
    /\ phase = "greet"
    /\ cecEnableStatus' = FALSE
    /\ listening' = FALSE
    /\ frames' = <<>>
    /\ phase' = "term"
    /\ UNCHANGED <<table, entries, views, logicalAddress, pc, local, bus, events>>

\* ... and ends with LibCCEC::term.
Terminate ==
    /\ phase = "term"
    /\ pc["frame"] = "idle"
    /\ phase' = "idle"
    /\ UNCHANGED <<table, entries, views, cecEnableStatus, listening, logicalAddress, pc,
                   local, world>>

CECDisable ==
    /\ phase = "idle" /\ cecEnableStatus
    /\ phase' = "join"
    /\ UNCHANGED <<table, entries, views, cecEnableStatus, listening, logicalAddress, pc, local, world>>

\* The poll thread is joined and the table cleared, with the listener attached.
JoinPoll ==
    /\ phase = "join"
    /\ pc["poll"] = "idle"
    /\ phase' = "disable"
    /\ pc' = [pc EXCEPT !["poll"] = "none", !["ctl"] = "remCheck"]
    /\ At("ctl", 0)
    /\ UNCHANGED <<table, entries, views, cecEnableStatus, listening, logicalAddress, tmp, world>>

CloseConnection ==
    /\ phase = "disable" /\ RemovedAll
    /\ pc["frame"] = "idle"
    /\ listening' = FALSE
    /\ frames' = <<>>
    /\ cecEnableStatus' = FALSE
    /\ phase' = "idle"
    /\ Go("ctl", "idle")
    /\ UNCHANGED <<table, entries, views, logicalAddress, local, bus, events>>

-------------------------------------------------------------------------------
Environment == \/ \E a \in Addrs, d \in Devices \cup {None}, announced \in BOOLEAN :
                     Plug(a, d, announced)
               \/ \E a \in AllAddrs, k \in Details \cup {"announce"} : Speak(a, k)
               \/ GetLogicalAddress

TableStep(t) == \/ AddCheck(t) \/ AddSet(t) \/ AddCount(t) \/ AddTell(t) \/ Ask(t)
                \/ RemCheck(t) \/ RemCount(t) \/ RemClear(t) \/ RemTell(t)

PollThread == \/ TableStep("poll")
              \/ PingSkipped \/ PingAck \/ PingNoAck \/ PingIOException \/ PingException
              \/ PollNext

FrameThread == \/ TableStep("frame")
               \/ HandleAnnounce \/ HandleDetail \/ FrameDone

UpdateThread == \E a \in Addrs, d \in Details : UpdateCheck(a, d)

Controller == \/ TableStep("ctl")
              \/ RemoveNext \/ OpenConnection \/ OpenFails
              \/ SetEnableStatus \/ StartPolling \/ GreetFails \/ Terminate \/ JoinPoll \/ CloseConnection

Next == \/ Environment
        \/ Trigger \/ CECEnable \/ CECDisable
        \/ PollThread \/ FrameThread \/ UpdateThread \/ Controller

Spec == Init /\ [][Next]_vars

\* Threads that can move are scheduled in the end.
Fairness == WF_vars(PollThread) /\ WF_vars(FrameThread)
                /\ WF_vars(UpdateThread) /\ WF_vars(Controller)

FairSpec == Spec /\ Fairness

-------------------------------------------------------------------------------
(* Properties. *)

TypeOK ==
    /\ present \subseteq Addrs
    /\ m_numberOfDevices \in Int
    /\ updated \in [AllAddrs -> SUBSET Details]
    /\ info \in [AllAddrs -> [Details -> Devices \cup {None}]]
    /\ client \subseteq Addrs
    /\ raced \subseteq Addrs /\ alone \subseteq Threads /\ crowded \in BOOLEAN
    /\ logicalAddress \in 0 .. Unset
    /\ cecEnableStatus \in BOOLEAN
    /\ listening \in BOOLEAN
    /\ phase \in Phases
    /\ pc \in [Threads -> Steps]
    /\ la \in [Threads -> AllAddrs]
    /\ tmp \in [Threads -> Int]
    /\ bus \in [Addrs -> Devices \cup {None}]
    /\ frames \in Seq([kind : Details \cup {"announce"}, from : AllAddrs,
                       dev : Devices \cup {None}])
    /\ events \in Nat

AtRest == \A t \in Threads : ~InTable(t)

\* The threads that change the table at a.
ChangedBy(a) == {t \in Threads : Changing(t) /\ la[t] = a}

\* Whenever no thread is inside the table, the counter is the number of devices,
\* unless two threads counted, or changed one address, at once since CECEnable reset it.
CountMatches == AtRest /\ ~crowded => m_numberOfDevices = Cardinality(present)

\* A client that follows OnDeviceAdded and OnDeviceRemoved knows of each address
\* what GetDeviceList reports, unless somebody is about to tell it or two threads
\* met there and nobody has changed it alone since.
ClientViewMatches ==
    \A a \in Addrs \ raced : ChangedBy(a) = {} => (a \in client) = (a \in present)

\* OnDeviceAdded is sent only for a device that clients do not know yet, and
\* OnDeviceRemoved only for one they know, unless two threads met at its address.
NotificationsAlternate ==
    \A t \in Threads : la[t] \notin raced =>
        /\ pc[t] = "addTell" => la[t] \notin client
        /\ pc[t] = "remTell" => la[t] \in client

\* Across polls, frames, rollbacks and sessions the counter, the clients and the
\* notifications go wrong only where two threads have really met, and stay right
\* at every other address.
WrongOnlyIfRaced == CountMatches /\ ClientViewMatches /\ NotificationsAlternate

Table == INSTANCE DeviceTable WITH table <- present, known <- client, Addrs <- Addrs

\* addDevice and removeDevice implement DeviceTable: no device is added or removed
\* at an address while a change there has not been told, unless two threads meet
\* there, and a change that meets nobody makes good what they left.
ImplementsTable == Table!Spec

\* "Thread-safe device state management using mutexes and condition variables":
\* whenever no thread is inside the table, counter and clients agree with it, and
\* no device is announced twice. The claim makes no exception for threads that meet.
ThreadSafeTable ==
    /\ AtRest => (m_numberOfDevices = Cardinality(present) /\ client = present)
    /\ \A t \in Threads : /\ pc[t] = "addTell" => la[t] \notin client
                          /\ pc[t] = "remTell" => la[t] \in client

\* "Clear stale devices before opening connection to prevent race with incoming
\* CEC messages": when the listener is attached the table is empty and the
\* counter zero, whatever the last session left behind.
SessionStartsClean ==
    [][~listening /\ listening' => present' = {} /\ m_numberOfDevices' = 0]_vars

\* The addresses of other devices at which the table and the bus differ.
Wrong == {a \in Addrs \ {logicalAddress} : (a \in present) # (a \in Occupied)}

\* t is not about to act on an answer or an announcement that the bus has
\* overtaken.
Timely(t) ==
    /\ pc[t] \in {"addCheck", "addSet"} => la[t] \in Occupied \cup {UNREGISTERED}
    /\ pc[t] \in {"remCheck", "remCount", "remClear"} => la[t] \notin Occupied

\* SetEnabled is not at work, and nothing outdated is on its way to the table.
Calm ==
    /\ phase = "idle"
    /\ \A t \in Threads : Timely(t)
    /\ \A i \in DOMAIN frames :
          frames[i].kind = "announce" => frames[i].from \in Occupied \cup {UNREGISTERED}

\* The addresses that the scan has dealt with.
Passed == {a \in Addrs :
              \/ a < la["poll"]
              \/ /\ a = la["poll"]
                 /\ pc["poll"] \in {"addCount", "addTell", "ask", "remTell", "end", "idle"}}

\* The table is right as far as the scan has come; without an own address
\* nobody is pinged.
Swept == logicalAddress # UNREGISTERED /\ Passed \cap Wrong = {}

\* While the bus is left alone, no step of the threads makes the table wrong at
\* another address, however they overlap, and a scan leaves it right wherever it
\* has passed, in the end everywhere.
ScanHeals ==
    [][Calm /\ UNCHANGED <<phase, events>> =>
          /\ Calm' /\ Wrong' \subseteq Wrong
          /\ Swept \/ (Trigger /\ logicalAddress # UNREGISTERED) => Swept'
          /\ Swept /\ pc["poll"] = "end" /\ pc'["poll"] = "idle" => Wrong' = {}]_vars

\* CEC stays enabled and something goes on triggering scans.
Polled == <>[](phase = "idle" /\ cecEnableStatus) /\ []<><<Trigger>>_vars

\* Once the bus is stable (its events are bounded), we have an address and scans go
\* on, the table ends up with exactly the other devices that answer, whatever
\* overlaps, errors and changes of our address there were before.
SelfHealing ==
    (Polled /\ <>[](logicalAddress # UNREGISTERED))
        => <>[](AtRest => present \ {logicalAddress} = Occupied \ {logicalAddress})
===============================================================================

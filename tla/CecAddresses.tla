------------------------------ MODULE CecAddresses ------------------------------
(***************************************************************************)
(* What the device tells the bus about itself: physical and logical        *)
(* address, vendor ID and power status.  getPhysicalAddress,               *)
(* getLogicalAddress and the EDID are read by Configure, CECEnable, the    *)
(* hot-plug threads and the power callback, which then announce what they  *)
(* find, while the message processor answers queries over its own copy of  *)
(* the connection.  A message is made in one step and sent in a later one, *)
(* for sendTo waits for the bus.                                           *)
(*                                                                         *)
(* One activation of the plugin, one SetEnabled at a time; CECDisable and  *)
(* the rollback are one step here (CecThreads has their parts).  The       *)
(* addresses that the driver answers change when a display is plugged in   *)
(* and when the device wakes up.  A message made for a connection that is  *)
(* deleted before it is sent is lost.                                      *)
(***************************************************************************)
EXTENDS Integers, Sequences, FiniteSets

CONSTANTS
    HotPlugs,       \* the detached hot-plug threads that may run at once
    Displays,       \* the displays: a physical address each, and are they from LG
    Logical,        \* logical addresses that the adapter may get
    NoAddress,      \* 0F:0F:0F:0F, the value before the first fetch
    MaxEvents,      \* bound: what display and power manager do in a behaviour
    MaxActive       \* bound: actors at work at once

UNREGISTERED == 15
Unset == 255            \* what Configure stores
None == -1              \* no connection

ASSUME AddressAssumption == /\ Logical \subseteq 0 .. UNREGISTERED
                            /\ \A d \in Displays : d.physical # NoAddress /\ d.lg \in BOOLEAN
                            /\ {"power", "reader", "api"} \cap HotPlugs = {}
                            /\ {MaxEvents, MaxActive} \subseteq Nat

VARIABLES
    driver,             \* what the library and the display answer now
    mode, modes,        \* is the power mode ON; the changes on their way to the callback
    events,             \* bound: events so far
    physical_addr, logicalAddress, isLGTvConnected, powerState,
    cecEnableStatus,
    source,             \* the initiator of smConnection
    conn,               \* the initiator of the message processor's copy
    step, text,         \* per actor: its next step, and the message it has made
    heard, vendor,      \* the last ReportPhysicalAddress and DeviceVendorID of the session
    crossed,            \* history: an actor started beside another, or something failed
    moved, overtaken,   \* history: the address changed since, or while, the connection was made
    unread, raced       \* history: an EDID not read, GetPowerState failed or overtaken

environment == <<driver, mode, modes, events>>
addresses == <<physical_addr, logicalAddress>>
connection == <<cecEnableStatus, source, conn>>
bus == <<heard, vendor>>
history == <<crossed, moved, overtaken, unread, raced>>
vars == <<environment, addresses, isLGTvConnected, powerState, connection, step, text, bus, history>>

Actors == HotPlugs \cup {"power", "reader", "api"}
Nothing == <<>>
Answers == [display : Displays, logical : Logical]
Physical == {d.physical : d \in Displays}
Busy == {a \in Actors : step[a] # "idle"}

Init ==
    /\ driver \in Answers
    /\ mode \in BOOLEAN /\ modes = <<>> /\ events = 0
    /\ physical_addr = NoAddress /\ logicalAddress = Unset
    /\ isLGTvConnected = FALSE /\ powerState = FALSE
    /\ cecEnableStatus = FALSE /\ source = None /\ conn = None
    /\ step = [a \in Actors |-> IF a = "api" THEN "edid" ELSE "idle"]
    /\ text = [a \in Actors |-> Nothing]
    /\ heard = Nothing /\ vendor = Nothing
    /\ crossed = FALSE /\ moved = FALSE /\ overtaken = FALSE
    /\ unread = TRUE /\ raced = FALSE

Go(a, s) == step' = [step EXCEPT ![a] = s]

\* A handler that brings everything up to date ends a disturbance, if it is alone.
Start(a, s, renews) ==
    /\ step[a] = "idle" /\ Cardinality(Busy) < MaxActive
    /\ Go(a, s)
    /\ crossed' = (Busy # {} \/ (crossed /\ ~renews))

Failed == crossed' = TRUE

-------------------------------------------------------------------------------
(* Display and power manager *)

Event == events < MaxEvents /\ events' = events + 1

\* A display is plugged in; without CEC the event is dropped.
Plug ==
    /\ Event
    /\ \E now \in Answers : driver' = now
    /\ unread' = TRUE
    /\ IF cecEnableStatus
       THEN \E h \in HotPlugs : Start(h, "physical", TRUE)
       ELSE crossed' = (crossed \/ step["api"] # "idle") /\ UNCHANGED step
    /\ UNCHANGED <<mode, modes, addresses, isLGTvConnected, powerState,
                   connection, text, bus, moved, overtaken, raced>>

\* The adapter may come back from a sleep with another logical address.
ChangeMode ==
    /\ Event
    /\ mode' = ~mode
    /\ \E l \in Logical : driver' = [driver EXCEPT !.logical = IF mode THEN @ ELSE l]
    /\ modes' = Append(modes, mode')
    /\ UNCHANGED <<addresses, isLGTvConnected, powerState, connection, step, text, bus, history>>

\* A seeded fault: like the hot-plug event, dropped without CEC.
OnPowerModeChangedIfEnabled ==
    /\ modes # <<>>
    /\ Start("power", IF Head(modes) /\ cecEnableStatus THEN "logical" ELSE "idle", FALSE)
    /\ modes' = Tail(modes)
    /\ powerState' = IF cecEnableStatus THEN Head(modes) ELSE powerState
    /\ raced' = (step["api"] = "power")
    /\ UNCHANGED <<driver, mode, events, addresses, isLGTvConnected, connection, text,
                   bus, moved, overtaken, unread>>

OnPowerModeChanged ==
    /\ modes # <<>>
    /\ Start("power", IF Head(modes) THEN "logical" ELSE "idle", FALSE)
    /\ modes' = Tail(modes)
    /\ powerState' = Head(modes)
    /\ raced' = (step["api"] = "power")
    /\ UNCHANGED <<driver, mode, events, addresses, isLGTvConnected, connection, text,
                   bus, moved, overtaken, unread>>

-------------------------------------------------------------------------------
(* Fetching, by CECEnable, a hot-plug thread or the power callback *)

\* The library may throw, which leaves the old address in use.
GetPhysicalAddress(a) ==
    /\ step[a] = "physical"
    /\ Go(a, "logical")
    /\ \/ physical_addr' = driver.display.physical /\ UNCHANGED crossed
       \/ Failed /\ UNCHANGED physical_addr
    /\ UNCHANGED <<environment, logicalAddress, isLGTvConnected, powerState, connection, text,
                   bus, moved, overtaken, unread, raced>>

Fetched(a) == CASE a \in HotPlugs -> "edid" [] a = "power" -> "test" [] a = "api" -> "create"

GetLogicalAddress(a) ==
    /\ step[a] = "logical"
    /\ \/ /\ driver.logical # logicalAddress
          /\ logicalAddress' = driver.logical
          /\ moved' = (source # None \/ step["api"] = "publish")
          /\ overtaken' = (overtaken \/ step["api"] = "publish")
          /\ Go(a, "source")
          /\ UNCHANGED crossed
       \/ /\ driver.logical = logicalAddress
          /\ Go(a, Fetched(a))
          /\ UNCHANGED <<logicalAddress, crossed, moved, overtaken>>
       \/ /\ Failed
          /\ Go(a, Fetched(a))
          /\ UNCHANGED <<logicalAddress, moved, overtaken>>
    /\ UNCHANGED <<environment, physical_addr, isLGTvConnected, powerState, connection, text,
                   bus, unread, raced>>

\* A seeded fault: the test is of cecEnableStatus, which follows the connection.
SetSourceIfEnabled(a) ==
    /\ step[a] = "source"
    /\ Go(a, Fetched(a))
    /\ source' = IF cecEnableStatus THEN logicalAddress ELSE source
    /\ UNCHANGED <<environment, addresses, isLGTvConnected, powerState, cecEnableStatus, conn,
                   text, bus, history>>

SetSource(a) ==
    /\ step[a] = "source"
    /\ Go(a, Fetched(a))
    /\ source' = IF source = None THEN None ELSE logicalAddress
    /\ UNCHANGED <<environment, addresses, isLGTvConnected, powerState, cecEnableStatus, conn,
                   text, bus, history>>

ReadEDID(a) ==
    /\ step[a] = "edid"
    /\ Go(a, IF a = "api" THEN "mode" ELSE "test")
    /\ \/ /\ isLGTvConnected' = (isLGTvConnected \/ driver.display.lg)
          /\ unread' = FALSE
       \/ UNCHANGED <<isLGTvConnected, unread>>
    /\ UNCHANGED <<environment, addresses, powerState, connection, text, bus,
                   crossed, moved, overtaken, raced>>

-------------------------------------------------------------------------------
(* Announcing *)

\* The callback also looks at cecEnableStatus and at its own address.
MayAnnounce(a) ==
    /\ source # None
    /\ a = "power" => cecEnableStatus /\ logicalAddress # UNREGISTERED

Make(a, message) == text' = [text EXCEPT ![a] = message]
Report == <<physical_addr, logicalAddress>>
VendorID == <<isLGTvConnected>>

\* A seeded fault: the address is announced only once in a session.
AnnounceOnce(a) ==
    /\ step[a] = "test"
    /\ Go(a, IF MayAnnounce(a) /\ heard = Nothing THEN "report" ELSE "idle")
    /\ Make(a, IF MayAnnounce(a) /\ heard = Nothing THEN Report ELSE Nothing)
    /\ UNCHANGED <<environment, addresses, isLGTvConnected, powerState, connection, bus, history>>

Announce(a) ==
    /\ step[a] = "test"
    /\ Go(a, IF MayAnnounce(a) THEN "report" ELSE "idle")
    /\ Make(a, IF MayAnnounce(a) THEN Report ELSE Nothing)
    /\ UNCHANGED <<environment, addresses, isLGTvConnected, powerState, connection, bus, history>>

\* GivePhysicalAddress or GiveDeviceVendorID, while the listener is attached.
Query ==
    /\ conn # None
    /\ \/ Start("reader", "report", FALSE) /\ Make("reader", Report)
       \/ Start("reader", "vendor", FALSE) /\ Make("reader", VendorID)
    /\ UNCHANGED <<environment, addresses, isLGTvConnected, powerState, connection, bus,
                   moved, overtaken, unread, raced>>

\* A seeded fault: the first message is sent again in place of the vendor ID.
SendReportAgain(a) ==
    /\ step[a] = "report"
    /\ heard' = IF source = None THEN heard ELSE text[a]
    /\ Go(a, IF a = "reader" THEN "idle" ELSE "vendor")
    /\ UNCHANGED <<environment, addresses, isLGTvConnected, powerState, connection, text, vendor,
                   history>>

\* The answer to a query is one message; a handler goes on to the vendor ID.
SendReport(a) ==
    /\ step[a] = "report"
    /\ \/ /\ heard' = IF source = None THEN heard ELSE text[a]
          /\ \/ a = "reader" /\ Go(a, "idle") /\ Make(a, Nothing)
             \/ a # "reader" /\ Go(a, "vendor") /\ Make(a, VendorID)
          /\ UNCHANGED crossed
       \/ Failed /\ Go(a, "idle") /\ Make(a, Nothing) /\ UNCHANGED heard
    /\ UNCHANGED <<environment, addresses, isLGTvConnected, powerState, connection, vendor,
                   moved, overtaken, unread, raced>>

SendVendorID(a) ==
    /\ step[a] = "vendor"
    /\ a # "api"
    /\ Make(a, Nothing)
    /\ Go(a, "idle")
    /\ \/ vendor' = (IF source = None THEN vendor ELSE text[a]) /\ UNCHANGED crossed
       \/ Failed /\ UNCHANGED vendor
    /\ UNCHANGED <<environment, addresses, isLGTvConnected, powerState, connection, heard,
                   moved, overtaken, unread, raced>>

-------------------------------------------------------------------------------
(* Configure, CECEnable and CECDisable *)

\* The callback is registered already: it may come between the answer of the
\* power manager and what Configure makes of it.
GetPowerState ==
    /\ step["api"] = "mode"
    /\ \/ Make("api", <<mode>>) /\ UNCHANGED raced
       \/ raced' = TRUE /\ UNCHANGED text              \* no answer
    /\ Go("api", "power")
    /\ UNCHANGED <<environment, addresses, isLGTvConnected, powerState, connection, bus,
                   crossed, moved, overtaken, unread>>

\* ... and CEC is enabled, if cecSettingEnabled.
Configured ==
    /\ step["api"] = "power"
    /\ powerState' = IF text["api"] = Nothing THEN powerState ELSE text["api"][1]
    /\ Make("api", Nothing)
    /\ \E s \in {"physical", "idle"} : Go("api", s)
    /\ UNCHANGED <<environment, addresses, isLGTvConnected, connection, bus, history>>

CECEnable ==
    /\ ~cecEnableStatus
    /\ Start("api", "physical", TRUE)
    /\ UNCHANGED <<environment, addresses, isLGTvConnected, powerState, connection, text, bus,
                   moved, overtaken, unread, raced>>

\* new Connection(logicalAddress): read here, published in the next step.
NewConnection ==
    /\ step["api"] = "create"
    /\ Make("api", <<logicalAddress>>)
    /\ Go("api", "publish")
    /\ moved' = FALSE /\ overtaken' = FALSE
    /\ UNCHANGED <<environment, addresses, isLGTvConnected, powerState, connection, bus,
                   crossed, unread, raced>>

Publish ==
    /\ step["api"] = "publish"
    /\ source' = text["api"][1]
    /\ Make("api", Nothing)
    /\ Go("api", "processor")
    /\ UNCHANGED <<environment, addresses, isLGTvConnected, powerState, cecEnableStatus, conn,
                   bus, history>>

NoSession ==
    /\ cecEnableStatus' = FALSE /\ source' = None /\ conn' = None
    /\ heard' = Nothing /\ vendor' = Nothing
    /\ crossed' = FALSE /\ moved' = FALSE /\ overtaken' = FALSE

\* open, the message processor and the listener; an exception rolls back.
OpenConnection ==
    /\ step["api"] = "processor"
    /\ \/ /\ conn' = source
          /\ cecEnableStatus' = TRUE
          /\ Go("api", "vendor")
          /\ Make("api", VendorID)
          /\ UNCHANGED <<source, bus, crossed, moved, overtaken>>
       \/ NoSession /\ Go("api", "idle") /\ UNCHANGED text
    /\ UNCHANGED <<environment, addresses, isLGTvConnected, powerState, unread, raced>>

\* The last of the first messages; an exception of any of them rolls back.
GreetBus ==
    /\ step["api"] = "vendor"
    /\ Make("api", Nothing)
    /\ Go("api", "idle")
    /\ \/ vendor' = text["api"] /\ UNCHANGED <<connection, heard, crossed, moved, overtaken>>
       \/ NoSession
    /\ UNCHANGED <<environment, addresses, isLGTvConnected, powerState, unread, raced>>

CECDisable ==
    /\ cecEnableStatus
    /\ step["api"] = "idle"
    /\ NoSession
    /\ UNCHANGED <<environment, addresses, isLGTvConnected, powerState, step, text, unread, raced>>

Act(a) ==
    \/ GetPhysicalAddress(a) \/ GetLogicalAddress(a) \/ SetSource(a) \/ ReadEDID(a)
    \/ Announce(a) \/ SendReport(a) \/ SendVendorID(a)

API ==
    \/ GetPowerState \/ Configured
    \/ CECEnable \/ NewConnection \/ Publish \/ OpenConnection \/ GreetBus \/ CECDisable

Next ==
    \/ Plug \/ ChangeMode \/ OnPowerModeChanged \/ Query \/ API
    \/ \E a \in Actors : Act(a)

Spec == Init /\ [][Next]_vars

-------------------------------------------------------------------------------
(* Properties *)

\* Type correctness: what is announced is a pair of own addresses, and a
\* connection has an address the adapter once had, or the unset one.
TypeOK ==
    /\ driver \in Answers /\ mode \in BOOLEAN
    /\ modes \in Seq(BOOLEAN) /\ events \in 0 .. MaxEvents
    /\ physical_addr \in Physical \cup {NoAddress}
    /\ logicalAddress \in Logical \cup {Unset}
    /\ {isLGTvConnected, powerState, cecEnableStatus} \subseteq BOOLEAN
    /\ {source, conn} \subseteq Logical \cup {Unset, None}
    /\ \A a \in Actors :
          step[a] \in {"idle", "physical", "logical", "source", "edid", "test", "report",
                       "vendor", "mode", "power", "create", "publish", "processor"}
    /\ heard = Nothing \/ heard \in (Physical \cup {NoAddress}) \X (Logical \cup {Unset})
    /\ vendor = Nothing \/ \E b \in BOOLEAN : vendor = <<b>>
    /\ {crossed, moved, overtaken, unread, raced} \subseteq BOOLEAN

\* getLogicalAddress brings the initiator of smConnection up to date,
\* whichever thread fetches the address, unless it does so in the window in
\* which CECEnable makes the connection; and the processor's copy is right as
\* long as the address has not changed since the connection was made.
InitiatorIsOwn ==
    (\A a \in Actors : step[a] # "source") =>
        /\ source # None /\ ~overtaken => source = logicalAddress
        /\ conn # None /\ ~moved => conn = logicalAddress

Quiet == Busy = {} /\ modes = <<>> /\ ~crossed

\* The addresses heard are the driver's (resumeCecStack says nothing without a
\* logical address).
AddressFitsDriver ==
    heard # Nothing /\ logicalAddress # UNREGISTERED =>
        heard = <<driver.display.physical, driver.logical>>

\* A display of LG whose EDID could be read has been sent the vendor ID it expects.
\* (Nothing resets isLGTvConnected: any later display gets that vendor ID too.)
VendorFitsDisplay ==
    vendor # Nothing /\ ~unread /\ driver.display.lg => vendor = <<TRUE>>

\* Once the handlers are done, what the bus heard last is what driver and display
\* call for now, after any number of hot-plugs, wake-ups and answers, if none of
\* them overlapped or failed since the last complete one.
AnnouncedIsCurrent == Quiet => AddressFitsDriver /\ VendorFitsDisplay

\* GiveDevicePowerStatus is answered with the mode of the power manager once
\* Configure has read it and the callbacks have come, whatever happens to CEC in
\* between, unless Configure had no answer, or the last callback came while it held one.
PowerStatusIsCurrent ==
    modes = <<>> /\ ~raced /\ step["api"] \notin {"edid", "mode", "power"}
        => powerState = mode
===============================================================================

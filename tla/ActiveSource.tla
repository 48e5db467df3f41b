------------------------------ MODULE ActiveSource ------------------------------
(***************************************************************************)
(* isDeviceActiveSource and physical_addr: who believes to be shown on the *)
(* display, and who is.  Both are plain variables which the reader thread  *)
(* (process), a detached thread per hot-plug, PerformOTPAction and         *)
(* CECEnable write without a lock.                                         *)
(*                                                                         *)
(* The display is the environment: it gives this device a physical address *)
(* when the cable is plugged, and shows the address of the last claim, by  *)
(* ActiveSource, RoutingChange, RoutingInformation or SetStreamPath.       *)
(* SetEnabled and PerformOTPAction are assumed not to overlap where        *)
(* CECDisable or the rollback deletes the connection.  Connection::close   *)
(* and LibCCEC::term wait for a frame handler in progress, the deletion    *)
(* of the listener in the rollback does not.                               *)
(*                                                                         *)
(* An event reads isDeviceActiveSource and then calls the client: reader   *)
(* and hot-plug threads can load in one order and deliver in the other.    *)
(* One client stands for all of them: the status is read for each.         *)
(***************************************************************************)
EXTENDS Integers, Sequences, FiniteSets

CONSTANTS
    Addrs,      \* physical addresses
    NoAddr,     \* F.F.F.F: unplugged, or nobody is shown
    Workers,    \* the detached hot-plug threads that can exist at a time
    MaxFrames,  \* bound: frames that wait in the connection
    MaxEvents   \* bound: what display, cable and clients do in a behaviour

ASSUME AddressAssumption == NoAddr \notin Addrs /\ "request" \notin Addrs \cup {NoAddr}
ASSUME WorkerAssumption == "ctl" \notin Workers /\ "reader" \notin Workers
ASSUME BoundAssumption == MaxFrames \in Nat /\ MaxEvents \in Nat

VARIABLES
    isDeviceActiveSource,
    physical_addr,
    cecEnableStatus,
    listening,  \* the frame listener is attached to an open connection
    phase,      \* the SetEnabled caller
    reader,     \* the reader thread of the connection
    otp,        \* a caller of PerformOTPAction
    worker,     \* the hot-plug threads
    got,        \* per thread: the address got from the driver
    loaded,     \* per teller of an event: the status it is about to deliver
    told,       \* what OnActiveSourceStatusUpdated said last
    port,       \* environment: the address the display gives us
    claim,      \* environment: the address the display shows
    frames,     \* environment: frames sent to us and not yet handled
    events,     \* bound: events of the environment so far
    silent,     \* history: the status was set without an event since the last load
    older,      \* history: per teller, who loaded before it and has still to deliver
    late,       \* history: tellers with an event that was loaded before one that came first
    overtaken,  \* history: the last event that was delivered came from one of them
    disturbed   \* history: since CEC was enabled something began while something else
                \* was in progress, or the driver failed, or nobody was there to send to

delivery == <<loaded, told, older, late, overtaken>>
status == <<isDeviceActiveSource, silent, delivery>>
address == <<physical_addr, got>>
session == <<cecEnableStatus, listening, phase>>
threads == <<reader, otp, worker>>
display == <<port, claim>>
vars == <<status, address, session, threads, display, frames, events, disturbed>>

Places == Addrs \cup {NoAddr}

Tellers == Workers \cup {"reader"}

\* The tellers between load and delivery.
Delivering == {w \in Workers : worker[w] = "deliver"}
              \cup IF reader = "deliver" THEN {"reader"} ELSE {}

Quiet == /\ phase = "idle" /\ reader = "idle" /\ otp = "idle" /\ frames = <<>>
         /\ \A w \in Workers : worker[w] = "none"

\* The address the display shows when ActiveSource was sent.
Claimed == IF port # NoAddr THEN physical_addr ELSE claim

Init ==
    /\ isDeviceActiveSource = FALSE
    /\ physical_addr = NoAddr
    /\ cecEnableStatus = FALSE
    /\ listening = FALSE
    /\ phase = "idle"
    /\ reader = "idle"
    /\ otp = "idle"
    /\ worker = [w \in Workers |-> "none"]
    /\ got = [p \in Workers \cup {"ctl"} |-> NoAddr]
    /\ loaded = [p \in Tellers |-> FALSE]
    /\ told = FALSE
    /\ port \in Places
    /\ claim \in IF port = NoAddr THEN {NoAddr} ELSE Places
    /\ frames = <<>>
    /\ events = 0
    /\ silent = FALSE
    /\ older = [p \in Tellers |-> {}]
    /\ late = {}
    /\ overtaken = FALSE
    /\ disturbed = FALSE

-------------------------------------------------------------------------------
(* Display and cable. *)

Overlaps == disturbed' = (disturbed \/ ~Quiet)

Event == events < MaxEvents /\ events' = events + 1 /\ Overlaps

\* What the bus carries reaches us if the listener is attached.
Receive(f) == /\ Len(frames) < MaxFrames
              /\ frames' = IF listening THEN Append(frames, f) ELSE frames

\* The display switches to a: to another device, or to this one.
Switch(a) ==
    /\ Event
    /\ port # NoAddr
    /\ claim' = a
    /\ Receive(a)
    /\ UNCHANGED <<status, address, session, threads, port>>

\* RequestActiveSource from the display.
AskWho ==
    /\ Event
    /\ port # NoAddr
    /\ Receive("request")
    /\ UNCHANGED <<status, address, session, threads, display>>

\* OnDisplayHDMIHotPlug: ignored while CEC is disabled.
HotPlug(event) ==
    IF cecEnableStatus
    THEN \E w \in Workers : worker[w] = "none" /\ worker' = [worker EXCEPT ![w] = event]
    ELSE UNCHANGED worker

Unplug ==
    /\ Event
    /\ port # NoAddr
    /\ port' = NoAddr /\ claim' = NoAddr
    /\ HotPlug("disconnected")
    /\ UNCHANGED <<status, address, session, reader, otp, frames>>

\* The cable comes back, perhaps at another input of the display.
Plug(a) ==
    /\ Event
    /\ port = NoAddr
    /\ port' = a /\ claim' \in Places \ {a}
    /\ HotPlug("connected")
    /\ UNCHANGED <<status, address, session, reader, otp, frames>>

-------------------------------------------------------------------------------
(* sendActiveSourceEvent, which reader and hot-plug threads may run at once. *)

\* The status is read when the client is about to be called ...
Load(p) ==
    /\ loaded' = [loaded EXCEPT ![p] = isDeviceActiveSource]
    /\ older' = [older EXCEPT ![p] = Delivering]
    /\ silent' = FALSE
    /\ UNCHANGED <<isDeviceActiveSource, told, late, overtaken>>

\* ... and the call delivers what was read.
Deliver(p) ==
    /\ told' = loaded[p]
    /\ overtaken' = (p \in late)
    /\ late' = (late \cup older[p]) \ {p}
    /\ older' = [q \in Tellers |-> IF q = p THEN {} ELSE older[q] \ {p}]
    /\ loaded' = [loaded EXCEPT ![p] = FALSE]
    /\ UNCHANGED <<isDeviceActiveSource, silent>>

-------------------------------------------------------------------------------
(* The reader thread: HdmiCecSourceProcessor::process. *)

\* ActiveSource, RoutingChange, RoutingInformation and SetStreamPath.
HandleClaim ==
    /\ listening /\ reader = "idle"
    /\ frames # <<>> /\ Head(frames) \in Addrs
    /\ frames' = Tail(frames)
    /\ isDeviceActiveSource' = (Head(frames) = physical_addr)
    /\ reader' = "tell"
    /\ UNCHANGED <<silent, delivery, address, session, otp, worker, display, events,
                   disturbed>>

ReaderLoads ==
    /\ reader = "tell"
    /\ Load("reader")
    /\ reader' = "deliver"
    /\ UNCHANGED <<address, session, otp, worker, display, frames, events, disturbed>>

ReaderDelivers ==
    /\ reader = "deliver"
    /\ Deliver("reader")
    /\ reader' = "idle"
    /\ UNCHANGED <<address, session, otp, worker, display, frames, events, disturbed>>

\* Seeded fault: every request is answered.
HandleAnyRequest ==
    /\ listening /\ reader = "idle"
    /\ frames # <<>> /\ Head(frames) = "request"
    /\ frames' = Tail(frames)
    /\ reader' = "answer"
    /\ UNCHANGED <<status, address, session, otp, worker, display, events, disturbed>>

HandleRequest ==
    /\ listening /\ reader = "idle"
    /\ frames # <<>> /\ Head(frames) = "request"
    /\ frames' = Tail(frames)
    /\ reader' = IF isDeviceActiveSource THEN "answer" ELSE "idle"
    /\ UNCHANGED <<status, address, session, otp, worker, display, events, disturbed>>

\* ActiveSource is broadcast; an exception is only logged.
Answer ==
    /\ reader = "answer"
    /\ claim' = Claimed \/ UNCHANGED claim
    /\ reader' = "idle"
    /\ UNCHANGED <<status, address, session, otp, worker, port, frames, events, disturbed>>

-------------------------------------------------------------------------------
(* PerformOTPAction. *)

\* ImageViewOn is sent; without a display sendTo may throw or not.
OTPStart ==
    /\ events < MaxEvents /\ events' = events + 1
    /\ disturbed' = (disturbed \/ ~Quiet \/ port = NoAddr)
    /\ cecEnableStatus /\ listening /\ otp = "idle"
    /\ otp' = "claim"
    /\ UNCHANGED <<status, address, session, reader, worker, display, frames>>

\* ActiveSource is broadcast.
OTPClaim ==
    /\ otp = "claim"
    /\ claim' = Claimed
    /\ otp' = "set"
    /\ UNCHANGED <<status, address, session, reader, worker, port, frames, events,
                   disturbed>>

\* An exception of sendTo ends the action.
OTPFails ==
    /\ otp = "claim"
    /\ otp' = "idle"
    /\ UNCHANGED <<status, address, session, reader, worker, display, frames, events,
                   disturbed>>

\* The status is set, without an event; what comes after has no effect on it.
OTPSet ==
    /\ otp = "set"
    /\ isDeviceActiveSource' = TRUE
    /\ silent' = TRUE
    /\ otp' = "idle"
    /\ UNCHANGED <<delivery, address, session, reader, worker, display, frames, events,
                   disturbed>>

-------------------------------------------------------------------------------
(* The hot-plug threads: onHdmiHotPlug. *)

\* Seeded fault: clients are not told.
DisconnectedSilently(w) ==
    /\ worker[w] = "disconnected"
    /\ isDeviceActiveSource' = FALSE
    /\ worker' = [worker EXCEPT ![w] = "none"]
    /\ UNCHANGED <<silent, delivery, address, session, reader, otp, display, frames,
                   events, disturbed>>

Disconnected(w) ==
    /\ worker[w] = "disconnected"
    /\ isDeviceActiveSource' = FALSE
    /\ worker' = [worker EXCEPT ![w] = "tell"]
    /\ UNCHANGED <<silent, delivery, address, session, reader, otp, display, frames,
                   events, disturbed>>

WorkerLoads(w) ==
    /\ worker[w] = "tell"
    /\ Load(w)
    /\ worker' = [worker EXCEPT ![w] = "deliver"]
    /\ UNCHANGED <<address, session, reader, otp, display, frames, events, disturbed>>

WorkerDelivers(w) ==
    /\ worker[w] = "deliver"
    /\ Deliver(w)
    /\ worker' = [worker EXCEPT ![w] = "none"]
    /\ UNCHANGED <<address, session, reader, otp, display, frames, events, disturbed>>

\* getPhysicalAddress gets the address from the driver ...
ReadAddress(p) == got' = [got EXCEPT ![p] = port] /\ UNCHANGED physical_addr

\* ... and stores it.
StoreAddress(p) == physical_addr' = got[p] /\ UNCHANGED got

Connected(w) ==
    /\ worker[w] = "connected"
    /\ ReadAddress(w)
    /\ worker' = [worker EXCEPT ![w] = "store"]
    /\ UNCHANGED <<status, session, reader, otp, display, frames, events, disturbed>>

\* Address and vendor ID are announced, which changes no state.
ConnectedStores(w) ==
    /\ worker[w] = "store"
    /\ StoreAddress(w)
    /\ worker' = [worker EXCEPT ![w] = "none"]
    /\ UNCHANGED <<status, session, reader, otp, display, frames, events, disturbed>>

ConnectedReadFails(w) ==
    /\ worker[w] = "connected"
    /\ worker' = [worker EXCEPT ![w] = "none"]
    /\ disturbed' = TRUE
    /\ UNCHANGED <<status, address, session, reader, otp, display, frames, events>>

-------------------------------------------------------------------------------
(* CECEnable and CECDisable. *)

CECEnable ==
    /\ phase = "idle" /\ ~cecEnableStatus
    /\ disturbed' = ~Quiet
    /\ ReadAddress("ctl")
    /\ phase' = "store"
    /\ UNCHANGED <<status, cecEnableStatus, listening, threads, display, frames, events>>

EnableStores ==
    /\ phase = "store"
    /\ \/ StoreAddress("ctl") /\ UNCHANGED disturbed
       \/ disturbed' = TRUE /\ UNCHANGED address
    /\ phase' = "open"
    /\ UNCHANGED <<status, cecEnableStatus, listening, threads, display, frames, events>>

OpenConnection ==
    /\ phase = "open"
    /\ listening' = TRUE
    /\ phase' = "attached"
    /\ UNCHANGED <<status, address, cecEnableStatus, threads, display, frames, events,
                   disturbed>>

OpenFails ==
    /\ phase = "open"
    /\ phase' = "idle"
    /\ UNCHANGED <<status, address, cecEnableStatus, listening, threads, display, frames,
                   events, disturbed>>

\* From here on CEC counts as enabled.
SetEnableStatus ==
    /\ phase = "attached"
    /\ cecEnableStatus' = TRUE
    /\ phase' = "ask"
    /\ UNCHANGED <<status, address, listening, threads, display, frames, events, disturbed>>

\* Seeded fault: an answer is read although nobody is shown.
AnsweredByNobody ==
    /\ phase = "ask"
    /\ phase' = "reset"
    /\ Receive(claim)
    /\ UNCHANGED <<status, address, cecEnableStatus, listening, threads, display, events,
                   disturbed>>

\* RequestActiveSource is sent; the device that is shown may answer.
RequestActiveSource ==
    /\ phase = "ask"
    /\ phase' = "reset"
    /\ \/ UNCHANGED frames
       \/ claim \in Addrs \ {port} /\ Receive(claim)
    /\ UNCHANGED <<status, address, cecEnableStatus, listening, threads, display, events,
                   disturbed>>

\* Seeded fault: the status is kept from the last session.
KeepActive ==
    /\ phase = "reset"
    /\ phase' = "vendor"
    /\ UNCHANGED <<status, address, cecEnableStatus, listening, threads, display, frames,
                   events, disturbed>>

ResetActive ==
    /\ phase = "reset"
    /\ isDeviceActiveSource' = FALSE
    /\ silent' = TRUE
    /\ phase' = "vendor"
    /\ UNCHANGED <<delivery, address, cecEnableStatus, listening, threads, display, frames,
                   events, disturbed>>

\* DeviceVendorID is sent and the worker threads start.
EnableDone ==
    /\ phase = "vendor"
    /\ phase' = "idle"
    /\ UNCHANGED <<status, address, cecEnableStatus, listening, threads, display, frames,
                   events, disturbed>>

\* Listener and processor are deleted: no further frame reaches us.
Detach == /\ listening' = FALSE /\ cecEnableStatus' = FALSE
          /\ frames' = <<>>

\* One of the messages cannot be sent: the rollback, which waits for nobody ...
GreetFails ==
    /\ phase \in {"ask", "vendor"}
    /\ otp = "idle"
    /\ Detach
    /\ phase' = "term"
    /\ UNCHANGED <<status, address, threads, display, events, disturbed>>

\* ... before it terminates libcec.
Terminate ==
    /\ phase = "term" /\ reader = "idle"
    /\ phase' = "idle"
    /\ UNCHANGED <<status, address, cecEnableStatus, listening, threads, display, frames,
                   events, disturbed>>

CECDisable ==
    /\ phase = "idle" /\ cecEnableStatus /\ otp = "idle"
    /\ reader = "idle"
    /\ Overlaps
    /\ Detach
    /\ UNCHANGED <<phase, status, address, threads, display, events>>

-------------------------------------------------------------------------------
Environment == \/ \E a \in Addrs : Switch(a) \/ Plug(a)
               \/ AskWho \/ Unplug

Reader == HandleClaim \/ ReaderLoads \/ ReaderDelivers \/ HandleRequest \/ Answer

PerformOTPAction == OTPStart \/ OTPClaim \/ OTPFails \/ OTPSet

Worker(w) == \/ Disconnected(w) \/ WorkerLoads(w) \/ WorkerDelivers(w)
             \/ Connected(w) \/ ConnectedStores(w) \/ ConnectedReadFails(w)

Controller == \/ CECEnable \/ EnableStores \/ OpenConnection \/ OpenFails
              \/ SetEnableStatus \/ RequestActiveSource \/ ResetActive \/ EnableDone
              \/ GreetFails \/ Terminate \/ CECDisable

Next == \/ Environment \/ Reader \/ PerformOTPAction \/ Controller
        \/ \E w \in Workers : Worker(w)

Spec == Init /\ [][Next]_vars

-------------------------------------------------------------------------------
(* Properties. *)

Flags ==
    /\ isDeviceActiveSource \in BOOLEAN /\ told \in BOOLEAN /\ silent \in BOOLEAN
    /\ loaded \in [Tellers -> BOOLEAN] /\ overtaken \in BOOLEAN
    /\ disturbed \in BOOLEAN /\ cecEnableStatus \in BOOLEAN /\ listening \in BOOLEAN

DataTypes ==
    /\ physical_addr \in Places /\ port \in Places /\ claim \in Places
    /\ got \in [Workers \cup {"ctl"} -> Places]
    /\ phase \in {"idle", "store", "open", "attached", "ask", "reset", "vendor", "term"}
    /\ reader \in {"idle", "tell", "deliver", "answer"}
    /\ otp \in {"idle", "claim", "set"}
    /\ worker \in [Workers -> {"none", "disconnected", "connected", "store", "tell",
                               "deliver"}]
    /\ older \in [Tellers -> SUBSET Tellers] /\ late \subseteq Tellers
    /\ frames \in Seq(Addrs \cup {"request"})
    /\ events \in Nat

TypeOK == Flags /\ DataTypes

\* As long as nothing disturbed since CEC was enabled, GetActiveSourceStatus
\* answers true only if the cable is plugged and the display shows this device.
NeverFalselyActive ==
    Quiet /\ cecEnableStatus /\ ~disturbed /\ isDeviceActiveSource
        => port # NoAddr /\ claim = port

\* Under the same condition RequestActiveSource is answered only by the device
\* that is shown: the answer never takes the display from another one.
AnswerTakesNothing == reader = "answer" /\ ~disturbed => claim = port

\* Whatever overlaps, clients know the status once nothing is in progress, except
\* for changes by PerformOTPAction and CECEnable, which send no event, and except
\* when the event delivered last had been loaded before one that was delivered first.
ClientsInformed == Quiet /\ ~silent /\ ~overtaken => told = isDeviceActiveSource

\* "Fix for getActiveSourceStatus returns status true when hdmi cable removed".
FalseWhenRemoved == Quiet /\ port = NoAddr => ~isDeviceActiveSource
===============================================================================

# Verification of the HdmiCecSource plugin

TLA+ models of `plugin/HdmiCecSourceImplementation.cpp`, `plugin/HdmiCecSource.cpp` and
their headers, TLC configurations that check them on small instances, and TLAPS proofs.
Line numbers below are those of `HdmiCecSourceImplementation.cpp` unless a file is named; the `map` of `PROJECT.json`
gives, for every definition, the lines it stands for.

## 1. The system

The plugin lets a Thunder (WPEFramework) source device (a set-top box) speak
HDMI-CEC. `HdmiCecSource` is the shell Thunder loads; it creates
`HdmiCecSourceImplementation`, which owns everything else. The CEC bus is reached
through `LibCCEC` and a `Connection`, the display through device settings, the
power state through the PowerManager plugin. None of these is in the repository.

| component | state | operations | correct when |
|---|---|---|---|
| key pipeline | `m_SendKeyQueue`, `m_sendKeyEventThreadRun/Exit` | `SendKeyPressEvent`, `threadSendKeyEvent` | an accepted key is sent at most once, in order, a press with its release; the thread can always be stopped |
| device table | `deviceList[16]`, `m_numberOfDevices` | `addDevice`, `removeDevice`, `removeAllCecDevices`, `pingDeviceUpdateList`, `GetDeviceList` | the counter and the notifications agree with the table; the table converges to what is on the bus |
| worker threads | `m_lock`, `m_condSig`, `m_lockUpdate`, `m_condSigUpdate`, exit flags | `threadRun`, `threadUpdateCheck`, the callers that signal them | a trigger is followed by a scan; they end when told to; they use the connection only while it is there |
| enable/disable | `cecEnableStatus`, `smConnection`, `libcecInitStatus` | `SetEnabled`, `CECEnable`, the rollback, `CECDisable` | all or nothing, over any sequence of calls and failures; the call returns |
| frame listener, message processor | a copy of the connection | `notify`, `process` (21 messages) | each message has its effect on the table, the active source and the clients |
| active source | `isDeviceActiveSource` | routing messages, `PerformOTPAction`, hot-plug | clients are told what `GetActiveSourceStatus` answers |
| addresses, vendor | `physical_addr`, `logicalAddress`, `isLGTvConnected`, `appVendorId` | `getPhysicalAddress`, `getLogicalAddress`, resume, hot-plug | the bus ends up with the addresses, vendor ID and power status that are right |
| settings | `cecSettingEnabled`, `cecOTPSettingEnabled`, `osdName`, the file | `loadSettings`, the setters, the destructor | the file has what memory has; what was acknowledged outlives the process |
| notifications | `_hdmiCecSourceNotifications`, `_adminLock` | `Register`, `Unregister`, the events | references balance; a client that is called is alive; each is told once |
| plugin shell | `_service`, `_hdmiCecSource`, `_connectionId` | `Initialize`, `Deinitialize`, `Deactivated`, constructor, destructor | every registration is undone; a dead process is noticed |

### How they interact, and what is hard

Seven kinds of threads meet in one object: JSON-RPC callers, the key thread, the
poll thread, the update thread, the reader thread of the CEC connection (it calls
`notify`), the power callback, and a detached thread per hot-plug.

* `CECEnable` starts the key thread, clears the table, opens the connection,
  attaches the listener, sends the first messages, and starts the update and the
  poll thread; a failure on the way is rolled back. `CECDisable` undoes this in the
  order key thread, update thread, poll thread, table, connection.
* The poll thread keeps `m_lock` during a whole scan and gives it up only in
  `pthread_cond_wait`. `GetDeviceList`, a hot-plug and a power change signal it
  under `m_lock`; it signals the update thread without a lock.
* The table has no lock. The poll thread, the reader and the `SetEnabled` caller
  all call `addDevice` or `removeDevice`.
* Exit flags are plain `bool`s read outside the mutex; the key thread has one
  flag for "there is a key" and "look at the exit flag".
* Own addresses are fetched, and announced, by four kinds of threads without a lock; the
  message processor answers from its own copy of the connection.
* Each setter has a file and a variable to change and no lock around the two.
* Clients are called without `_adminLock`, five of the seven events over the list itself.
* The framework activates and deactivates on one thread, tells of dead processes on
  another, and runs the job that follows on a third.

`PROJECT.json` lists the hazards one by one under `hazards`, at the line where
each bites, with the property that covers it or the reason why none does.

## 2. The modules

### KeyChannel and KeySender: the key pipeline

`KeyChannel` is what the API promises: `Accept` a key, `Handle` the next accepted
one, with an outcome in which a press has its release. `KeySender` is the code.

* The key thread is one program counter, `tpc`: `loop` (1663), `power` (1665),
  `nap` (1695), `lock` (1670), `waiting` (1672), `press` (1690), `release` (1691).
  `m_sendKeyEventMutex` is held over several steps only in `press` and `release`,
  so it is not a variable: `MutexFree` is a function of `tpc`, and what a client
  does under the mutex is one step.
* The `SetEnabled` caller is `cpc`: `start` (1071), `open` (1130), `greet` (1145),
  then `notify` (1206), `join` (1212), `free` (1250); the rollback (1093-1115) does
  the same last three steps. The exit flag is a step before the mutex, as in 1205.
* `SendKeyPressEvent` is possible in every state, as in the code: CEC need not be
  enabled. Requests that fail the validation change nothing.
* `accepted` and `handled` are history variables, the state of `KeyChannel`; the
  refinement mapping is the identity on them and `Keys`.

### DeviceList: the table and who changes it

`addDevice` and `removeDevice` are a chain of steps of a thread `t`, split where
another thread can come in between: the test of the present bit (552, 590), its
set with the load of the counter (554-556), the store of the counter, the
notification, the request for details (578). The three threads are `poll`
(`pingDeviceUpdateList` and the loop of `threadRun`), `frame` (`process`) and `ctl`
(`removeAllCecDevices` in `CECEnable` and `CECDisable`). `client` is the set of
devices a client knows that follows the notifications. Devices come, go and speak
on `bus`; frames reach us in order through `frames`. `logicalAddress` is fetched at each
enable (1052) and each hot-plug or power-on (818-847), may come out as another one or as
`UNREGISTERED`, and stays as it was if the fetch throws: the own address is never pinged (1488),
and without one nobody is (1496). `CECEnable` attaches the listener (1136) before CEC
counts as enabled (1146), and its rollback deletes the listener whatever the reader is
doing; only `LibCCEC::term` behind it waits (`Terminate`).

Nothing keeps the three threads apart, in the code or in the model. Three history variables
record where they met: `raced` has the addresses at which two threads were changing the
table at once, until one changes the address `alone` and tells of it; `crowded` says that two
threads were counting, or changing one address, at once since `CECEnable` reset the counter
(1128). The safety properties are stated for all executions, and exempt what these name.
`DeviceTable` is the abstract table: a change at an address is told before the next one
there is made, but at an address that is raced. `DeviceList` implements it (`ImplementsTable`;
the mapping takes the present devices for `table` and `client` for `known`). The box is awake
in this module: a scan that deep sleep breaks off, and when scans start, are the subject
of `CecThreads`.

### CecThreads: the worker threads

`m_lock` and `m_lockUpdate` are variables that name their holder. `ppc` and `upc`
are the program counters of `threadRun` and `threadUpdateCheck`; `call` that of a
caller that takes `m_lock` to signal: `api` for `GetDeviceList` or a hot-plug
thread, `power` for `onPowerModeChanged`. A signal only reaches a thread that
waits. Before the first enable a mutex holds `Garbage`, for nothing initialises it:
a caller that meets it may block. `pthread_mutex_init` on a mutex in use, and an
unlock by a thread that does not hold it, leave the mutex free, which is what the
default mutex of glibc does. `CallsDuringEnable` says whether a caller may hold
`m_lock` across `CECEnable`. `scanDue` and `updateDue` record that a signal was
sent to a living thread and no scan has begun since.

### ActiveSource: the status and the display

`isDeviceActiveSource` (87) and `physical_addr` are written without a lock by the
reader (`reader`; 132-142 and 243-273), `PerformOTPAction` (`otp`), one detached thread
per hot-plug (`worker`) and `CECEnable` (`phase`). What the code does in two steps is two steps here: the status is set, and read again when the event is sent (142, 892);
it is read (`Load`, the argument of the call at 1793), and the client is called (`Deliver`), so
that two events can be loaded in one order and delivered in the other;
the address is got from the driver, and stored (1283-1284); the claim is sent, and the
status set (1411-1413). The environment is the display: `port` is the address it gives
this device (`NoAddr` without a cable) and `claim` the address it shows, that of the last
claim. `told` is what clients heard last; one client stands for all, for the status is read
for each of them. Three history variables delimit what can be expected: `overtaken` says that
the event delivered last was loaded before one that was delivered first (`older` and `late`
keep the order), `silent` marks a status that was set without an event (1151, 1413), and
`disturbed` that, since CEC was enabled, something began while something else was in
progress, or the driver failed, or `PerformOTPAction` was called without a display.
Frames, hot-plug threads and events of the environment are bounded; enables and disables
are not. The logical address and the vendor ID are left to `CecAddresses`.

### CecAddresses: what the device says of itself

`physical_addr`, `logicalAddress`, `isLGTvConnected` and `powerState` are the code's
variables; `source` is the initiator of `smConnection`, `conn` that of the copy the message
processor was made with (1146). Actors are the hot-plug threads, the power callback, the
message processor and the API thread (`Configure`, `CECEnable`, `CECDisable`). `step` is an
actor's place: `physical` (1283), `logical` (1303), `source` (1310), `edid` (850), `test` (820,
868), `report` (822, 872), `vendor` (828, 878, 1152), and for the API thread `mode` and `power`
(456-458: the answer of the power manager, and its use), `create` and `publish` (1132: the
address is read, the pointer set), `processor` (1133-1146). `sendTo` waits for the bus, so a message is made
in one step (`text`) and heard in another. `driver` is what the library and the display
answer now; it changes with a display (`Plug`) and with a wake-up (`ChangeMode`). `heard`
and `vendor` are the last messages of the session. The history variables delimit the
properties: `crossed` (two actors have been at work together, or a fetch or a message
failed, since the last complete handler began alone), `moved` and `overtaken` (the logical
address changed since, or while, the connection was made), `unread` (no EDID was read
since the display came) and `raced` (the power manager gave no answer, or was overtaken).

### CecSettings: memory and file

`mem` has the four settings, `file` the keys and values of the file. `life` follows the
object: `down`, `destroy` (965), `create` (966), `write` (967-971), `configure` (467), `up`.
Without the IARM bus (478-481) `Configure` goes from `down` to `up` without reading anything
(`ConfigureWithoutIARM`), and reports success all the same.
A setter is one record of `call`: `FirstStep` is its test, then `persist` and `store` in the
order of the code (the flags file first, name and vendor ID memory first), `switch` for
`SetEnabled` (1023-1031) and `return`. Name and vendor ID are variables of the process and
survive the object. `ProcessEnds` is possible at any point. `clash` has the keys that two
setters worked on at once, `unread` those whose value in memory comes from the constructor,
`owed` what was acknowledged without a clash.

### Notifications: the registry

`_hdmiCecSourceNotifications` is the list, `refs` the references on a client by holder (the
list, or a thread with a copy). A teller is a thread that sends an event: `copied` and
`called` for `addDevice` and `removeDevice`, `walk` and `inside` for the five others. The
list of the code is linked: erasing an element leaves a walk where it is unless it was
that element, and then the walk is `lost` in freed memory. An exception of a client is caught
in the loops over a copy (571, 608) and ends a walk (`WalkThrows`; 1778-1823 have no try); it goes
on to the caller of the event, which is not modelled. `due` and `told` are histories
of one event. Clients register, unregister and are let go between any two steps, from
inside a call too.

### PluginLifecycle: the shell and its object

`pc` is the framework thread in `Initialize` and `Deinitialize` (`plugin/HdmiCecSource.cpp`).
Objects and connections share their IDs. An object lives in the framework's process or in
one of its own (`remote`), which may die at any time; `closed` has the deaths of which the
framework has not told, `watcher` the one `Deactivated` is handling, `jobs` the
deactivations it has submitted. `power` and `display` count the registrations of an
object, `services` those on the framework service. `held` are objects that somebody else
keeps: they outlive their shell (`outlived`) and take their registrations with them when
they are let go. `UnRegister` of the display manager may throw, which the destructor
swallows (396-407): the registration is `stranded`. `Deinitialize` returns at its second look at
the profile (108-114) with nothing undone: the shell is `abandoned`, and the framework
thread does no more. `Terminate` (136) may throw, and the process then goes on. An event is on its
way to the shell (`begun`) from the moment its walk turns to it, and may arrive (`Tell`) after
`Unregister`, for the walk takes no lock (`late`).

## 3. Runs

| run | configuration | shows |
|---|---|---|
| keys | `KeySender` | `TypeOK`, `KeysInOrderOnce`, `JoinNeverStuck`, `ImplementsChannel`, `SetEnabledReturns`, `KeysServed` |
| table_safety | `DeviceListSafety` | `TypeOK`, `WrongOnlyIfRaced` (the counter, what clients know and the order of their notifications), `ImplementsTable`, `SessionStartsClean`, `ScanHeals` (what a step may never do while the bus is quiet), with every overlap |
| table_healing | `DeviceListHealing` | `SelfHealing`, with every overlap and with changes of our own address |
| table_thread_safety | `DeviceListThreadSafety` | violation of `ThreadSafeTable`: the reader adds a device while the poll thread removes it |
| threads | `CecThreads` | `TypeOK`, `WorkersHaveConnection`, `AllOrNothing`, `ExitSignalNotLost`, `NobodyStuck`, `SetEnabledReturns`, `ScanFollowsTrigger` |
| threads_activation | `CecThreadsActivation` | violation of `UpdateFollowsScan`: the update signal is lost |
| active_source | `ActiveSource` | `TypeOK`, `NeverFalselyActive`, `AnswerTakesNothing`, `ClientsInformed` |
| active_removed | `ActiveSourceRemoved` | violation of `FalseWhenRemoved`: the status is true without a cable |
| addresses | `CecAddresses` | `TypeOK`, `InitiatorIsOwn`, `AnnouncedIsCurrent` (addresses and vendor ID), `PowerStatusIsCurrent` |
| settings | `CecSettings` | `TypeOK`, `FileMatchesMemory`, `Durable`, `OnOnlyIfSet` |
| notifications | `Notifications` | `TypeOK`, `ReferencesBalanced`, `CalledAlive`, `EveryClientOnce` |
| lifecycle | `PluginLifecycle` | `TypeOK`, `NothingLeft`, `WatcherHasService`, `InstanceIsOurs`, `CrashNoticed` |

Every property of a passing run has a seeded fault in its module (an operator
marked "Seeded fault", just before the action it replaces) that makes the property
fail; `PROJECT.json` pairs them under `mutants`.

**Bounds.** `MaxKeys` is 3: one key in hand, one queued, one posted
during a restart. `MCRequests` has two valid keys, so that order can be told, and
one request for each way validation fails. In `DeviceListSafety` `UNREGISTERED`
is 2: one address can be ours and the other a device's, or both a device's while we have
none, and all three threads can be at one address or at different ones; a detail is asked
for and answered. `DeviceListHealing` has three addresses, so that a scan has one in the middle,
and our own may be taken by another device before we have it. Two events let a device come
and go, or our address change at a device, or one come and a ping fail; enables,
disables, scans and thread steps are not bounded. `MaxFrames` is the length of the
connection's queue; a frame beyond it is lost, as on the bus. `UNREGISTERED` is 2 in
the thread runs, so that a scan can be broken off in the middle; `Retries` 1 leaves
one request per device.
In the active source runs two addresses let this device move between inputs or another
one hold the second, two hot-plug threads and the reader can overtake each other, and four
events are enough for claim, removal, return and a request, and for an event that is loaded
before another and delivered after it.
The table runs divide the faults: I/O errors are in `DeviceListSafety`, false acknowledges
in `DeviceListHealing`.
In `CecAddresses` two events are enough for what the properties tell apart (a display or an
address that changes twice, or once while another handler is at work), two actors at once
for every overlap of a pair; enables, disables and queries are not bounded. The displays
are one of LG and another one, the logical addresses a usable one and `UNREGISTERED`. In
`CecSettings` two callers overlap; a vendor ID of 2 is too large for a `VendorLimit` of 2, as
one above 2^24 is for the code; restarts are not bounded. Setters of different keys share only the
file, where each changes its own key in one step, so two at work are explored beyond their first
common state only if they have one key (`OneKey`); the proofs need no such restriction. In `Notifications` three clients
give one of them a neighbour on either side, and two threads walk or copy at once; nothing
else is bounded. In `PluginLifecycle` two IDs allow an object that is up beside one that has outlived
its shell, or beside a connection whose end is still to be told; activations are not bounded.

**Fairness.** Each thread is weakly fair: the operating system runs a thread that
can run. In `CecThreads`, where threads compete for a mutex again and again, strong
fairness, of each caller by itself, stands for a lock that is got in the end by a thread
that waits for it.
In `PluginLifecycle` the framework goes on with what it has begun, tells of closed
connections and runs its jobs.
Nothing is assumed about clients, the bus, the power manager, spurious wake-ups, or
the start of `SetEnabled`. `SelfHealing` is conditional:
CEC stays enabled and something triggers scans again and again (the code has no
timer that does).

**Deadlock** is checked in every run.

## 4. What the violations show

1. `ThreadSafeTable`: the reader handles a frame of a device and passes the test at 552 while the poll
   thread removes that device (581-592); counter and clients end up different from the table. Two
   threads that both pass the test at 552 are among the other executions that violate it.
2. `UpdateFollowsScan`: the signal at 1640 has no mutex and no predicate.
3. `FalseWhenRemoved`: `OnDisplayHDMIHotPlug` (781) returns while CEC is disabled, and
   `GetActiveSourceStatus` goes on to answer true. With CEC enabled throughout and no
   overlap the status is right (`NeverFalselyActive`).

Other behaviour of the code that a reader may not expect; the models have it, and the
properties are stated around it:

* `CECDisable` clears the table (1248) before it closes the connection (1250): a late frame can add
  a device to the cleared table. `SessionStartsClean` shows that 1127 keeps it from the
  next session.
* `catch(Exception &e)` (1524) falls into the code for an acknowledge;
  `SelfHealing` and `ScanHeals` show that a later scan corrects it.
* A device in the table whose address becomes ours is never pinged again (1488) and stays in
  the list until the next enable; without an address (`UNREGISTERED`) nobody is pinged (1496) and
  nothing heals. `ScanHeals` and `SelfHealing` are stated for the other addresses, and for the
  times in which we have one.
* Two events of the active source may be loaded in one order and delivered in the other: clients
  then keep the older status, with nothing in progress (`ClientsInformed` exempts `overtaken`).
* Without the IARM bus `Configure` reports success with the settings unread, CEC off and the
  defaults in memory; `SetEnabled(false)` or `SetOTPEnabled(false)` is then acknowledged without being
  written, for memory already has it, and a later start that reads the file turns it on again.
* A client that throws from one of the five walks (1778-1823) ends the event for those behind
  it.
* A `Deinitialize` that does not find the profile (`plugin/HdmiCecSource.cpp:108`) undoes nothing.
  `UnRegister` of the display manager may throw in the destructor (396-407), which leaves its
  listener registered for an object that is gone. An event can reach JSON-RPC clients after the
  last `OnActiveSourceStatusUpdated(false)` of `Deinitialize`.
* A device that replaces another at its address is not asked for its details (1726).
* `pthread_mutex_init` (1180) on a mutex that a caller holds lets the exit signal for the
  poll thread be lost. `ExitSignalNotLost` is stated without callers during `CECEnable`.
* The processor's copy of the connection keeps its initiator when the address changes
  (1311), until CEC is enabled again.
* `isLGTvConnected` is never reset (857): every later display gets LG's vendor ID.
* The address and the EDID of a display that is plugged in while CEC is off are not read
  at the event (781): the address is fetched by the next enable, the EDID by the next hot-plug.
* A client that calls `GetDeviceList` from `OnDeviceAdded` on the poll thread locks `m_lock`
  (1454) while that thread holds it.
* `m_lock` is initialised by the first `CECEnable` (1180) only; `GetDeviceList` and a hot-plug lock it
  before that too, which is undefined (`Garbage`). `NobodyStuck` says what holds from then on.
* `m_SendKeyQueue` (696) has no limit; the models bound it.
* Two setters of one key that overlap may leave file and memory different; the next one
  of a name or vendor ID repairs that, the next one of a flag only if it changes memory.
* A crash between 965 and 971 loses the settings.
* The end of a connection that `Terminate` (`plugin/HdmiCecSource.cpp:136`) brings about
  may be told while its ID is still known: the job it leads to can end the next activation.

A remark on the key pipeline: the exit path (1677) clears the run flag with keys
queued, and the next key thread waits for the flag without a look at the queue. Keys
posted before an enable wait until another key is posted; they are not lost and keep
their order (`KeysInOrderOnce`).

## 5. Proofs

`KeySenderProofs` proves, for every set of requests and every number of keys:

* `TypeCorrect`: `Spec => []TypeOK`
* `Ordered`: `Spec => []KeysInOrderOnce`
* `StopNeverHangs`: `Spec => []JoinNeverStuck`
* `Refinement`: `Spec => ImplementsChannel`

The only assumption is `RequestsAssumption` (an address and a key code are naturals,
as `uint32_t` parameters are). The argument is one inductive invariant, `IInv`:

* `KeysInOrderOnce` is inductive with the types.
* `JoinNeverStuck` is not: that the thread is awake during the join depends on what
  both sides did before. `StopInv` adds that from the exit request to the join the
  exit flag stands, and that from the notification to the join the run flag stands
  until the thread has taken it: the thread then finds the predicate true and ends.
* `Refinement` needs that a press which was sent still has its connection at the
  release, `PressKeepsConnection`. `LinkInv` adds that the connection exists only
  while the controller has not yet joined the thread, so nothing frees it between
  the press and the release.

`DeviceListProofs` proves, for every number of addresses, devices, frames and events:

* `TypeCorrect`: `Spec => []TypeOK`
* `StartsClean`: `Spec => SessionStartsClean`
* `CountIsRight`: `Spec => []CountMatches`
* `ClientsAgree`: `Spec => []ClientViewMatches`
* `NoEventTwice`: `Spec => []NotificationsAlternate`
* `TableSafe`: `Spec => []WrongOnlyIfRaced`, the three together
* `TableRefinement`: `Spec => ImplementsTable`
* `ScansRepair`: `Spec => ScanHeals`

All of them hold for every overlap of the threads. The assumptions are those of the
module: the number of addresses is positive, those the library can give us are among
them, `Details` is finite and does not contain the name of
an announcement. Types need `AddrInv`, that `addDevice` goes past its first test only
with an address below `UNREGISTERED`; the requests for details need that the sequence
of a finite set has its elements (`SetToSeqType`). `StartsClean` rests on two
invariants: `SessionInv` says which threads can exist in which phase of `SetEnabled`
(while `CECEnable` clears the table there is no poll thread and no frame handler), and
`ClearedInv` that the addresses which the loop has passed are gone. `CountIsRight`,
`ClientsAgree` and `NoEventTwice`, the parts of `TableSafe`, share `BalanceInv`. Its parts are `MeetInv`
(two threads that change the table at one address have marked it as raced, and neither
counts as alone), `ViewInv` (a thread that is alone finds at its address, at each place of `addDevice` and
`removeDevice`, what it left there, `Stage`; and where nobody is at work clients know the
table) and `CountInv` (unless the counter is crowded it is the number of the devices already
or still counted, and the one thread between its load and its store has loaded it). None of
the three is about a serialised program: a thread may change one address while others
change other addresses, or meet it at the same one.

`TableRefinement` uses `BalanceInv` again: where an address is not raced its one thread is between
the change and its event, so `table` and `known` differ there, and nowhere where a change is made.
In `ScansRepair`, while the bus is left alone and no frame or
answer of an earlier bus is on its way (`Calm`), an address is `Wrong` if the table and the bus
disagree about it. No step makes another address wrong, and what a scan has passed stays
right (`Swept`): whatever two threads do to one address at once, they do it towards what
the bus says.

`CecThreadsProofs` proves, for every number of addresses and retries:

* `TypeCorrect`: `Spec => []TypeOK`
* `OnOrOff`: `Spec => []AllOrNothing`
* `ScansConnected`: `Spec => []WorkersHaveConnection`
* `ExitSeen`: `~CallsDuringEnable => (Spec => []ExitSignalNotLost)`
* `NoStuck`: `~CallsDuringEnable => (Spec => []NobodyStuck)`

`PhaseInv` says, for each place of the `SetEnabled` caller, what is switched on and which
of the two threads can exist there: the first three theorems follow. `ExitSeen` needs who
owns `m_lock`: `LockInv` says that the poll thread has it from its test of the exit flag to
its wait, that a caller which holds it is its owner, and that no caller holds it while
`CECEnable` initialises it; `ExitInv` that the exit flag stands from the request to the
join. A request made under the mutex then finds the poll thread before its test, where it
will see the flag, or in its wait, where the signal reaches it. Without the hypothesis the
property fails: `pthread_mutex_init` on a mutex in use frees it. `NoStuck` adds `UpdateInv`, who owns
`m_lockUpdate` at each place of the update thread and that its exit flag stands from the request to
the join: a mutex is then held by a thread that is at work, never by one that waits for another,
and a thread that is joined is in no wait.

`ActiveSourceProofs` proves, for every set of addresses and of hot-plug threads:

* `TypeCorrect`: `Spec => []TypeOK`
* `Informed`: `Spec => []ClientsInformed`
* `NotFalselyActive`: `Spec => []NeverFalselyActive`
* `NoTakeover`: `Spec => []AnswerTakesNothing`

The assumptions: `NoAddr` is no address, a request is not taken for one, and neither "ctl" nor
"reader" names a hot-plug thread. `Informed` rests on `TellInv`: a status that no silent write made
is about to be read for an event (`Telling`), or the event loaded last carries it (`Newest`), or that
event has been delivered and those still to come are late (`Settled`). Every thread that writes
the status reads it again for its event, so the event loaded last is right; whether it is
also the last to be delivered is what `OrderInv` follows. The other two rest on `SerialInv`, which holds while nothing is disturbed:
`OneInv` (one thing is in progress at a time), `KnowInv` (the address is the one of the
port, or a hot-plug thread is about to store it) and `BeliefInv` (the status agrees with
the display, or a claim or a removal is still to be handled). Only `CECEnable` ends a
disturbance, and only from a state in which nothing is in progress; `BeliefInv` then holds
because CEC is not yet enabled, and the reset at 1151 establishes it.

`CecAddressesProofs` proves, for every set of hot-plug threads, displays and addresses and
every value of the bounds:

* `TypeCorrect`: `Spec => []TypeOK`
* `OwnInitiator`: `Spec => []InitiatorIsOwn`
* `BusKnowsDevice`: `Spec => []AnnouncedIsCurrent`
* `PowerStatusRight`: `Spec => []PowerStatusIsCurrent`

The assumption is `AddressAssumption`. `TextInv` and `LinkInv` say what an actor holds at its
place and when there is a connection. `OwnInv` covers the change of an address that is on its
way to the connection; `PowerInv` says that the last change on its way is the mode. The
two announcements need that nothing overlaps: while a session is `Undisturbed`, `AloneInv` has at most one
actor at work, `FetchInv` has the addresses right unless their fetch is to come, and
`HeardInv` and `VendorInv` have them heard unless an announcement is to come. A handler
that begins alone establishes all three, for it begins with the fetch.

`CecSettingsProofs` proves, for every set of callers, names and vendor IDs:

* `TypeCorrect`: `Spec => []TypeOK`
* `FileIsMemory`: `Spec => []FileMatchesMemory`
* `AcknowledgedStays`: `Spec => []Durable`
* `OnIsSet`: `Spec => []OnOnlyIfSet`

The assumptions: `VendorLimit` is positive and the defaults are legal values. None of the
three is inductive. `LifeInv` says what each place in the life of the object means for file and
memory, through the rewrite too, and through a start that reads nothing; `AloneInv` that a key without a clash has one setter at a
time; `StepInv` what that setter has already done at its step; `OwedInv` that what is owed is
in the file, or in what `loadSettings` is about to write; `StatusInv` that a switch-on has its
setting in memory.

`NotificationsProofs` proves, for every set of clients and threads:

* `TypeCorrect`: `Spec => []TypeOK`
* `Balanced`: `Spec => []ReferencesBalanced`
* `AliveInside`: `Spec => []CalledAlive`
* `ToldOnce`: `Spec => []EveryClientOnce`

The assumption is that the list is not a thread. `ListInv`, that no list names a client twice,
makes `ReferencesBalanced` inductive; `AliveInside` follows, for who is called is in a copy or in
the list. `ToldOnce` needs `CopyInv` and `WalkInv`: what an event owes is told or still ahead, and
nobody ahead has been told. A client may throw from any call: in a walk that is inside one, those that would
be left out are exactly the ones behind it. When a client unregisters, the places behind it move up by
one, and the walks behind it with them (`EraseFacts`, `UnregisterFacts`).

`PluginLifecycleProofs` proves, for every set of IDs:

* `TypeCorrect`: `Spec => []TypeOK`
* `DownIsClean`: `Spec => []NothingLeft`
* `ServiceStays`: `Spec => []WatcherHasService`
* `InstanceStays`: `Spec => []InstanceIsOurs`
* `DeathNotLost`: `Spec => []DeathKnown`

The assumption is that 0 is no ID. `ShellInv` lists what the shell has at each place of
`Initialize` and `Deinitialize`, and that `Deactivated` runs only while it is hooked; `ObjectInv`
that an object lives by the shell or by another holder, and that one which is gone has
left nothing but a stranded registration; `InstanceInv` that a local object which
is held by others is the shell's own, unless one has outlived it; `ToldInv` that clients
have been told from `Deinitialize` on, unless an event came late.

**Progress.** The provers know nothing of `ENABLED`, so weak and strong fairness say nothing
to them until something says when an action can be taken. Three modules state this as
`GuardsEnable`: each guard in it (`PollCanMove`, `KeyCanMove`, `FrameworkCanMove`, ...) is read off the
disjuncts of the action, and implies that the action is enabled. `[]GuardsEnable` is a
hypothesis of every theorem of this paragraph. It is one about the notation, not about the
program: a guard of `GuardsEnable` that holds where the action cannot be taken would be a slip of
reading, and TLC, given `GuardsEnable` as one more invariant (of the proof module) in the instances
of runs `keys`, `threads` and `lifecycle`, finds it true in every state. The
proofs go place by place: a lemma says what a step can do at a place, that a step of the
fair thread leaves it, and temporal logic chains the places.

* `KeySenderProofs`: `Returns` (a call of `SetEnabled` returns) needs of the invariant that the
  thread which is asked to end finds the exit flag, from any place. `NextKeyServed`: for every `k`, if
  the thread lives and is asked to run, key `k + 1` is handled, unless the thread is told to
  end or the device sleeps.
* `CecThreadsProofs`: `Returns` and `TriggersAnswered`, both for `~CallsDuringEnable`. The update and the poll
  thread near their ends (`UpdateStops`, `PollStops`) or, after a trigger, the next scan (`DueMoves`).
  Where one of them needs a mutex, `NobodyStuck` says that it is free or held by a thread which
  frees it (`LockFreeOrHeld`), and strong fairness does the rest. `DueInv` says where the poll thread
  can be while a trigger is unanswered: not in its wait.
* `PluginLifecycleProofs`: `NoticedGoesDown`: a plugin that is up goes down once `Deactivated` has
  recognised the end of its process, unless it is left abandoned. That the end of the process always reaches `Deactivated` or the
  framework, and is not lost while the plugin comes up, is `DeathNotLost`, which needs no fairness.

**Only model-checked:**

* `KeysServed`: it follows from `NextKeyServed` by induction over the number of keys.
* `SelfHealing`: it follows from `ScansRepair` by induction over the addresses that a scan passes.
* `CrashNoticed`: `DeathNotLost` and `NoticedGoesDown` leave open that the framework comes to a given
  connection among those closed, an induction over a finite set.
* `GuardsEnable`, as said.

Induction with a temporal formula is beyond the provers, as is `ENABLED`.

## 6. Assumptions about code outside the repository

* `Connection::close` and `LibCCEC::term` return after a frame handler in progress (`DeviceList`,
  `ActiveSource`); the deletion of the listener in the rollback does not wait.
* `TunerAddrs`: the library gives this device an address that no device of the bus has, or none;
  another device may take the address later (`DeviceList`).
* `PerformOTPAction` is not in progress where the connection is deleted (`ActiveSource`);
  the code does not ensure it. In `CecAddresses` a message made for a connection that is
  deleted before it is sent is lost.
* Frames of one connection are handled one at a time, in order.
* The default mutex of the C library, as described for `CecThreads`.
* One caller of `SetEnabled` at a time (all modules but `CecSettings`): the code does not
  ensure it.
* `sendTo` in the key thread does not throw; it would end the process.
* `Utils::persistJsonSettings` sets one key of the file in one step; nobody else writes or
  removes the file. No setter is in progress when the object is destroyed in an orderly
  way (`CecSettings`).
* A client counts its references, and its object is gone with the last one
  (`Notifications`).
* The framework activates and deactivates one thing at a time and does not return from
  `Unregister` while it is telling of a closed connection; a call to an object whose
  process is dead has no effect; after a `Deinitialize` that returned at 108-114 the framework does no
  more with the shell (`PluginLifecycle`).

## 7. Not modelled

* `Module.cpp`, `Module.h`, the build: no state. The tests: read as documentation.
* What two `SetEnabled` calls do together to the threads they start and join: undefined
  behaviour of `std::thread`. What they do to the setting is in `CecSettings`.
* Callbacks and detached threads that run into the destruction of their object or into a
  deleted connection: undefined behaviour with no state left to describe.
* The messages of `process` that answer with constants (CEC version, feature abort) or the OSD
  name: they change no state.
* The encoding of CEC frames (the CEC library), the JSON of the settings file, logs.
* Walks over the list of clients that are lost in freed memory, beyond the fact that
  they may end anywhere (`WalkAstray`).

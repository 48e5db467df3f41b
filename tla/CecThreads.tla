------------------------------- MODULE CecThreads -------------------------------
(***************************************************************************)
(* How CECEnable and CECDisable start and stop the poll thread (threadRun) *)
(* and the update thread (threadUpdateCheck), and how these two wait for   *)
(* work.  Each waits on a POSIX condition variable with a mutex it keeps   *)
(* during a whole scan; GetDeviceList, the hot-plug thread and the power   *)
(* callback take m_lock to wake the poll thread, which wakes the update    *)
(* thread without a lock.  Every CECEnable initialises both mutexes anew.  *)
(*                                                                         *)
(* pthread_mutex_init and pthread_mutex_unlock leave the mutex free        *)
(* whoever holds it, as the default mutex of the C library does.  The key  *)
(* thread is in KeySender and the device table in DeviceList; one caller   *)
(* of SetEnabled at a time is assumed.                                     *)
(***************************************************************************)
EXTENDS Naturals

CONSTANTS
    UNREGISTERED,        \* 15 in the code: the length of a scan
    Retries,             \* 5 in the code: requests to a device in one scan
    CallsDuringEnable    \* may a caller hold m_lock while CECEnable runs?

ASSUME ScanAssumption == UNREGISTERED \in Nat \ {0} /\ Retries \in Nat \ {0}
ASSUME CallsAssumption == CallsDuringEnable \in BOOLEAN

VARIABLES
    cecEnableStatus,
    smConnection,        \* TRUE iff the pointer is not null
    libcecInitStatus,
    m_pollThreadExit, m_updateThreadExit,
    m_lock, m_lockUpdate,   \* the holder of each mutex
    deepSleep,              \* devicePowerState is STANDBY_DEEP_SLEEP
    cpc,                    \* program counter of the SetEnabled caller
    ppc, pi, found,         \* poll thread: counter, address, was a device found?
    upc, ui, itr,           \* update thread: counter, address, requests made
    call,                   \* per caller that wakes the poll thread: its counter
    scanDue,                \* history: a signal for the poll thread is not answered yet
    updateDue               \* history: the same for the update thread

switch == <<cecEnableStatus, smConnection, libcecInitStatus>>
exits == <<m_pollThreadExit, m_updateThreadExit>>
locks == <<m_lock, m_lockUpdate>>
poll == <<ppc, pi, found>>
update == <<upc, ui, itr>>
due == <<scanDue, updateDue>>
vars == <<switch, exits, locks, deepSleep, cpc, poll, update, call, due>>

Callers == {"api", "power"}   \* GetDeviceList or hot-plug, and the power callback

Free == "free"
Garbage == "garbage"   \* a mutex that was never initialised

PollStates == {"none", "lock", "test", "scan", "signal", "wait", "waiting",
               "nap", "done"}
UpdateStates == {"none", "lock", "test", "waiting", "relock", "scan", "nap", "done"}
ControllerStates == {"idle", "open", "greet", "startUpdate", "startPoll",
                     "stopUpdate", "joinUpdate", "askPoll", "stopPoll", "joinPoll",
                     "close"}

\* A signal on m_condSig and one on m_condSigUpdate: only a waiting thread gets it.
SignalPoll == ppc' = IF ppc = "waiting" THEN "lock" ELSE ppc
SignalUpdate == upc' = IF upc = "waiting" THEN "relock" ELSE upc

Init ==
    /\ cecEnableStatus = FALSE
    /\ smConnection = FALSE
    /\ libcecInitStatus = 0
    /\ m_pollThreadExit = FALSE
    /\ m_updateThreadExit = FALSE
    /\ m_lock \in {Free, Garbage}
    /\ m_lockUpdate = Garbage
    /\ deepSleep \in BOOLEAN
    /\ cpc = "idle"
    /\ ppc = "none" /\ pi = 0 /\ found = FALSE
    /\ upc = "none" /\ ui = 0 /\ itr = 0
    /\ call = [c \in Callers |-> "idle"]
    /\ scanDue = FALSE
    /\ updateDue = FALSE

-------------------------------------------------------------------------------
(* Callers that wake the poll thread. *)

\* Is the calling order one that leaves CECEnable and m_lock apart?
Apart == CallsDuringEnable
            \/ cpc \notin {"open", "greet", "startUpdate", "startPoll"}

\* GetDeviceList wakes the poll thread in any case, a hot-plug event only if
\* CEC is enabled.
APICall ==
    /\ call["api"] = "idle"
    /\ call' = [call EXCEPT !["api"] = "want"]
    /\ UNCHANGED <<switch, exits, locks, deepSleep, cpc, poll, update, due>>

\* onPowerModeChanged stores the new state, which need not change deepSleep, and
\* resumes the CEC stack ...
OnPowerModeChanged ==
    /\ call["power"] = "idle"
    /\ deepSleep' \in BOOLEAN
    /\ call' = [call EXCEPT !["power"] = "stored"]
    /\ UNCHANGED <<switch, exits, locks, cpc, poll, update, due>>

\* ... and looks at cecEnableStatus only then.
PowerDecides ==
    /\ call["power"] = "stored"
    /\ call' = [call EXCEPT !["power"] = IF cecEnableStatus THEN "want" ELSE "idle"]
    /\ UNCHANGED <<switch, exits, locks, deepSleep, cpc, poll, update, due>>

\* Seeded fault: the signal is sent without m_lock.
CallSignalsUnlocked(c) ==
    /\ call[c] = "want"
    /\ Apart
    /\ SignalPoll
    /\ scanDue' = (ppc \notin {"none", "done"})
    /\ call' = [call EXCEPT ![c] = "idle"]
    /\ UNCHANGED <<switch, exits, locks, deepSleep, cpc, pi, found, update, updateDue>>

CallLock(c) ==
    /\ call[c] = "want"
    /\ m_lock = Free
    /\ Apart
    /\ m_lock' = c
    /\ SignalPoll
    /\ scanDue' = (ppc \notin {"none", "done"})
    /\ call' = [call EXCEPT ![c] = "held"]
    /\ UNCHANGED <<switch, exits, m_lockUpdate, deepSleep, cpc, pi, found, update,
                   updateDue>>

CallUnlock(c) ==
    /\ call[c] = "held"
    /\ m_lock' = Free
    /\ call' = [call EXCEPT ![c] = "idle"]
    /\ UNCHANGED <<switch, exits, m_lockUpdate, deepSleep, cpc, poll, update, due>>

-------------------------------------------------------------------------------
(* The poll thread. *)

PollLock ==
    /\ ppc = "lock"
    /\ m_lock = Free
    /\ m_lock' = "poll"
    /\ ppc' = "test"
    /\ UNCHANGED <<switch, exits, m_lockUpdate, deepSleep, cpc, pi, found, update,
                   call, due>>

\* Seeded fault: the thread returns with the mutex.
PollEndsLocked ==
    /\ ppc = "test"
    /\ m_pollThreadExit
    /\ ppc' = "done"
    /\ UNCHANGED <<switch, exits, locks, deepSleep, cpc, pi, found, update, call, due>>

PollEnds ==
    /\ ppc = "test"
    /\ m_pollThreadExit
    /\ m_lock' = Free
    /\ ppc' = "done"
    /\ UNCHANGED <<switch, exits, m_lockUpdate, deepSleep, cpc, pi, found, update,
                   call, due>>

ScanStarts ==
    /\ ppc = "test"
    /\ ~m_pollThreadExit
    /\ ~deepSleep
    /\ ppc' = "scan"
    /\ pi' = 0
    /\ found' = FALSE
    /\ scanDue' = FALSE
    /\ UNCHANGED <<switch, exits, locks, deepSleep, cpc, update, call, updateDue>>

PollNaps ==
    /\ ppc = "test"
    /\ ~m_pollThreadExit
    /\ deepSleep
    /\ m_lock' = Free
    /\ ppc' = "nap"
    /\ UNCHANGED <<switch, exits, m_lockUpdate, deepSleep, cpc, pi, found, update,
                   call, due>>

PollNapEnds ==
    /\ ppc = "nap"
    /\ ppc' = "lock"
    /\ UNCHANGED <<switch, exits, locks, deepSleep, cpc, pi, found, update, call, due>>

\* Seeded fault: the scan goes one address too far.
PingTooFar(connected) ==
    /\ ppc = "scan"
    /\ found' = (found \/ connected)
    /\ IF pi = UNREGISTERED \/ m_pollThreadExit \/ deepSleep
       THEN ppc' = "signal" /\ UNCHANGED pi
       ELSE pi' = pi + 1 /\ UNCHANGED ppc
    /\ UNCHANGED <<switch, exits, locks, deepSleep, cpc, update, call, due>>

\* One ping; the scan is broken off by the exit request and by deep sleep.
Ping(connected) ==
    /\ ppc = "scan"
    /\ found' = (found \/ connected)
    /\ IF pi + 1 = UNREGISTERED \/ m_pollThreadExit \/ deepSleep
       THEN ppc' = "signal" /\ UNCHANGED pi
       ELSE pi' = pi + 1 /\ UNCHANGED ppc
    /\ UNCHANGED <<switch, exits, locks, deepSleep, cpc, update, call, due>>

\* The update thread is signalled, without m_lockUpdate, if a device was found.
ActivateUpdate ==
    /\ ppc = "signal"
    /\ ppc' = "wait"
    /\ IF found THEN SignalUpdate /\ updateDue' = (upc \notin {"none", "done"})
                ELSE UNCHANGED <<upc, updateDue>>
    /\ UNCHANGED <<switch, exits, locks, deepSleep, cpc, pi, found, ui, itr, call,
                   scanDue>>

\* Seeded fault: the thread waits without giving the mutex up.
PollWaitsLocked ==
    /\ ppc = "wait"
    /\ ppc' = "waiting"
    /\ UNCHANGED <<switch, exits, locks, deepSleep, cpc, pi, found, update,
                   call, due>>

\* pthread_cond_wait, without another look at m_pollThreadExit.
PollWaits ==
    /\ ppc = "wait"
    /\ m_lock' = Free
    /\ ppc' = "waiting"
    /\ UNCHANGED <<switch, exits, m_lockUpdate, deepSleep, cpc, pi, found, update,
                   call, due>>

PollSpuriousWakeUp ==
    /\ ppc = "waiting"
    /\ ppc' = "lock"
    /\ UNCHANGED <<switch, exits, locks, deepSleep, cpc, pi, found, update, call, due>>

-------------------------------------------------------------------------------
(* The update thread. *)

UpdateLock ==
    /\ upc \in {"lock", "relock"}
    /\ m_lockUpdate = Free
    /\ m_lockUpdate' = "update"
    /\ IF upc = "lock"
       THEN upc' = "test" /\ UNCHANGED <<ui, itr, updateDue>>
       ELSE upc' = "scan" /\ ui' = 0 /\ itr' = 0 /\ updateDue' = FALSE
    /\ UNCHANGED <<switch, exits, m_lock, deepSleep, cpc, poll, call, scanDue>>

UpdateEnds ==
    /\ upc = "test"
    /\ m_updateThreadExit
    /\ m_lockUpdate' = Free
    /\ upc' = "done"
    /\ UNCHANGED <<switch, exits, m_lock, deepSleep, cpc, poll, ui, itr, call, due>>

UpdateWaitsOrNaps ==
    /\ upc = "test"
    /\ ~m_updateThreadExit
    /\ m_lockUpdate' = Free
    /\ upc' = IF deepSleep THEN "nap" ELSE "waiting"
    /\ UNCHANGED <<switch, exits, m_lock, deepSleep, cpc, poll, ui, itr, call, due>>

UpdateNapEnds ==
    /\ upc = "nap"
    /\ upc' = "lock"
    /\ UNCHANGED <<switch, exits, locks, deepSleep, cpc, poll, ui, itr, call, due>>

UpdateSpuriousWakeUp ==
    /\ upc = "waiting"
    /\ upc' = "relock"
    /\ UNCHANGED <<switch, exits, locks, deepSleep, cpc, poll, ui, itr, call, due>>

\* A device at ui lacks a detail: it is asked, at most Retries times; the pause
\* before a request ends early on the exit request.
RequestDetail ==
    /\ upc = "scan"
    /\ ui < UNREGISTERED /\ itr < Retries
    /\ itr = 0 => ~m_updateThreadExit
    /\ itr' = IF m_updateThreadExit THEN Retries ELSE itr + 1
    /\ UNCHANGED <<switch, exits, locks, deepSleep, cpc, poll, upc, ui, call, due>>

\* Nothing at ui lacks a detail (any more), or the retries are used up.
NextDevice ==
    /\ upc = "scan"
    /\ ui < UNREGISTERED /\ ~m_updateThreadExit
    /\ ui' = ui + 1
    /\ itr' = 0
    /\ UNCHANGED <<switch, exits, locks, deepSleep, cpc, poll, upc, call, due>>

UpdateScanEnds ==
    /\ upc = "scan"
    /\ ui = UNREGISTERED \/ m_updateThreadExit
    /\ upc' = "test"
    /\ UNCHANGED <<switch, exits, locks, deepSleep, cpc, poll, ui, itr, call, due>>

-------------------------------------------------------------------------------
(* SetEnabled(true): CECEnable. *)

CECEnable ==
    /\ cpc = "idle"
    /\ ~cecEnableStatus
    /\ CallsDuringEnable \/ \A c \in Callers : call[c] # "held"
    /\ libcecInitStatus' = libcecInitStatus + 1
    /\ cpc' = "open"
    /\ UNCHANGED <<cecEnableStatus, smConnection, exits, locks, deepSleep, poll,
                   update, call, due>>

OpenConnection ==
    /\ cpc = "open"
    /\ smConnection' = TRUE
    /\ cecEnableStatus' = TRUE
    /\ cpc' = "greet"
    /\ UNCHANGED <<libcecInitStatus, exits, locks, deepSleep, poll, update, call, due>>

\* Seeded fault: the rollback forgets the initialisation count of the library.
RollbackKeepsLibcec ==
    /\ cpc \in {"open", "greet"}
    /\ cecEnableStatus' = FALSE
    /\ smConnection' = FALSE
    /\ m_pollThreadExit' = TRUE
    /\ m_updateThreadExit' = TRUE
    /\ cpc' = "idle"
    /\ UNCHANGED <<libcecInitStatus, locks, deepSleep, poll, update, call, due>>

\* The connection cannot be opened or a first message not be sent:
\* rollbackInitialization, before the two threads exist.
Rollback ==
    /\ cpc \in {"open", "greet"}
    /\ cecEnableStatus' = FALSE
    /\ smConnection' = FALSE
    /\ m_pollThreadExit' = TRUE
    /\ m_updateThreadExit' = TRUE
    /\ libcecInitStatus' = libcecInitStatus - 1
    /\ cpc' = "idle"
    /\ UNCHANGED <<locks, deepSleep, poll, update, call, due>>

GreetTV ==
    /\ cpc = "greet"
    /\ cpc' = "startUpdate"
    /\ UNCHANGED <<switch, exits, locks, deepSleep, poll, update, call, due>>

\* The mutex is initialised and the thread created, which may fail.
StartUpdateThread(created) ==
    /\ cpc = "startUpdate"
    /\ m_updateThreadExit' = FALSE
    /\ m_lockUpdate' = Free
    /\ upc \in {"none", "done"}
    /\ upc' = IF created THEN "lock" ELSE "none"
    /\ updateDue' = FALSE
    /\ cpc' = "startPoll"
    /\ UNCHANGED <<switch, m_pollThreadExit, m_lock, deepSleep, poll, ui, itr, call,
                   scanDue>>

StartPollThread(created) ==
    /\ cpc = "startPoll"
    /\ m_pollThreadExit' = FALSE
    /\ m_lock' = Free
    /\ ppc \in {"none", "done"}
    /\ ppc' = IF created THEN "lock" ELSE "none"
    /\ scanDue' = FALSE
    /\ cpc' = "idle"
    /\ UNCHANGED <<switch, m_updateThreadExit, m_lockUpdate, deepSleep, pi, found,
                   update, call, updateDue>>

-------------------------------------------------------------------------------
(* SetEnabled(false): CECDisable. *)

CECDisable ==
    /\ cpc = "idle"
    /\ cecEnableStatus
    /\ m_updateThreadExit' = TRUE
    /\ cpc' = "stopUpdate"
    /\ UNCHANGED <<switch, m_pollThreadExit, locks, deepSleep, poll, update, call, due>>

\* Lock, signal and unlock: the lock is only got while the thread waits.
SignalUpdateExit ==
    /\ cpc = "stopUpdate"
    /\ m_lockUpdate = Free
    /\ SignalUpdate
    /\ cpc' = "joinUpdate"
    /\ UNCHANGED <<switch, exits, locks, deepSleep, poll, ui, itr, call, due>>

\* Seeded fault: the update thread is not waited for.
JoinUpdateSkipped ==
    /\ cpc = "joinUpdate"
    /\ cpc' = "askPoll"
    /\ UNCHANGED <<switch, exits, locks, deepSleep, poll, update, call, due>>

JoinUpdateThread ==
    /\ cpc = "joinUpdate"
    /\ upc \in {"none", "done"}
    /\ upc' = "none"
    /\ cpc' = "askPoll"
    /\ UNCHANGED <<switch, exits, locks, deepSleep, poll, ui, itr, call, due>>

AskPollExit ==
    /\ cpc = "askPoll"
    /\ m_pollThreadExit' = TRUE
    /\ cpc' = "stopPoll"
    /\ UNCHANGED <<switch, m_updateThreadExit, locks, deepSleep, poll, update, call, due>>

\* Seeded fault: the signal is sent without the mutex.
SignalPollExitUnlocked ==
    /\ cpc = "stopPoll"
    /\ SignalPoll
    /\ cpc' = "joinPoll"
    /\ UNCHANGED <<switch, exits, locks, deepSleep, pi, found, update, call, due>>

SignalPollExit ==
    /\ cpc = "stopPoll"
    /\ m_lock = Free
    /\ SignalPoll
    /\ cpc' = "joinPoll"
    /\ UNCHANGED <<switch, exits, locks, deepSleep, pi, found, update, call, due>>

JoinPollThread ==
    /\ cpc = "joinPoll"
    /\ ppc \in {"none", "done"}
    /\ ppc' = "none"
    /\ cpc' = "close"
    /\ UNCHANGED <<switch, exits, locks, deepSleep, pi, found, update, call, due>>

CloseConnection ==
    /\ cpc = "close"
    /\ smConnection' = FALSE
    /\ cecEnableStatus' = FALSE
    /\ libcecInitStatus' = libcecInitStatus - 1
    /\ cpc' = "idle"
    /\ UNCHANGED <<exits, locks, deepSleep, poll, update, call, due>>

-------------------------------------------------------------------------------
\* A caller in progress; its call began with APICall or OnPowerModeChanged.
Caller(c) == CallLock(c) \/ CallUnlock(c)

PollThread == \/ PollLock \/ PollEnds \/ ScanStarts \/ PollNaps \/ PollNapEnds
              \/ \E connected \in BOOLEAN : Ping(connected)
              \/ ActivateUpdate \/ PollWaits

UpdateThread == \/ UpdateLock \/ UpdateEnds \/ UpdateWaitsOrNaps \/ UpdateNapEnds
                \/ RequestDetail \/ NextDevice \/ UpdateScanEnds

Controller == \/ OpenConnection \/ Rollback \/ GreetTV
              \/ \E created \in BOOLEAN : StartUpdateThread(created)
                                             \/ StartPollThread(created)
              \/ SignalUpdateExit \/ JoinUpdateThread \/ AskPollExit
              \/ SignalPollExit \/ JoinPollThread \/ CloseConnection

Next == \/ APICall \/ OnPowerModeChanged \/ PowerDecides
        \/ \E c \in Callers : Caller(c)
        \/ PollThread \/ PollSpuriousWakeUp
        \/ UpdateThread \/ UpdateSpuriousWakeUp
        \/ CECEnable \/ CECDisable \/ Controller

Spec == Init /\ [][Next]_vars

\* Threads that can move are scheduled, and a mutex that is free again and again
\* is got in the end by a thread that waits for it (strong fairness).
Fairness ==
    /\ SF_vars(PollThread)
    /\ SF_vars(UpdateThread)
    /\ SF_vars(Controller)
    /\ WF_vars(PowerDecides)
    /\ SF_vars(Caller("api")) /\ SF_vars(Caller("power"))

FairSpec == Spec /\ Fairness

-------------------------------------------------------------------------------
(* Properties. *)

TypeOK ==
    /\ cecEnableStatus \in BOOLEAN
    /\ smConnection \in BOOLEAN
    /\ libcecInitStatus \in Nat
    /\ m_pollThreadExit \in BOOLEAN
    /\ m_updateThreadExit \in BOOLEAN
    /\ m_lock \in {Free, Garbage, "poll"} \cup Callers
    /\ m_lockUpdate \in {Free, Garbage, "update"}
    /\ deepSleep \in BOOLEAN
    /\ cpc \in ControllerStates
    /\ ppc \in PollStates
    /\ pi \in 0 .. UNREGISTERED - 1
    /\ found \in BOOLEAN
    /\ upc \in UpdateStates
    /\ ui \in 0 .. UNREGISTERED
    /\ itr \in 0 .. Retries
    /\ call \in [Callers -> {"idle", "stored", "want", "held"}]
    /\ scanDue \in BOOLEAN
    /\ updateDue \in BOOLEAN

\* The two threads use the connection without a test that could not be overtaken
\* by CECDisable: whenever one of them scans, the connection and the library are
\* there, and the status that lets requests through is set.
WorkersHaveConnection ==
    ppc = "scan" \/ upc = "scan"
        => smConnection /\ cecEnableStatus /\ libcecInitStatus = 1

\* After any number of enables, disables and rollbacks, a returned SetEnabled
\* leaves everything on or everything off.
AllOrNothing ==
    cpc = "idle" =>
        /\ cecEnableStatus <=> smConnection
        /\ libcecInitStatus = IF cecEnableStatus THEN 1 ELSE 0
        /\ ~cecEnableStatus => ppc = "none" /\ upc = "none"

\* "Join mutex lock to wait until thread is in its wait condition": once
\* CECDisable has signalled the poll thread, the thread is not still on its way
\* into a wait that nobody will end.
ExitSignalNotLost ==
    cpc = "joinPoll" => ppc \notin {"scan", "signal", "wait", "waiting"}

\* A mutex that is free, or whose holder needs no one else to give it up.
PollLockComesFree ==
    \/ m_lock = Free
    \/ m_lock = "poll" /\ ppc \in {"test", "scan", "signal", "wait"}
    \/ \E c \in Callers : m_lock = c /\ call[c] = "held"

UpdateLockComesFree ==
    \/ m_lockUpdate = Free
    \/ m_lockUpdate = "update" /\ upc \in {"test", "scan"}

\* Nobody waits for somebody who waits too: a mutex that was initialised is free
\* or held by who is at work, after CECEnable both are initialised, and a
\* thread that CECDisable joins is not in a wait that nobody is left to end.
NobodyStuck ==
    /\ m_lock # Garbage => PollLockComesFree
    /\ m_lockUpdate # Garbage => UpdateLockComesFree
    /\ cecEnableStatus /\ cpc \notin {"greet", "startUpdate", "startPoll"}
          => m_lock # Garbage /\ m_lockUpdate # Garbage
    /\ cpc = "joinUpdate" => upc # "waiting"
    /\ cpc = "joinPoll" => ppc # "waiting"

\* A SetEnabled call in progress returns.
SetEnabledReturns == cpc # "idle" ~> cpc = "idle"

\* "Trigger CEC device poll here": a signal for the poll thread is answered by a
\* new scan, unless the thread is told to end or the device sleeps.
ScanFollowsTrigger == scanDue ~> (~scanDue \/ m_pollThreadExit \/ deepSleep)

\* "if any of devices is connected activate thread update check": the check
\* takes place, unless the thread is told to end or the device sleeps.
UpdateFollowsScan == updateDue ~> (~updateDue \/ m_updateThreadExit \/ deepSleep)
===============================================================================

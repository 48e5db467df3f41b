----------------------------- MODULE CecThreadsProofs -----------------------------
(***************************************************************************)
(* Proofs about CecThreads, for every number of addresses and retries.     *)
(* Types, WorkersHaveConnection and AllOrNothing hold whatever callers do; *)
(* ExitSignalNotLost and NobodyStuck need that no caller holds m_lock      *)
(* across CECEnable.                                                       *)
(***************************************************************************)
EXTENDS CecThreads, TLAPS

On == cecEnableStatus /\ smConnection /\ libcecInitStatus = 1

\* What each place of CECEnable and CECDisable has switched on, and which of the
\* two threads can exist there.
PhaseInv ==
    /\ AllOrNothing
    /\ cpc = "open" => ~cecEnableStatus /\ ~smConnection /\ libcecInitStatus = 1
    /\ cpc \notin {"idle", "open"} => On
    /\ cpc \in {"open", "greet", "startUpdate", "startPoll", "close"} => ppc = "none"
    /\ cpc \in {"open", "greet", "startUpdate", "askPoll", "stopPoll", "joinPoll", "close"}
          => upc = "none"

\* m_lock has one holder, and the poll thread holds it from its test to its wait.
LockInv ==
    /\ cpc \in {"open", "greet", "startUpdate", "startPoll"}
          => \A c \in Callers : call[c] # "held"
    /\ \A c \in Callers : call[c] = "held" => m_lock = c
    /\ ppc \in {"test", "scan", "signal", "wait"} => m_lock = "poll"

\* From the exit request to the join the exit flag of the poll thread stands.
ExitInv == cpc \in {"stopPoll", "joinPoll"} => m_pollThreadExit

\* The update thread holds m_lockUpdate from its test to its wait and during a
\* scan; its exit flag stands while it is joined, and its mutex is initialised
\* before that of the poll thread.
UpdateInv ==
    /\ upc \in {"test", "scan"} => m_lockUpdate = "update"
    /\ cpc \in {"stopUpdate", "joinUpdate"} => m_updateThreadExit
    /\ cpc = "startPoll" => m_lockUpdate # Garbage

-------------------------------------------------------------------------------
\* Types and phases hold when the object has been constructed.
LEMMA InitState == Init => TypeOK /\ PhaseInv
<1> SUFFICES ASSUME Init PROVE TypeOK /\ PhaseInv
  OBVIOUS
<1>1. TypeOK
  <2>1. /\ cecEnableStatus \in BOOLEAN /\ smConnection \in BOOLEAN
        /\ m_pollThreadExit \in BOOLEAN /\ m_updateThreadExit \in BOOLEAN
        /\ deepSleep \in BOOLEAN /\ found \in BOOLEAN
        /\ scanDue \in BOOLEAN /\ updateDue \in BOOLEAN
    BY DEF Init
  <2>2. /\ libcecInitStatus \in Nat
        /\ pi \in 0 .. UNREGISTERED - 1
        /\ ui \in 0 .. UNREGISTERED
        /\ itr \in 0 .. Retries
    BY ScanAssumption DEF Init
  <2>3. /\ m_lock \in {Free, Garbage, "poll"} \cup Callers
        /\ m_lockUpdate \in {Free, Garbage, "update"}
        /\ call \in [Callers -> {"idle", "stored", "want", "held"}]
    BY DEF Init
  <2>4. cpc \in ControllerStates /\ ppc \in PollStates /\ upc \in UpdateStates
    BY DEF Init, ControllerStates, PollStates, UpdateStates
  <2> QED
    BY <2>1, <2>2, <2>3, <2>4 DEF TypeOK
<1>2. PhaseInv
  BY DEF Init, PhaseInv, AllOrNothing
<1> QED
  BY <1>1, <1>2

\* A step of a caller keeps types and phases.
LEMMA CallerState ==
  ASSUME TypeOK, PhaseInv,
         APICall \/ OnPowerModeChanged \/ PowerDecides \/ (\E c \in Callers : Caller(c))
  PROVE  (TypeOK /\ PhaseInv)'
<1>1. CASE APICall
  BY <1>1 DEF APICall, TypeOK, PhaseInv, AllOrNothing, On, switch, exits, locks,
     poll, update, due, Callers
<1>2. CASE OnPowerModeChanged
  BY <1>2 DEF OnPowerModeChanged, TypeOK, PhaseInv, AllOrNothing, On, switch, exits,
     locks, poll, update, due, Callers
<1>3. CASE PowerDecides
  BY <1>3 DEF PowerDecides, TypeOK, PhaseInv, AllOrNothing, On, switch, exits, locks,
     poll, update, due, Callers
<1>4. ASSUME NEW c \in Callers, CallLock(c) PROVE (TypeOK /\ PhaseInv)'
  BY <1>4 DEF CallLock, SignalPoll, TypeOK, PhaseInv, AllOrNothing, On, switch, exits,
     update, Callers, PollStates
<1>5. ASSUME NEW c \in Callers, CallUnlock(c) PROVE (TypeOK /\ PhaseInv)'
  BY <1>5 DEF CallUnlock, TypeOK, PhaseInv, AllOrNothing, On, switch, exits, poll,
     update, due, Callers, Free
<1> QED
  BY <1>1, <1>2, <1>3, <1>4, <1>5 DEF Caller

\* A step of the poll thread keeps types and phases.
LEMMA PollState ==
  ASSUME TypeOK, PhaseInv, PollThread \/ PollSpuriousWakeUp
  PROVE  (TypeOK /\ PhaseInv)'
<1> USE DEF TypeOK, PhaseInv, AllOrNothing, On, switch, exits, poll, update, due,
            PollStates
<1>1. CASE PollLock \/ PollEnds \/ PollNaps \/ PollNapEnds \/ PollSpuriousWakeUp \/ PollWaits
  BY <1>1 DEF PollLock, PollEnds, PollNaps, PollNapEnds, PollSpuriousWakeUp, PollWaits,
     locks, Free
<1>2. CASE ScanStarts
  <2>a. pi' \in 0 .. UNREGISTERED - 1
    BY <1>2, ScanAssumption DEF ScanStarts
  <2>b. found' \in BOOLEAN /\ scanDue' \in BOOLEAN
    BY <1>2 DEF ScanStarts
  <2>1. TypeOK'
    BY <1>2, <2>a, <2>b DEF ScanStarts, locks
  <2>2. PhaseInv'
    BY <1>2, ScanAssumption DEF ScanStarts, locks
  <2> QED
    BY <2>1, <2>2
<1>3. ASSUME NEW connected \in BOOLEAN, Ping(connected) PROVE (TypeOK /\ PhaseInv)'
  BY <1>3, ScanAssumption DEF Ping, locks
<1>4. CASE ActivateUpdate
  <2>0. updateDue' \in BOOLEAN /\ upc' \in UpdateStates
    BY <1>4 DEF ActivateUpdate, SignalUpdate, UpdateStates
  <2>1. TypeOK'
    BY <1>4, <2>0 DEF ActivateUpdate, locks
  <2>2. PhaseInv'
    BY <1>4 DEF ActivateUpdate, SignalUpdate, locks, UpdateStates
  <2> QED
    BY <2>1, <2>2
<1> QED
  BY <1>1, <1>2, <1>3, <1>4 DEF PollThread

\* A step of the update thread keeps types and phases.
LEMMA UpdateState ==
  ASSUME TypeOK, PhaseInv, UpdateThread \/ UpdateSpuriousWakeUp
  PROVE  (TypeOK /\ PhaseInv)'
<1> USE DEF TypeOK, PhaseInv, AllOrNothing, On, switch, exits, poll, update, due,
            UpdateStates
<1>1. CASE UpdateLock
  <2>a. ui' \in 0 .. UNREGISTERED /\ itr' \in 0 .. Retries
    BY <1>1, ScanAssumption DEF UpdateLock
  <2>b. updateDue' \in BOOLEAN
    BY <1>1 DEF UpdateLock
  <2>1. TypeOK'
    BY <1>1, <2>a, <2>b DEF UpdateLock
  <2>2. PhaseInv'
    BY <1>1, ScanAssumption DEF UpdateLock, ScanAssumption
  <2> QED
    BY <2>1, <2>2
<1>2. CASE UpdateEnds \/ UpdateWaitsOrNaps \/ UpdateNapEnds \/ UpdateScanEnds
              \/ UpdateSpuriousWakeUp
  BY <1>2 DEF UpdateEnds, UpdateWaitsOrNaps, UpdateNapEnds, UpdateScanEnds,
     UpdateSpuriousWakeUp, locks, Free
<1>3. CASE RequestDetail \/ NextDevice
  BY <1>3, ScanAssumption DEF RequestDetail, NextDevice, locks
<1> QED
  BY <1>1, <1>2, <1>3 DEF UpdateThread

\* A step of the SetEnabled caller keeps types and phases.
LEMMA ControllerState ==
  ASSUME TypeOK, PhaseInv, CECEnable \/ CECDisable \/ Controller
  PROVE  (TypeOK /\ PhaseInv)'
<1> USE DEF TypeOK, PhaseInv, AllOrNothing, On, switch, exits, poll, update, due,
            locks, ControllerStates
<1>1. CASE CECEnable \/ OpenConnection \/ GreetTV \/ CECDisable \/ AskPollExit
  <2>a. /\ cecEnableStatus' \in BOOLEAN /\ smConnection' \in BOOLEAN
        /\ m_pollThreadExit' \in BOOLEAN /\ m_updateThreadExit' \in BOOLEAN
    BY <1>1 DEF CECEnable, OpenConnection, GreetTV, CECDisable, AskPollExit
  <2>b. libcecInitStatus' \in Nat /\ cpc' \in ControllerStates
    BY <1>1 DEF CECEnable, OpenConnection, GreetTV, CECDisable, AskPollExit
  <2>1. TypeOK'
    BY <1>1, <2>a, <2>b DEF CECEnable, OpenConnection, GreetTV, CECDisable,
       AskPollExit
  <2>2. PhaseInv'
    BY <1>1 DEF CECEnable, OpenConnection, GreetTV, CECDisable,
       AskPollExit
  <2> QED
    BY <2>1, <2>2
<1>2. CASE Rollback \/ CloseConnection
  <2>a. /\ cecEnableStatus' \in BOOLEAN /\ smConnection' \in BOOLEAN
        /\ m_pollThreadExit' \in BOOLEAN /\ m_updateThreadExit' \in BOOLEAN
    BY <1>2 DEF Rollback, CloseConnection
  <2>b. libcecInitStatus' \in Nat /\ cpc' \in ControllerStates
    BY <1>2 DEF Rollback, CloseConnection
  <2>1. TypeOK'
    BY <1>2, <2>a, <2>b DEF Rollback, CloseConnection
  <2>2. PhaseInv'
    BY <1>2 DEF Rollback, CloseConnection
  <2> QED
    BY <2>1, <2>2
<1>3. ASSUME NEW created \in BOOLEAN, StartUpdateThread(created)
      PROVE  (TypeOK /\ PhaseInv)'
  BY <1>3 DEF StartUpdateThread, UpdateStates, Free
<1>4. ASSUME NEW created \in BOOLEAN, StartPollThread(created)
      PROVE  (TypeOK /\ PhaseInv)'
  BY <1>4 DEF StartPollThread, PollStates, Free
<1>5. CASE SignalUpdateExit \/ JoinUpdateThread
  BY <1>5 DEF SignalUpdateExit, JoinUpdateThread, SignalUpdate, UpdateStates
<1>6. CASE SignalPollExit \/ JoinPollThread
  BY <1>6 DEF SignalPollExit, JoinPollThread, SignalPoll, PollStates
<1> QED
  BY <1>1, <1>2, <1>3, <1>4, <1>5, <1>6 DEF Controller

\* Types and phases hold in every reachable state.
THEOREM State == Spec => [](TypeOK /\ PhaseInv)
<1>1. ASSUME TypeOK /\ PhaseInv, [Next]_vars PROVE (TypeOK /\ PhaseInv)'
  <2>1. CASE UNCHANGED vars
    BY <1>1, <2>1 DEF vars, TypeOK, PhaseInv, AllOrNothing, On, switch, exits, poll,
       update, due, locks
  <2> QED
    BY <1>1, <2>1, CallerState, PollState, UpdateState, ControllerState DEF Next
<1> QED
  BY <1>1, InitState, PTL DEF Spec

\* The flags, locks and counters of the worker threads keep their types: no scan
\* leaves the device list, and libcecInitStatus never becomes negative.
THEOREM TypeCorrect == Spec => []TypeOK
  BY State, PTL

\* A returned SetEnabled has switched everything on or everything off.
THEOREM OnOrOff == Spec => []AllOrNothing
<1>1. PhaseInv => AllOrNothing
  BY DEF PhaseInv
<1> QED
  BY <1>1, State, PTL

\* The poll and update threads only scan while there is a connection.
THEOREM ScansConnected == Spec => []WorkersHaveConnection
<1>1. TypeOK /\ PhaseInv => WorkersHaveConnection
  BY DEF TypeOK, PhaseInv, AllOrNothing, On, WorkersHaveConnection
<1> QED
  BY <1>1, State, PTL

-------------------------------------------------------------------------------
\* The ownership of m_lock and the exit flag survive every step, if no caller
\* holds m_lock while CECEnable runs.
LEMMA LockStep ==
  ASSUME ~CallsDuringEnable, TypeOK, PhaseInv, LockInv, ExitInv, ExitSignalNotLost,
         [Next]_vars
  PROVE  (LockInv /\ ExitInv /\ ExitSignalNotLost)'
<1> USE DEF TypeOK, LockInv, ExitInv, ExitSignalNotLost, switch, exits, locks, poll,
            update, due, Callers, Free
<1>1. CASE APICall \/ OnPowerModeChanged \/ PowerDecides
  BY <1>1 DEF APICall, OnPowerModeChanged, PowerDecides
<1>2. ASSUME NEW c \in Callers, CallLock(c)
      PROVE  (LockInv /\ ExitInv /\ ExitSignalNotLost)'
  BY <1>2 DEF CallLock, SignalPoll, Apart
<1>3. ASSUME NEW c \in Callers, CallUnlock(c)
      PROVE  (LockInv /\ ExitInv /\ ExitSignalNotLost)'
  BY <1>3 DEF CallUnlock
<1>4. CASE PollLock \/ PollEnds \/ ScanStarts \/ PollNaps \/ PollNapEnds
  BY <1>4 DEF PollLock, PollEnds, ScanStarts, PollNaps, PollNapEnds
<1>5. ASSUME NEW connected \in BOOLEAN, Ping(connected)
      PROVE  (LockInv /\ ExitInv /\ ExitSignalNotLost)'
  BY <1>5 DEF Ping
<1>6. CASE ActivateUpdate \/ PollWaits \/ PollSpuriousWakeUp
  BY <1>6 DEF ActivateUpdate, PollWaits, PollSpuriousWakeUp
<1>7. CASE UpdateThread \/ UpdateSpuriousWakeUp
  BY <1>7 DEF UpdateThread, UpdateLock, UpdateEnds, UpdateWaitsOrNaps, UpdateNapEnds,
     RequestDetail, NextDevice, UpdateScanEnds, UpdateSpuriousWakeUp
<1>8. CASE CECEnable \/ OpenConnection \/ Rollback \/ GreetTV
  BY <1>8 DEF CECEnable, OpenConnection, Rollback, GreetTV
<1>9. ASSUME NEW created \in BOOLEAN, StartUpdateThread(created) \/ StartPollThread(created)
      PROVE  (LockInv /\ ExitInv /\ ExitSignalNotLost)'
  BY <1>9 DEF StartUpdateThread, StartPollThread
<1>10. CASE CECDisable \/ SignalUpdateExit \/ JoinUpdateThread \/ AskPollExit
  BY <1>10 DEF CECDisable, SignalUpdateExit, JoinUpdateThread, AskPollExit
<1>11. CASE SignalPollExit
  BY <1>11 DEF SignalPollExit, SignalPoll
<1>12. CASE JoinPollThread \/ CloseConnection
  BY <1>12 DEF JoinPollThread, CloseConnection
<1>13. CASE UNCHANGED vars
  BY <1>13 DEF vars
<1> QED
  BY <1>1, <1>2, <1>3, <1>4, <1>5, <1>6, <1>7, <1>8, <1>9, <1>10, <1>11, <1>12, <1>13
     DEF Next, Caller, PollThread, Controller

\* The exit signal of CECDisable reaches the poll thread: while CECDisable joins
\* it, the thread is not in a scan, nor in a wait or on its way into one.
THEOREM ExitSeen == ~CallsDuringEnable => (Spec => []ExitSignalNotLost)
<1> SUFFICES ASSUME ~CallsDuringEnable PROVE Spec => []ExitSignalNotLost
  OBVIOUS
<1>1. Init => LockInv /\ ExitInv /\ ExitSignalNotLost
  BY DEF Init, LockInv, ExitInv, ExitSignalNotLost
<1>2. TypeOK /\ PhaseInv /\ LockInv /\ ExitInv /\ ExitSignalNotLost /\ [Next]_vars
         => (LockInv /\ ExitInv /\ ExitSignalNotLost)'
  BY LockStep
<1> QED
  BY <1>1, <1>2, State, PTL DEF Spec

-------------------------------------------------------------------------------
\* No step of a caller leaves m_lock behind.
LEMMA CallerMutexes ==
  ASSUME ~CallsDuringEnable, TypeOK, LockInv, UpdateInv, NobodyStuck,
         APICall \/ OnPowerModeChanged \/ PowerDecides \/ (\E c \in Callers : Caller(c))
  PROVE  (UpdateInv /\ NobodyStuck)'
<1> USE DEF TypeOK, LockInv, UpdateInv, NobodyStuck, PollLockComesFree,
            UpdateLockComesFree, switch, exits, locks, poll, update, due, Callers,
            Free, Garbage
<1>1. CASE APICall \/ OnPowerModeChanged \/ PowerDecides
  BY <1>1 DEF APICall, OnPowerModeChanged, PowerDecides
<1>2. ASSUME NEW c \in Callers, CallLock(c) PROVE (UpdateInv /\ NobodyStuck)'
  BY <1>2 DEF CallLock, SignalPoll
<1>3. ASSUME NEW c \in Callers, CallUnlock(c) PROVE (UpdateInv /\ NobodyStuck)'
  BY <1>3 DEF CallUnlock
<1> QED
  BY <1>1, <1>2, <1>3 DEF Caller

\* No step of the two threads leaves a mutex behind, or lets a thread that is
\* joined go back to its wait.
LEMMA ThreadMutexes ==
  ASSUME TypeOK, LockInv, UpdateInv, NobodyStuck, ExitSignalNotLost',
         PollThread \/ PollSpuriousWakeUp \/ UpdateThread \/ UpdateSpuriousWakeUp
  PROVE  (UpdateInv /\ NobodyStuck)'
<1> USE DEF TypeOK, LockInv, UpdateInv, NobodyStuck, ExitSignalNotLost, PollLockComesFree,
            UpdateLockComesFree, switch, exits, locks, poll, update, due, Callers,
            Free, Garbage
<1>1. CASE PollLock \/ PollEnds \/ ScanStarts \/ PollNaps \/ PollNapEnds
  BY <1>1 DEF PollLock, PollEnds, ScanStarts, PollNaps, PollNapEnds
<1>2. ASSUME NEW connected \in BOOLEAN, Ping(connected)
      PROVE  (UpdateInv /\ NobodyStuck)'
  BY <1>2 DEF Ping
<1>3. CASE ActivateUpdate
  BY <1>3 DEF ActivateUpdate, SignalUpdate
<1>4. CASE PollWaits \/ PollSpuriousWakeUp
  BY <1>4 DEF PollWaits, PollSpuriousWakeUp
<1>5. CASE UpdateLock
  BY <1>5 DEF UpdateLock
<1>6. CASE UpdateEnds \/ UpdateWaitsOrNaps \/ UpdateNapEnds \/ UpdateSpuriousWakeUp
  BY <1>6 DEF UpdateEnds, UpdateWaitsOrNaps, UpdateNapEnds, UpdateSpuriousWakeUp
<1>7. CASE RequestDetail \/ NextDevice \/ UpdateScanEnds
  BY <1>7 DEF RequestDetail, NextDevice, UpdateScanEnds
<1> QED
  BY <1>1, <1>2, <1>3, <1>4, <1>5, <1>6, <1>7 DEF PollThread, UpdateThread

\* CECEnable initialises a mutex while no thread holds it; CECDisable takes one
\* for a moment and wakes the thread that it will join.
LEMMA ControllerMutexes ==
  ASSUME ~CallsDuringEnable, TypeOK, PhaseInv, LockInv, UpdateInv, NobodyStuck,
         ExitSignalNotLost', CECEnable \/ CECDisable \/ Controller
  PROVE  (UpdateInv /\ NobodyStuck)'
<1> USE DEF TypeOK, LockInv, UpdateInv, NobodyStuck, ExitSignalNotLost, PollLockComesFree,
            UpdateLockComesFree, switch, exits, locks, poll, update, due, Callers,
            Free, Garbage
<1>1. CASE CECEnable \/ OpenConnection \/ Rollback \/ GreetTV
  BY <1>1 DEF CECEnable, OpenConnection, Rollback, GreetTV, PhaseInv, On, AllOrNothing
<1>2. ASSUME NEW created \in BOOLEAN, StartUpdateThread(created) \/ StartPollThread(created)
      PROVE  (UpdateInv /\ NobodyStuck)'
  BY <1>2 DEF StartUpdateThread, StartPollThread, PhaseInv, On
<1>3. CASE CECDisable \/ AskPollExit \/ JoinPollThread \/ CloseConnection
  BY <1>3 DEF CECDisable, AskPollExit, JoinPollThread, CloseConnection
<1>4. CASE SignalUpdateExit
  BY <1>4 DEF SignalUpdateExit, SignalUpdate
<1>5. CASE JoinUpdateThread
  BY <1>5 DEF JoinUpdateThread
<1>6. CASE SignalPollExit
  BY <1>6 DEF SignalPollExit, SignalPoll
<1> QED
  BY <1>1, <1>2, <1>3, <1>4, <1>5, <1>6 DEF Controller

\* The invariant of a system in which no caller holds m_lock across CECEnable.
Mutexes == LockInv /\ ExitInv /\ ExitSignalNotLost /\ UpdateInv /\ NobodyStuck

\* It is inductive together with the types and PhaseInv.
LEMMA MutexesHold == ~CallsDuringEnable => (Spec => []Mutexes)
<1> SUFFICES ASSUME ~CallsDuringEnable PROVE Spec => []Mutexes
  OBVIOUS
<1>1. Init => Mutexes
  BY DEF Init, Mutexes, LockInv, ExitInv, ExitSignalNotLost, UpdateInv, NobodyStuck,
     PollLockComesFree, UpdateLockComesFree, Garbage
<1>2. TypeOK /\ PhaseInv /\ Mutexes /\ [Next]_vars => Mutexes'
  <2> SUFFICES ASSUME TypeOK, PhaseInv, Mutexes, [Next]_vars PROVE Mutexes'
    OBVIOUS
  <2>1. (LockInv /\ ExitInv /\ ExitSignalNotLost)'
    BY LockStep DEF Mutexes
  <2>2. CASE UNCHANGED vars
    BY <2>1, <2>2 DEF Mutexes, vars, UpdateInv, NobodyStuck, PollLockComesFree,
       UpdateLockComesFree, switch, exits, locks, poll, update
  <2>3. LockInv /\ UpdateInv /\ NobodyStuck
    BY DEF Mutexes
  <2>4. (UpdateInv /\ NobodyStuck)'
    BY <2>1, <2>2, <2>3, CallerMutexes, ThreadMutexes, ControllerMutexes DEF Next, Mutexes
  <2> QED
    BY <2>1, <2>4 DEF Mutexes
<1> QED
  BY <1>1, <1>2, State, PTL DEF Spec

\* If no caller holds m_lock across CECEnable, nobody waits for somebody who
\* waits too: each mutex comes free once it is initialised, and the threads that
\* CECDisable joins are not in a wait.
THEOREM NoStuck == ~CallsDuringEnable => (Spec => []NobodyStuck)
<1>1. Mutexes => NobodyStuck
  BY DEF Mutexes
<1> QED
  BY <1>1, MutexesHold, PTL

-------------------------------------------------------------------------------
(* SetEnabled returns.  The provers know nothing of ENABLED: that a thread can   *)
(* move where one of its guards holds is a hypothesis of the theorems.           *)

PollCanMove == \/ ppc \in {"test", "scan", "signal", "wait", "nap"}
               \/ ppc = "lock" /\ m_lock = Free

UpdateCanMove == \/ upc \in {"test", "scan", "nap"}
                 \/ upc \in {"lock", "relock"} /\ m_lockUpdate = Free

ControllerCanMove == \/ cpc \in {"open", "greet", "askPoll", "close"}
                     \/ cpc \in {"startUpdate", "joinUpdate"} /\ upc \in {"none", "done"}
                     \/ cpc \in {"startPoll", "joinPoll"} /\ ppc \in {"none", "done"}
                     \/ cpc = "stopUpdate" /\ m_lockUpdate = Free
                     \/ cpc = "stopPoll" /\ m_lock = Free

Holds(c) == call[c] = "held" /\ m_lock = c

GuardsEnable ==
    /\ PollCanMove => ENABLED <<PollThread>>_vars
    /\ UpdateCanMove => ENABLED <<UpdateThread>>_vars
    /\ ControllerCanMove => ENABLED <<Controller>>_vars
    /\ Holds("api") => ENABLED <<Caller("api")>>_vars
    /\ Holds("power") => ENABLED <<Caller("power")>>_vars

AllInv == TypeOK /\ PhaseInv /\ Mutexes

\* What the scheduler gives to a behaviour in which the invariant holds.
Live == Spec /\ []AllInv /\ Fairness /\ []GuardsEnable

\* The steps of SetEnabled that wait for nobody.
LEMMA CallMoves ==
  ASSUME AllInv, [Next]_vars,
         cpc \in {"open", "greet", "startUpdate", "startPoll", "askPoll", "close"}
  PROVE  /\ cpc' = cpc \/ Controller
         /\ Controller => CASE cpc = "open" -> cpc' \in {"greet", "idle"}
                            [] cpc = "greet" -> cpc' \in {"startUpdate", "idle"}
                            [] cpc = "startUpdate" -> cpc' = "startPoll"
                            [] cpc = "askPoll" -> cpc' = "stopPoll"
                            [] OTHER -> cpc' = "idle"
<1>1. cpc' = cpc \/ Controller
  <2>1. CASE APICall \/ OnPowerModeChanged \/ PowerDecides \/ (\E c \in Callers : Caller(c))
    BY <2>1 DEF APICall, OnPowerModeChanged, PowerDecides, Caller, CallLock, CallUnlock
  <2>2. CASE PollThread \/ PollSpuriousWakeUp
    BY <2>2 DEF PollThread, PollSpuriousWakeUp, PollLock, PollEnds, ScanStarts, PollNaps,
                PollNapEnds, Ping, ActivateUpdate, PollWaits
  <2>3. CASE UpdateThread \/ UpdateSpuriousWakeUp
    BY <2>3 DEF UpdateThread, UpdateSpuriousWakeUp, UpdateLock, UpdateEnds,
                UpdateWaitsOrNaps, UpdateNapEnds, RequestDetail, NextDevice, UpdateScanEnds
  <2>4. CASE CECEnable \/ CECDisable
    BY <2>4 DEF CECEnable, CECDisable
  <2>5. CASE UNCHANGED vars
    BY <2>5 DEF vars
  <2> QED
    BY <2>1, <2>2, <2>3, <2>4, <2>5 DEF Next
<1>2. ASSUME Controller
      PROVE  CASE cpc = "open" -> cpc' \in {"greet", "idle"}
               [] cpc = "greet" -> cpc' \in {"startUpdate", "idle"}
               [] cpc = "startUpdate" -> cpc' = "startPoll"
               [] cpc = "askPoll" -> cpc' = "stopPoll"
               [] OTHER -> cpc' = "idle"
  BY <1>2 DEF Controller, OpenConnection, Rollback, GreetTV, StartUpdateThread,
              StartPollThread, SignalUpdateExit, JoinUpdateThread, AskPollExit,
              SignalPollExit, JoinPollThread, CloseConnection
<1> QED
  BY <1>1, <1>2

\* One step of the update thread towards its end.
UpdateNears ==
    \/ <<upc, upc'>> \in {<<"nap", "lock">>, <<"lock", "test">>, <<"relock", "scan">>,
                          <<"scan", "test">>, <<"test", "done">>}
    \/ upc = "scan" /\ upc' = "scan" /\ itr \in 1 .. Retries - 1 /\ itr' = Retries

\* While the update thread is asked to end, it only comes nearer to its end, and
\* no thread but the caller of SetEnabled changes that.
LEMMA UpdateStops ==
  ASSUME AllInv, AllInv', cpc \in {"stopUpdate", "joinUpdate"}, [Next]_vars
  PROVE  /\ \/ cpc' = cpc /\ UNCHANGED <<upc, itr>>
            \/ cpc' = cpc /\ upc = "waiting" /\ upc' = "relock"
            \/ cpc' = cpc /\ UpdateNears
            \/ /\ cpc = "stopUpdate" /\ cpc' = "joinUpdate"
               /\ UNCHANGED <<upc, itr>> \/ (upc = "waiting" /\ upc' = "relock")
            \/ cpc = "joinUpdate" /\ cpc' = "askPoll" /\ upc \in {"none", "done"}
         /\ UpdateThread => cpc' = cpc /\ UpdateNears
         /\ Controller => \/ /\ cpc = "stopUpdate" /\ cpc' = "joinUpdate"
                             /\ upc = "waiting" => upc' = "relock"
                          \/ cpc = "joinUpdate" /\ cpc' = "askPoll"
<1> DEFINE Still == cpc' = cpc /\ (UNCHANGED <<upc, itr>>
                                     \/ (upc = "waiting" /\ upc' = "relock"))
<1>1. m_updateThreadExit
  BY DEF AllInv, Mutexes, UpdateInv
<1>2. ASSUME UpdateThread PROVE cpc' = cpc /\ UpdateNears
  BY <1>1, <1>2 DEF AllInv, TypeOK, UpdateThread, UpdateLock, UpdateEnds, UpdateWaitsOrNaps,
     UpdateNapEnds, RequestDetail, NextDevice, UpdateScanEnds, UpdateNears
<1>3. ASSUME Controller
      PROVE  \/ /\ cpc = "stopUpdate" /\ cpc' = "joinUpdate"
                /\ UNCHANGED <<upc, itr>> \/ (upc = "waiting" /\ upc' = "relock")
                /\ upc = "waiting" => upc' = "relock"
             \/ cpc = "joinUpdate" /\ cpc' = "askPoll" /\ upc \in {"none", "done"}
  BY <1>3 DEF Controller, OpenConnection, Rollback, GreetTV, StartUpdateThread,
              StartPollThread, SignalUpdateExit, SignalUpdate, JoinUpdateThread, AskPollExit,
              SignalPollExit, JoinPollThread, CloseConnection
<1>4. ASSUME APICall \/ OnPowerModeChanged \/ PowerDecides \/ (\E c \in Callers : Caller(c))
      PROVE  Still
  BY <1>4 DEF APICall, OnPowerModeChanged, PowerDecides, Caller, CallLock, CallUnlock, update
<1>5. ASSUME PollThread \/ PollSpuriousWakeUp PROVE Still
  BY <1>5 DEF PollThread, PollSpuriousWakeUp, PollLock, PollEnds, ScanStarts, PollNaps,
              PollNapEnds, Ping, ActivateUpdate, SignalUpdate, PollWaits, update
<1>6. ASSUME UpdateSpuriousWakeUp \/ UNCHANGED vars PROVE Still
  BY <1>6 DEF UpdateSpuriousWakeUp, vars, update
<1>7. ~CECEnable /\ ~CECDisable
  BY DEF CECEnable, CECDisable
<1> QED
  BY <1>2, <1>3, <1>4, <1>5, <1>6, <1>7 DEF Next

\* The steps by which the poll thread nears its end once it is asked to.
PollNears == <<ppc, ppc'>> \in {<<"nap", "lock">>, <<"lock", "test">>, <<"scan", "signal">>,
                                <<"signal", "wait">>, <<"wait", "waiting">>,
                                <<"test", "done">>}

\* What can happen until the poll thread is joined, and that its own steps near its end.
LEMMA PollStops ==
  ASSUME AllInv, cpc \in {"stopPoll", "joinPoll"}, [Next]_vars
  PROVE  /\ \/ cpc' = cpc /\ ppc' = ppc
            \/ cpc' = cpc /\ ppc = "waiting" /\ ppc' = "lock"
            \/ cpc' = cpc /\ PollNears
            \/ /\ cpc = "stopPoll" /\ cpc' = "joinPoll"
               /\ ppc' = ppc \/ (ppc = "waiting" /\ ppc' = "lock")
            \/ cpc = "joinPoll" /\ cpc' = "close" /\ ppc \in {"none", "done"}
         /\ PollThread => cpc' = cpc /\ PollNears
         /\ Controller => \/ /\ cpc = "stopPoll" /\ cpc' = "joinPoll"
                             /\ ppc = "waiting" => ppc' = "lock"
                          \/ cpc = "joinPoll" /\ cpc' = "close"
<1> DEFINE Still == cpc' = cpc /\ (ppc' = ppc \/ (ppc = "waiting" /\ ppc' = "lock"))
<1>1. m_pollThreadExit
  BY DEF AllInv, Mutexes, ExitInv
<1>2. ASSUME PollThread PROVE cpc' = cpc /\ PollNears
  BY <1>1, <1>2 DEF PollThread, PollLock, PollEnds, ScanStarts, PollNaps,
              PollNapEnds, Ping, ActivateUpdate, PollWaits, PollNears
<1>3. ASSUME Controller
      PROVE  \/ /\ cpc = "stopPoll" /\ cpc' = "joinPoll"
                /\ ppc' = ppc \/ (ppc = "waiting" /\ ppc' = "lock")
                /\ ppc = "waiting" => ppc' = "lock"
             \/ cpc = "joinPoll" /\ cpc' = "close" /\ ppc \in {"none", "done"}
  BY <1>3 DEF Controller, OpenConnection, Rollback, GreetTV, StartUpdateThread,
              StartPollThread, SignalUpdateExit, JoinUpdateThread, AskPollExit,
              SignalPollExit, SignalPoll, JoinPollThread, CloseConnection
<1>4. ASSUME APICall \/ OnPowerModeChanged \/ PowerDecides \/ (\E c \in Callers : Caller(c))
      PROVE  Still
  BY <1>4 DEF APICall, OnPowerModeChanged, PowerDecides, Caller, CallLock, CallUnlock,
              SignalPoll, poll
<1>5. ASSUME UpdateThread \/ UpdateSpuriousWakeUp PROVE Still
  BY <1>5 DEF UpdateThread, UpdateSpuriousWakeUp, UpdateLock, UpdateEnds,
              UpdateWaitsOrNaps, UpdateNapEnds, RequestDetail, NextDevice, UpdateScanEnds, poll
<1>6. ASSUME PollSpuriousWakeUp \/ UNCHANGED vars PROVE Still
  BY <1>6 DEF PollSpuriousWakeUp, vars, poll
<1>7. ~CECEnable /\ ~CECDisable
  BY DEF CECEnable, CECDisable
<1> QED
  BY <1>2, <1>3, <1>4, <1>5, <1>6, <1>7 DEF Next

\* The caller that has m_lock keeps it until it gives it up.
LEMMA HolderMoves ==
  ASSUME AllInv, AllInv', NEW c \in Callers, Holds(c), [Next]_vars
  PROVE  /\ Holds(c)' \/ (m_lock = Free)'
         /\ Caller(c) => (m_lock = Free)'
<1> USE DEF AllInv, TypeOK, Mutexes, LockInv, Callers, Free, Holds, locks
<1>1. ASSUME Caller(c) PROVE (m_lock = Free)'
  BY <1>1 DEF Caller, CallLock, CallUnlock
<1>2. ASSUME NEW d \in Callers \ {c}, Caller(d) PROVE Holds(c)'
  BY <1>2 DEF Caller, CallLock, CallUnlock
<1>3. ASSUME APICall \/ OnPowerModeChanged \/ PowerDecides PROVE Holds(c)' \/ (m_lock = Free)'
  BY <1>3 DEF APICall, OnPowerModeChanged, PowerDecides
<1>4. ASSUME PollThread \/ PollSpuriousWakeUp PROVE Holds(c)' \/ (m_lock = Free)'
  BY <1>4 DEF PollThread, PollSpuriousWakeUp, PollLock, PollEnds, ScanStarts, PollNaps,
              PollNapEnds, Ping, ActivateUpdate, PollWaits
<1>5. ASSUME UpdateThread \/ UpdateSpuriousWakeUp PROVE Holds(c)' \/ (m_lock = Free)'
  BY <1>5 DEF UpdateThread, UpdateSpuriousWakeUp, UpdateLock, UpdateEnds,
              UpdateWaitsOrNaps, UpdateNapEnds, RequestDetail, NextDevice, UpdateScanEnds
<1>6. ASSUME CECEnable \/ CECDisable \/ Controller PROVE Holds(c)' \/ (m_lock = Free)'
  BY <1>6 DEF CECEnable, CECDisable, Controller, OpenConnection, Rollback, GreetTV,
              StartUpdateThread, StartPollThread, SignalUpdateExit, JoinUpdateThread,
              AskPollExit, SignalPollExit, JoinPollThread, CloseConnection
<1>7. ASSUME UNCHANGED vars PROVE Holds(c)' \/ (m_lock = Free)'
  BY <1>7 DEF vars
<1> QED
  BY <1>1, <1>2, <1>3, <1>4, <1>5, <1>6, <1>7 DEF Next

-------------------------------------------------------------------------------
(* The stages of a call of SetEnabled, and how each is left.                     *)

Call(c) == cpc = c
UpdateAt(S) == cpc \in {"stopUpdate", "joinUpdate"} /\ upc \in S
Retrying == UpdateAt({"scan"}) /\ itr \in 1 .. Retries - 1
Leaving == UpdateAt({"scan"}) /\ itr \notin 1 .. Retries - 1
UpdateGone(c) == cpc = c /\ upc \in {"none", "done"}
PollAt(S) == cpc \in {"stopPoll", "joinPoll"} /\ ppc \in S
PollGone(c) == cpc = c /\ ppc \in {"none", "done"}
LockIsFree == m_lock = Free

Step == AllInv /\ AllInv' /\ [Next]_vars

\* m_lockUpdate is free while the update thread is not at work: it has no other
\* holder, and CECEnable has initialised it.
LEMMA UpdateLockFree ==
  AllInv /\ cpc \in {"stopUpdate", "joinUpdate"} /\ upc \notin {"test", "scan"}
     => m_lockUpdate = Free
  BY DEF AllInv, PhaseInv, On, Mutexes, NobodyStuck, UpdateLockComesFree

\* m_lock is free or in the hands of a caller while the poll thread is not at work.
LEMMA LockFreeOrHeld ==
  AllInv /\ ppc \in {"nap", "lock", "waiting"} => LockIsFree \/ Holds("api") \/ Holds("power")
  BY DEF AllInv, PhaseInv, AllOrNothing, On, Mutexes, NobodyStuck, PollLockComesFree,
         LockIsFree, Holds, Callers

\* The connection is opened, or the rollback ends the call.
LEMMA Opens == Live => (Call("open") ~> Call("greet") \/ Call("idle"))
<1>1. Call("open") /\ Step => (Call("open") \/ Call("greet") \/ Call("idle"))'
  BY CallMoves DEF Step, Call
<1>2. Call("open") /\ Step /\ <<Controller>>_vars => (Call("greet") \/ Call("idle"))'
  BY CallMoves DEF Step, Call
<1>3. AllInv /\ Call("open") => ControllerCanMove
  BY DEF ControllerCanMove, Call
<1> QED
  BY <1>1, <1>2, <1>3, PTL DEF Live, Step, Spec, Fairness, GuardsEnable

\* The first messages are sent, or the rollback ends the call.
LEMMA Greets == Live => (Call("greet") ~> Call("startUpdate") \/ Call("idle"))
<1>1. Call("greet") /\ Step => (Call("greet") \/ Call("startUpdate") \/ Call("idle"))'
  BY CallMoves DEF Step, Call
<1>2. Call("greet") /\ Step /\ <<Controller>>_vars => (Call("startUpdate") \/ Call("idle"))'
  BY CallMoves DEF Step, Call
<1>3. AllInv /\ Call("greet") => ControllerCanMove
  BY DEF ControllerCanMove, Call
<1> QED
  BY <1>1, <1>2, <1>3, PTL DEF Live, Step, Spec, Fairness, GuardsEnable

\* Neither thread exists when it is started.
LEMMA StartsUpdate == Live => (Call("startUpdate") ~> Call("startPoll"))
<1>1. Call("startUpdate") /\ Step => (Call("startUpdate") \/ Call("startPoll"))'
  BY CallMoves DEF Step, Call
<1>2. Call("startUpdate") /\ Step /\ <<Controller>>_vars => Call("startPoll")'
  BY CallMoves DEF Step, Call
<1>3. AllInv /\ Call("startUpdate") => ControllerCanMove
  BY DEF ControllerCanMove, Call, AllInv, PhaseInv
<1> QED
  BY <1>1, <1>2, <1>3, PTL DEF Live, Step, Spec, Fairness, GuardsEnable

\* Then the call has returned.
LEMMA StartsPoll == Live => (Call("startPoll") ~> Call("idle"))
<1>1. Call("startPoll") /\ Step => (Call("startPoll") \/ Call("idle"))'
  BY CallMoves DEF Step, Call
<1>2. Call("startPoll") /\ Step /\ <<Controller>>_vars => Call("idle")'
  BY CallMoves DEF Step, Call
<1>3. AllInv /\ Call("startPoll") => ControllerCanMove
  BY DEF ControllerCanMove, Call, AllInv, PhaseInv
<1> QED
  BY <1>1, <1>2, <1>3, PTL DEF Live, Step, Spec, Fairness, GuardsEnable

\* An update thread that is asked to end wakes up from its nap ...
LEMMA UpdateNaps == Live => (UpdateAt({"nap"}) ~> UpdateAt({"lock"}))
<1>1. UpdateAt({"nap"}) /\ Step => (UpdateAt({"nap"}) \/ UpdateAt({"lock"}))'
  BY UpdateStops DEF Step, UpdateAt, UpdateNears
<1>2. UpdateAt({"nap"}) /\ Step /\ <<UpdateThread>>_vars => UpdateAt({"lock"})'
  BY UpdateStops DEF Step, UpdateAt, UpdateNears
<1>3. AllInv /\ UpdateAt({"nap"}) => UpdateCanMove
  BY DEF UpdateCanMove, UpdateAt
<1> QED
  BY <1>1, <1>2, <1>3, PTL DEF Live, Step, Spec, Fairness, GuardsEnable

\* ... gets its mutex, which nobody else keeps ...
LEMMA UpdateLocks == Live => (UpdateAt({"lock"}) ~> UpdateAt({"test"}))
<1>1. UpdateAt({"lock"}) /\ Step => (UpdateAt({"lock"}) \/ UpdateAt({"test"}))'
  BY UpdateStops DEF Step, UpdateAt, UpdateNears
<1>2. UpdateAt({"lock"}) /\ Step /\ <<UpdateThread>>_vars => UpdateAt({"test"})'
  BY UpdateStops DEF Step, UpdateAt, UpdateNears
<1>3. AllInv /\ UpdateAt({"lock"}) => UpdateCanMove
  BY UpdateLockFree DEF UpdateCanMove, UpdateAt
<1> QED
  BY <1>1, <1>2, <1>3, PTL DEF Live, Step, Spec, Fairness, GuardsEnable

\* ... is woken from its wait by the caller ...
LEMMA UpdateWakes == Live => (UpdateAt({"waiting"}) ~> UpdateAt({"relock"}))
<1>1. UpdateAt({"waiting"}) /\ Step => (UpdateAt({"waiting"}) \/ UpdateAt({"relock"}))'
  BY UpdateStops DEF Step, UpdateAt, UpdateNears
<1>2. UpdateAt({"waiting"}) /\ Step /\ <<Controller>>_vars => UpdateAt({"relock"})'
  BY UpdateStops DEF Step, UpdateAt, UpdateNears
<1>3. AllInv /\ UpdateAt({"waiting"}) => ControllerCanMove
  BY UpdateLockFree DEF ControllerCanMove, UpdateAt, AllInv, Mutexes, NobodyStuck
<1> QED
  BY <1>1, <1>2, <1>3, PTL DEF Live, Step, Spec, Fairness, GuardsEnable

\* ... leaves the wait with its mutex ...
LEMMA UpdateRelocks == Live => (UpdateAt({"relock"}) ~> Retrying \/ Leaving)
<1>1. UpdateAt({"relock"}) /\ Step => (UpdateAt({"relock"}) \/ Retrying \/ Leaving)'
  BY UpdateStops DEF Step, UpdateAt, UpdateNears, Retrying, Leaving
<1>2. UpdateAt({"relock"}) /\ Step /\ <<UpdateThread>>_vars => (Retrying \/ Leaving)'
  BY UpdateStops DEF Step, UpdateAt, UpdateNears, Retrying, Leaving
<1>3. AllInv /\ UpdateAt({"relock"}) => UpdateCanMove
  BY UpdateLockFree DEF UpdateCanMove, UpdateAt
<1> QED
  BY <1>1, <1>2, <1>3, PTL DEF Live, Step, Spec, Fairness, GuardsEnable

\* ... gives up the requests to a device ...
LEMMA RetryEnds == Live => (Retrying ~> Leaving \/ UpdateAt({"test"}))
<1>1. Retrying /\ Step => (Retrying \/ Leaving \/ UpdateAt({"test"}))'
  BY UpdateStops DEF Step, UpdateAt, UpdateNears, Retrying, Leaving
<1>2. Retrying /\ Step /\ <<UpdateThread>>_vars => (Leaving \/ UpdateAt({"test"}))'
  BY UpdateStops DEF Step, UpdateAt, UpdateNears, Retrying, Leaving
<1>3. AllInv /\ Retrying => UpdateCanMove
  BY DEF UpdateCanMove, UpdateAt, Retrying
<1> QED
  BY <1>1, <1>2, <1>3, PTL DEF Live, Step, Spec, Fairness, GuardsEnable

\* ... and the rest of its scan ...
LEMMA ScanEnds == Live => (Leaving ~> UpdateAt({"test"}))
<1>1. Leaving /\ Step => (Leaving \/ UpdateAt({"test"}))'
  BY UpdateStops DEF Step, UpdateAt, UpdateNears, Leaving
<1>2. Leaving /\ Step /\ <<UpdateThread>>_vars => UpdateAt({"test"})'
  BY UpdateStops DEF Step, UpdateAt, UpdateNears, Leaving
<1>3. AllInv /\ Leaving => UpdateCanMove
  BY DEF UpdateCanMove, UpdateAt, Leaving
<1> QED
  BY <1>1, <1>2, <1>3, PTL DEF Live, Step, Spec, Fairness, GuardsEnable

\* ... sees the exit flag and returns.
LEMMA UpdateReturns == Live => (UpdateAt({"test"}) ~> UpdateAt({"none", "done"}))
<1>1. UpdateAt({"test"}) /\ Step => (UpdateAt({"test"}) \/ UpdateAt({"none", "done"}))'
  BY UpdateStops DEF Step, UpdateAt, UpdateNears
<1>2. UpdateAt({"test"}) /\ Step /\ <<UpdateThread>>_vars => UpdateAt({"none", "done"})'
  BY UpdateStops DEF Step, UpdateAt, UpdateNears
<1>3. AllInv /\ UpdateAt({"test"}) => UpdateCanMove
  BY DEF UpdateCanMove, UpdateAt
<1> QED
  BY <1>1, <1>2, <1>3, PTL DEF Live, Step, Spec, Fairness, GuardsEnable

\* The mutex of a thread that has ended is free.
LEMMA UpdateSignalled == Live => (UpdateGone("stopUpdate") ~> UpdateGone("joinUpdate"))
<1>1. UpdateGone("stopUpdate") /\ Step => (UpdateGone("stopUpdate") \/ UpdateGone("joinUpdate"))'
  BY UpdateStops DEF Step, UpdateGone, UpdateNears
<1>2. UpdateGone("stopUpdate") /\ Step /\ <<Controller>>_vars => UpdateGone("joinUpdate")'
  BY UpdateStops DEF Step, UpdateGone, UpdateNears
<1>3. AllInv /\ UpdateGone("stopUpdate") => ControllerCanMove
  BY UpdateLockFree DEF ControllerCanMove, UpdateGone
<1> QED
  BY <1>1, <1>2, <1>3, PTL DEF Live, Step, Spec, Fairness, GuardsEnable

\* It is joined.
LEMMA UpdateJoined == Live => (UpdateGone("joinUpdate") ~> Call("askPoll"))
<1>1. UpdateGone("joinUpdate") /\ Step => (UpdateGone("joinUpdate") \/ Call("askPoll"))'
  BY UpdateStops DEF Step, UpdateGone, UpdateNears, Call
<1>2. UpdateGone("joinUpdate") /\ Step /\ <<Controller>>_vars => Call("askPoll")'
  BY UpdateStops DEF Step, UpdateGone, UpdateNears, Call
<1>3. AllInv /\ UpdateGone("joinUpdate") => ControllerCanMove
  BY DEF ControllerCanMove, UpdateGone
<1> QED
  BY <1>1, <1>2, <1>3, PTL DEF Live, Step, Spec, Fairness, GuardsEnable

\* The poll thread is asked next.
LEMMA AsksPoll == Live => (Call("askPoll") ~> Call("stopPoll"))
<1>1. Call("askPoll") /\ Step => (Call("askPoll") \/ Call("stopPoll"))'
  BY CallMoves DEF Step, Call
<1>2. Call("askPoll") /\ Step /\ <<Controller>>_vars => Call("stopPoll")'
  BY CallMoves DEF Step, Call
<1>3. AllInv /\ Call("askPoll") => ControllerCanMove
  BY DEF ControllerCanMove, Call
<1> QED
  BY <1>1, <1>2, <1>3, PTL DEF Live, Step, Spec, Fairness, GuardsEnable

\* GetDeviceList or the hot-plug thread gives m_lock up ...
LEMMA APIGivesUp == Live => (Holds("api") ~> LockIsFree)
<1>1. Holds("api") /\ Step => (Holds("api") \/ LockIsFree)'
  BY HolderMoves DEF Step, Callers, LockIsFree
<1>2. Holds("api") /\ Step /\ <<Caller("api")>>_vars => LockIsFree'
  BY HolderMoves DEF Step, Callers, LockIsFree
<1> QED
  BY <1>1, <1>2, PTL DEF Live, Step, Spec, Fairness, GuardsEnable

\* ... and so does the power callback.
LEMMA PowerGivesUp == Live => (Holds("power") ~> LockIsFree)
<1>1. Holds("power") /\ Step => (Holds("power") \/ LockIsFree)'
  BY HolderMoves DEF Step, Callers, LockIsFree
<1>2. Holds("power") /\ Step /\ <<Caller("power")>>_vars => LockIsFree'
  BY HolderMoves DEF Step, Callers, LockIsFree
<1> QED
  BY <1>1, <1>2, PTL DEF Live, Step, Spec, Fairness, GuardsEnable

\* A poll thread that is asked to end breaks its scan off ...
LEMMA PollScanEnds == Live => (PollAt({"scan"}) ~> PollAt({"signal"}))
<1>1. PollAt({"scan"}) /\ Step => (PollAt({"scan"}) \/ PollAt({"signal"}))'
  BY PollStops DEF Step, PollAt, PollNears
<1>2. PollAt({"scan"}) /\ Step /\ <<PollThread>>_vars => PollAt({"signal"})'
  BY PollStops DEF Step, PollAt, PollNears
<1>3. AllInv /\ PollAt({"scan"}) => PollCanMove
  BY DEF PollCanMove, PollAt
<1> QED
  BY <1>1, <1>2, <1>3, PTL DEF Live, Step, Spec, Fairness, GuardsEnable

\* ... signals the update thread, which is gone ...
LEMMA PollSignals == Live => (PollAt({"signal"}) ~> PollAt({"wait"}))
<1>1. PollAt({"signal"}) /\ Step => (PollAt({"signal"}) \/ PollAt({"wait"}))'
  BY PollStops DEF Step, PollAt, PollNears
<1>2. PollAt({"signal"}) /\ Step /\ <<PollThread>>_vars => PollAt({"wait"})'
  BY PollStops DEF Step, PollAt, PollNears
<1>3. AllInv /\ PollAt({"signal"}) => PollCanMove
  BY DEF PollCanMove, PollAt
<1> QED
  BY <1>1, <1>2, <1>3, PTL DEF Live, Step, Spec, Fairness, GuardsEnable

\* ... and waits.
LEMMA PollWaitsThen == Live => (PollAt({"wait"}) ~> PollAt({"waiting"}))
<1>1. PollAt({"wait"}) /\ Step => (PollAt({"wait"}) \/ PollAt({"waiting"}))'
  BY PollStops DEF Step, PollAt, PollNears
<1>2. PollAt({"wait"}) /\ Step /\ <<PollThread>>_vars => PollAt({"waiting"})'
  BY PollStops DEF Step, PollAt, PollNears
<1>3. AllInv /\ PollAt({"wait"}) => PollCanMove
  BY DEF PollCanMove, PollAt
<1> QED
  BY <1>1, <1>2, <1>3, PTL DEF Live, Step, Spec, Fairness, GuardsEnable

\* The caller gets m_lock between the other callers and wakes it ...
LEMMA PollWakes == Live => (PollAt({"waiting"}) ~> PollAt({"lock"}))
<1>1. PollAt({"waiting"}) /\ Step => (PollAt({"waiting"}) \/ PollAt({"lock"}))'
  BY PollStops DEF Step, PollAt, PollNears
<1>2. PollAt({"waiting"}) /\ Step /\ <<Controller>>_vars => PollAt({"lock"})'
  BY PollStops DEF Step, PollAt, PollNears
<1>3. AllInv /\ PollAt({"waiting"}) => LockIsFree \/ Holds("api") \/ Holds("power")
  BY LockFreeOrHeld DEF PollAt, AllInv, Mutexes, NobodyStuck
<1>4. AllInv /\ PollAt({"waiting"}) /\ LockIsFree => ControllerCanMove
  BY DEF ControllerCanMove, LockIsFree, PollAt, AllInv, Mutexes, NobodyStuck
<1> QED
  BY <1>1, <1>2, <1>3, <1>4, APIGivesUp, PowerGivesUp, PTL
     DEF Live, Step, Spec, Fairness, GuardsEnable

\* ... or its nap ends ...
LEMMA PollNapsThen == Live => (PollAt({"nap"}) ~> PollAt({"lock"}))
<1>1. PollAt({"nap"}) /\ Step => (PollAt({"nap"}) \/ PollAt({"lock"}))'
  BY PollStops DEF Step, PollAt, PollNears
<1>2. PollAt({"nap"}) /\ Step /\ <<PollThread>>_vars => PollAt({"lock"})'
  BY PollStops DEF Step, PollAt, PollNears
<1>3. AllInv /\ PollAt({"nap"}) => PollCanMove
  BY DEF PollCanMove, PollAt
<1> QED
  BY <1>1, <1>2, <1>3, PTL DEF Live, Step, Spec, Fairness, GuardsEnable

\* ... and it gets m_lock in its turn ...
LEMMA PollLocks == Live => (PollAt({"lock"}) ~> PollAt({"test"}))
<1>1. PollAt({"lock"}) /\ Step => (PollAt({"lock"}) \/ PollAt({"test"}))'
  BY PollStops DEF Step, PollAt, PollNears
<1>2. PollAt({"lock"}) /\ Step /\ <<PollThread>>_vars => PollAt({"test"})'
  BY PollStops DEF Step, PollAt, PollNears
<1>3. AllInv /\ PollAt({"lock"}) => LockIsFree \/ Holds("api") \/ Holds("power")
  BY LockFreeOrHeld DEF PollAt
<1>4. AllInv /\ PollAt({"lock"}) /\ LockIsFree => PollCanMove
  BY DEF PollCanMove, LockIsFree, PollAt, AllInv, Mutexes, NobodyStuck
<1> QED
  BY <1>1, <1>2, <1>3, <1>4, APIGivesUp, PowerGivesUp, PTL
     DEF Live, Step, Spec, Fairness, GuardsEnable

\* ... sees the exit flag and returns.
LEMMA PollReturns == Live => (PollAt({"test"}) ~> PollAt({"none", "done"}))
<1>1. PollAt({"test"}) /\ Step => (PollAt({"test"}) \/ PollAt({"none", "done"}))'
  BY PollStops DEF Step, PollAt, PollNears
<1>2. PollAt({"test"}) /\ Step /\ <<PollThread>>_vars => PollAt({"none", "done"})'
  BY PollStops DEF Step, PollAt, PollNears
<1>3. AllInv /\ PollAt({"test"}) => PollCanMove
  BY DEF PollCanMove, PollAt
<1> QED
  BY <1>1, <1>2, <1>3, PTL DEF Live, Step, Spec, Fairness, GuardsEnable

\* The caller gets m_lock when the thread has ended, too.
LEMMA PollSignalled == Live => (PollGone("stopPoll") ~> PollGone("joinPoll"))
<1>1. PollGone("stopPoll") /\ Step => (PollGone("stopPoll") \/ PollGone("joinPoll"))'
  BY PollStops DEF Step, PollGone, PollNears
<1>2. PollGone("stopPoll") /\ Step /\ <<Controller>>_vars => PollGone("joinPoll")'
  BY PollStops DEF Step, PollGone, PollNears
<1>3. AllInv /\ PollGone("stopPoll") => LockIsFree \/ Holds("api") \/ Holds("power")
  BY DEF PollGone, AllInv, PhaseInv, On, Mutexes, NobodyStuck,
         PollLockComesFree, LockIsFree, Holds, Callers
<1>4. AllInv /\ PollGone("stopPoll") /\ LockIsFree => ControllerCanMove
  BY DEF ControllerCanMove, LockIsFree, PollGone, AllInv, Mutexes, NobodyStuck
<1> QED
  BY <1>1, <1>2, <1>3, <1>4, APIGivesUp, PowerGivesUp, PTL
     DEF Live, Step, Spec, Fairness, GuardsEnable

\* It is joined ...
LEMMA PollJoined == Live => (PollGone("joinPoll") ~> Call("close"))
<1>1. PollGone("joinPoll") /\ Step => (PollGone("joinPoll") \/ Call("close"))'
  BY PollStops DEF Step, PollGone, PollNears, Call
<1>2. PollGone("joinPoll") /\ Step /\ <<Controller>>_vars => Call("close")'
  BY PollStops DEF Step, PollGone, PollNears, Call
<1>3. AllInv /\ PollGone("joinPoll") => ControllerCanMove
  BY DEF ControllerCanMove, PollGone
<1> QED
  BY <1>1, <1>2, <1>3, PTL DEF Live, Step, Spec, Fairness, GuardsEnable

\* ... and the call returns.
LEMMA Closes == Live => (Call("close") ~> Call("idle"))
<1>1. Call("close") /\ Step => (Call("close") \/ Call("idle"))'
  BY CallMoves DEF Step, Call
<1>2. Call("close") /\ Step /\ <<Controller>>_vars => Call("idle")'
  BY CallMoves DEF Step, Call
<1>3. AllInv /\ Call("close") => ControllerCanMove
  BY DEF ControllerCanMove, Call
<1> QED
  BY <1>1, <1>2, <1>3, PTL DEF Live, Step, Spec, Fairness, GuardsEnable

\* A call of SetEnabled returns, whichever step of CECEnable fails and wherever the
\* two threads and the callers are: the thread that is asked to end does, with at
\* most the request in progress, and callers that take m_lock again and again
\* cannot keep it from the thread or from CECDisable for ever.
THEOREM Returns == ~CallsDuringEnable => (FairSpec /\ []GuardsEnable => SetEnabledReturns)
<1> SUFFICES ASSUME ~CallsDuringEnable PROVE FairSpec /\ []GuardsEnable => SetEnabledReturns
  OBVIOUS
<1>1. FairSpec /\ []GuardsEnable => Live
  BY State, MutexesHold, PTL DEF FairSpec, Live, AllInv
<1>2. AllInv => \/ Call("idle") \/ Call("open") \/ Call("greet") \/ Call("startUpdate")
                \/ Call("startPoll") \/ Call("stopUpdate") \/ Call("joinUpdate")
                \/ Call("askPoll") \/ Call("stopPoll") \/ Call("joinPoll") \/ Call("close")
  BY DEF AllInv, TypeOK, ControllerStates, Call
<1>3. AllInv /\ (Call("stopUpdate") \/ Call("joinUpdate")) =>
         \/ UpdateAt({"nap"}) \/ UpdateAt({"lock"}) \/ UpdateAt({"waiting"})
         \/ UpdateAt({"relock"}) \/ Retrying \/ Leaving \/ UpdateAt({"test"})
         \/ UpdateAt({"none", "done"})
  BY DEF AllInv, TypeOK, UpdateStates, Call, UpdateAt, Retrying, Leaving
<1>4. UpdateAt({"none", "done"}) => UpdateGone("stopUpdate") \/ UpdateGone("joinUpdate")
  BY DEF UpdateAt, UpdateGone
<1>5. AllInv /\ (Call("stopPoll") \/ Call("joinPoll")) =>
         \/ PollAt({"scan"}) \/ PollAt({"signal"}) \/ PollAt({"wait"}) \/ PollAt({"waiting"})
         \/ PollAt({"nap"}) \/ PollAt({"lock"}) \/ PollAt({"test"}) \/ PollAt({"none", "done"})
  BY DEF AllInv, TypeOK, PollStates, Call, PollAt
<1>6. PollAt({"none", "done"}) => PollGone("stopPoll") \/ PollGone("joinPoll")
  BY DEF PollAt, PollGone
<1>7. Call("idle") <=> cpc = "idle"
  BY DEF Call
<1>8. Live => /\ Call("stopUpdate") \/ Call("joinUpdate") ~> Call("askPoll")
              /\ Call("stopPoll") \/ Call("joinPoll") ~> Call("close")
  <2>1. Live => (Call("stopUpdate") \/ Call("joinUpdate") ~> Call("askPoll"))
    BY <1>3, <1>4, UpdateNaps, UpdateLocks, UpdateWakes, UpdateRelocks, RetryEnds, ScanEnds,
       UpdateReturns, UpdateSignalled, UpdateJoined, PTL DEF Live
  <2>2. Live => (Call("stopPoll") \/ Call("joinPoll") ~> Call("close"))
    BY <1>5, <1>6, PollScanEnds, PollSignals, PollWaitsThen, PollWakes, PollNapsThen,
       PollLocks, PollReturns, PollSignalled, PollJoined, PTL DEF Live
  <2> QED
    BY <2>1, <2>2, PTL
<1> QED
  BY <1>1, <1>2, <1>7, <1>8, Opens, Greets, StartsUpdate, StartsPoll, AsksPoll, Closes, PTL
     DEF Live, SetEnabledReturns

-------------------------------------------------------------------------------
(* A signal for the poll thread is answered.                                     *)

\* A signal that is due finds the thread before its next test, or told to end.
DueInv == scanDue => m_pollThreadExit \/ ppc \in {"nap", "lock", "test"}

Answered == ~scanDue \/ m_pollThreadExit \/ deepSleep
DueAt(p) == ~Answered /\ ppc = p

Nearer == <<ppc, ppc'>> \in {<<"nap", "lock">>, <<"lock", "test">>}

\* A signal comes while the thread waits, naps or is about to lock; with the
\* signal due the thread goes from there to its test, and does not wait.
LEMMA DueMoves ==
  ASSUME AllInv, AllInv', DueInv, [Next]_vars
  PROVE  /\ DueInv'
         /\ ~Answered => Answered' \/ ppc' = ppc \/ Nearer
         /\ ~Answered /\ PollThread => Answered' \/ Nearer
<1> DEFINE Keeps == DueInv' /\ (~Answered => Answered' \/ ppc' = ppc)
<1> USE DEF DueInv, Answered, Nearer
<1>1. ASSUME NEW c \in Callers, CallLock(c) PROVE Keeps
  BY <1>1 DEF CallLock, SignalPoll, AllInv, TypeOK, PollStates, Mutexes, LockInv, Free, exits
<1>2. ASSUME NEW c \in Callers, CallUnlock(c) PROVE Keeps
  BY <1>2 DEF CallUnlock, exits, poll, due
<1>3. ASSUME APICall \/ OnPowerModeChanged \/ PowerDecides PROVE Keeps
  BY <1>3 DEF APICall, OnPowerModeChanged, PowerDecides, exits, poll, due
<1>4. ASSUME PollThread PROVE DueInv' /\ (~Answered => Answered' \/ Nearer)
  BY <1>4 DEF PollThread, PollLock, PollEnds, ScanStarts, PollNaps, PollNapEnds, Ping,
              ActivateUpdate, PollWaits, exits, poll, due
<1>5. ASSUME PollSpuriousWakeUp \/ UpdateThread \/ UpdateSpuriousWakeUp PROVE Keeps
  BY <1>5 DEF PollSpuriousWakeUp, UpdateThread, UpdateLock, UpdateEnds, UpdateWaitsOrNaps,
              UpdateNapEnds, RequestDetail, NextDevice, UpdateScanEnds, UpdateSpuriousWakeUp,
              exits, poll, due
<1>6. ASSUME CECEnable \/ OpenConnection \/ Rollback \/ GreetTV PROVE Keeps
  BY <1>6 DEF CECEnable, OpenConnection, Rollback, GreetTV, exits, poll, due
<1>7. ASSUME NEW created \in BOOLEAN, StartUpdateThread(created) \/ StartPollThread(created)
      PROVE  Keeps
  BY <1>7 DEF StartUpdateThread, StartPollThread, exits, poll, due
<1>8. ASSUME CECDisable \/ SignalUpdateExit \/ JoinUpdateThread \/ AskPollExit PROVE Keeps
  BY <1>8 DEF CECDisable, SignalUpdateExit, JoinUpdateThread, AskPollExit, exits, poll, due
<1>9. ASSUME SignalPollExit \/ JoinPollThread \/ CloseConnection PROVE Keeps
  BY <1>9 DEF SignalPollExit, SignalPoll, JoinPollThread, CloseConnection, AllInv, PhaseInv,
              Mutexes, ExitInv, exits, poll, due
<1>10. ASSUME UNCHANGED vars PROVE Keeps
  BY <1>10 DEF vars, exits, poll, due
<1> QED
  BY <1>1, <1>2, <1>3, <1>4, <1>5, <1>6, <1>7, <1>8, <1>9, <1>10
     DEF Next, Caller, Controller

\* A thread that naps will lock ...
LEMMA NapAnswers == Live /\ []DueInv => (DueAt("nap") ~> DueAt("lock") \/ Answered)
<1>1. DueAt("nap") /\ DueInv /\ Step => (DueAt("nap") \/ DueAt("lock") \/ Answered)'
  BY DueMoves DEF Step, DueAt, Nearer
<1>2. DueAt("nap") /\ DueInv /\ Step /\ <<PollThread>>_vars => (DueAt("lock") \/ Answered)'
  BY DueMoves DEF Step, DueAt, Nearer
<1>3. DueAt("nap") => PollCanMove
  BY DEF DueAt, PollCanMove
<1> QED
  BY <1>1, <1>2, <1>3, PTL DEF Live, Step, Spec, Fairness, GuardsEnable

\* ... gets m_lock in its turn ...
LEMMA LockAnswers == Live /\ []DueInv => (DueAt("lock") ~> DueAt("test") \/ Answered)
<1>1. DueAt("lock") /\ DueInv /\ Step => (DueAt("lock") \/ DueAt("test") \/ Answered)'
  BY DueMoves DEF Step, DueAt, Nearer
<1>2. DueAt("lock") /\ DueInv /\ Step /\ <<PollThread>>_vars => (DueAt("test") \/ Answered)'
  BY DueMoves DEF Step, DueAt, Nearer
<1>3. AllInv /\ DueAt("lock") => LockIsFree \/ Holds("api") \/ Holds("power")
  BY LockFreeOrHeld DEF DueAt
<1>4. DueAt("lock") /\ LockIsFree => PollCanMove
  BY DEF DueAt, LockIsFree, PollCanMove
<1> QED
  BY <1>1, <1>2, <1>3, <1>4, APIGivesUp, PowerGivesUp, PTL
     DEF Live, Step, Spec, Fairness, GuardsEnable

\* ... and begins its scan.
LEMMA TestAnswers == Live /\ []DueInv => (DueAt("test") ~> Answered)
<1>1. DueAt("test") /\ DueInv /\ Step => (DueAt("test") \/ Answered)'
  BY DueMoves DEF Step, DueAt, Nearer
<1>2. DueAt("test") /\ DueInv /\ Step /\ <<PollThread>>_vars => (Answered)'
  BY DueMoves DEF Step, DueAt, Nearer
<1>3. DueAt("test") => PollCanMove
  BY DEF DueAt, PollCanMove
<1> QED
  BY <1>1, <1>2, <1>3, PTL DEF Live, Step, Spec, Fairness, GuardsEnable

\* A signal for the poll thread is answered by a new scan, unless the thread is told
\* to end or the device sleeps: no signal is lost in a scan, in a nap, between the
\* scan and the wait or among the callers, and m_lock is got in the end.
THEOREM TriggersAnswered ==
  ~CallsDuringEnable => (FairSpec /\ []GuardsEnable => ScanFollowsTrigger)
<1> SUFFICES ASSUME ~CallsDuringEnable
             PROVE  FairSpec /\ []GuardsEnable => ScanFollowsTrigger
  OBVIOUS
<1>1. Init => DueInv
  BY DEF Init, DueInv
<1>2. DueInv /\ Step => DueInv'
  BY DueMoves DEF Step
<1>3. FairSpec /\ []GuardsEnable => Live /\ []DueInv
  BY <1>1, <1>2, State, MutexesHold, PTL DEF FairSpec, Spec, Live, AllInv, Step
<1>4. scanDue /\ DueInv => Answered \/ DueAt("nap") \/ DueAt("lock") \/ DueAt("test")
  BY DEF DueInv, Answered, DueAt
<1>5. Answered <=> ~scanDue \/ m_pollThreadExit \/ deepSleep
  BY DEF Answered
<1> QED
  BY <1>3, <1>4, <1>5, NapAnswers, LockAnswers, TestAnswers, PTL DEF ScanFollowsTrigger
===============================================================================

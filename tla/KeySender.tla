------------------------------- MODULE KeySender -------------------------------
(***************************************************************************)
(* The remote-control key pipeline of HdmiCecSourceImplementation: clients *)
(* post keys into m_SendKeyQueue under m_sendKeyEventMutex, the key thread *)
(* (threadSendKeyEvent) pops them and sends a press and a release frame    *)
(* while it still holds the mutex, and CECEnable/CECDisable start and stop *)
(* that thread and the connection it sends on.                             *)
(*                                                                         *)
(* The mutex is not a variable: the only holder that keeps it over several *)
(* steps is the key thread between the pop and the end of the release, so  *)
(* MutexFree is a function of the thread's program counter.                *)
(* One caller of SetEnabled at a time is assumed.                          *)
(***************************************************************************)
EXTENDS Naturals, Sequences

CONSTANTS Requests,  \* the (address, key code) pairs clients may ask for
          MaxKeys    \* bound: how many keys are accepted in a behaviour

ASSUME RequestsAssumption == Requests \subseteq [logicalAddr : Nat, keyCode : Nat]
ASSUME MaxKeysAssumption == MaxKeys \in Nat

VARIABLES
    m_SendKeyQueue,            \* accepted and not yet popped
    m_sendKeyEventThreadRun,   \* the predicate of m_sendKeyCV
    m_sendKeyEventThreadExit,  \* asks the thread to end
    smConnection,              \* TRUE iff the pointer is not null
    cecEnableStatus,
    deepSleep,                 \* devicePowerState is STANDBY_DEEP_SLEEP
    tpc,                       \* program counter of threadSendKeyEvent
    keyInfo,                   \* its local copy of the key being sent
    pressed,                   \* whether the press of keyInfo was sent
    cpc,                       \* program counter of the SetEnabled caller
    accepted,                  \* history: the keys posted with success
    handled                    \* history: the keys sent or discarded

threadVars == <<tpc, keyInfo, pressed>>
flagVars == <<m_sendKeyEventThreadRun, m_sendKeyEventThreadExit>>
linkVars == <<smConnection, cecEnableStatus>>
vars == <<m_SendKeyQueue, flagVars, linkVars, deepSleep, threadVars, cpc,
          accepted, handled>>

-------------------------------------------------------------------------------
(* Key codes and addresses. *)

UNREGISTERED == 15

\* The key codes getUIKeyCode translates; any other gives KEY_UNSUPPORTED.
UIKeyCodes == (0 .. 4) \cup {9, 13} \cup (32 .. 41) \cup (65 .. 67)

Valid(r) == r.logicalAddr <= UNREGISTERED /\ r.keyCode \in UIKeyCodes

Keys == {r \in Requests : Valid(r)}

NoKey == [logicalAddr |-> UNREGISTERED + 1, keyCode |-> 0]

ThreadStates == {"none", "loop", "power", "nap", "lock", "waiting",
                 "press", "release", "done"}
ControllerStates == {"idle", "start", "open", "greet", "notify", "join", "free"}

MutexFree == tpc \notin {"press", "release"}

\* notify_one on m_sendKeyCV: the only thread that waits on it is the key thread.
Notify == tpc' = IF tpc = "waiting" THEN "lock" ELSE tpc

-------------------------------------------------------------------------------
Init ==
    /\ m_SendKeyQueue = <<>>
    /\ m_sendKeyEventThreadRun = FALSE
    /\ m_sendKeyEventThreadExit = FALSE
    /\ smConnection = FALSE
    /\ cecEnableStatus = FALSE
    /\ deepSleep \in BOOLEAN
    /\ tpc = "none"
    /\ keyInfo = NoKey
    /\ pressed = FALSE
    /\ cpc = "idle"
    /\ accepted = <<>>
    /\ handled = <<>>

\* Seeded fault: the arguments are not validated.
SendKeyUnvalidated(r) ==
    /\ MutexFree
    /\ Len(accepted) < MaxKeys
    /\ m_SendKeyQueue' = Append(m_SendKeyQueue, r)
    /\ accepted' = Append(accepted, r)
    /\ m_sendKeyEventThreadRun' = TRUE
    /\ Notify
    /\ UNCHANGED <<m_sendKeyEventThreadExit, linkVars, deepSleep, keyInfo,
                   pressed, cpc, handled>>

(* A client: a request that fails the validation changes nothing, and a    *)
(* valid one is accepted whether or not CEC is enabled.                    *)
SendKeyPressEvent(r) ==
    /\ Valid(r)
    /\ MutexFree
    /\ Len(accepted) < MaxKeys
    /\ m_SendKeyQueue' = Append(m_SendKeyQueue, r)
    /\ accepted' = Append(accepted, r)
    /\ m_sendKeyEventThreadRun' = TRUE
    /\ Notify
    /\ UNCHANGED <<m_sendKeyEventThreadExit, linkVars, deepSleep, keyInfo,
                   pressed, cpc, handled>>

\* The power manager enters or leaves deep sleep.
OnPowerModeChanged ==
    /\ deepSleep' = ~deepSleep
    /\ UNCHANGED <<m_SendKeyQueue, flagVars, linkVars, threadVars, cpc,
                   accepted, handled>>

-------------------------------------------------------------------------------
(* The key thread. *)

\* while (!m_sendKeyEventThreadExit), read without the mutex.
LoopTest ==
    /\ tpc = "loop"
    /\ tpc' = IF m_sendKeyEventThreadExit THEN "done" ELSE "power"
    /\ UNCHANGED <<m_SendKeyQueue, flagVars, linkVars, deepSleep, keyInfo,
                   pressed, cpc, accepted, handled>>

PowerTest ==
    /\ tpc = "power"
    /\ tpc' = IF deepSleep THEN "nap" ELSE "lock"
    /\ keyInfo' = IF deepSleep THEN keyInfo ELSE NoKey
    /\ UNCHANGED <<m_SendKeyQueue, flagVars, linkVars, deepSleep, pressed,
                   cpc, accepted, handled>>

NapEnds ==
    /\ tpc = "nap"
    /\ tpc' = "loop"
    /\ UNCHANGED <<m_SendKeyQueue, flagVars, linkVars, deepSleep, keyInfo,
                   pressed, cpc, accepted, handled>>

\* The mutex is acquired and the predicate is false: wait.
Wait ==
    /\ tpc = "lock"
    /\ ~m_sendKeyEventThreadRun
    /\ tpc' = "waiting"
    /\ UNCHANGED <<m_SendKeyQueue, flagVars, linkVars, deepSleep, keyInfo,
                   pressed, cpc, accepted, handled>>

SpuriousWakeUp ==
    /\ tpc = "waiting"
    /\ tpc' = "lock"
    /\ UNCHANGED <<m_SendKeyQueue, flagVars, linkVars, deepSleep, keyInfo,
                   pressed, cpc, accepted, handled>>

\* The predicate holds and the thread is asked to end: keys stay queued.
ExitTaken ==
    /\ tpc = "lock"
    /\ m_sendKeyEventThreadRun
    /\ m_sendKeyEventThreadExit
    /\ m_sendKeyEventThreadRun' = FALSE
    /\ tpc' = "done"
    /\ UNCHANGED <<m_SendKeyQueue, m_sendKeyEventThreadExit, linkVars,
                   deepSleep, keyInfo, pressed, cpc, accepted, handled>>

QueueEmpty ==
    /\ tpc = "lock"
    /\ m_sendKeyEventThreadRun
    /\ ~m_sendKeyEventThreadExit
    /\ m_SendKeyQueue = <<>>
    /\ m_sendKeyEventThreadRun' = FALSE
    /\ tpc' = "loop"
    /\ UNCHANGED <<m_SendKeyQueue, m_sendKeyEventThreadExit, linkVars,
                   deepSleep, keyInfo, pressed, cpc, accepted, handled>>

\* Seeded fault: front() without pop().
PopKeepsKey ==
    /\ tpc = "lock"
    /\ m_sendKeyEventThreadRun
    /\ ~m_sendKeyEventThreadExit
    /\ m_SendKeyQueue # <<>>
    /\ keyInfo' = Head(m_SendKeyQueue)
    /\ tpc' = "press"
    /\ UNCHANGED <<m_SendKeyQueue, flagVars, linkVars, deepSleep, pressed, cpc,
                   accepted, handled>>

\* Seeded fault: the run flag is cleared after every key.
PopClearsRun ==
    /\ tpc = "lock"
    /\ m_sendKeyEventThreadRun
    /\ ~m_sendKeyEventThreadExit
    /\ m_SendKeyQueue # <<>>
    /\ keyInfo' = Head(m_SendKeyQueue)
    /\ m_SendKeyQueue' = Tail(m_SendKeyQueue)
    /\ m_sendKeyEventThreadRun' = FALSE
    /\ tpc' = "press"
    /\ UNCHANGED <<m_sendKeyEventThreadExit, linkVars, deepSleep, pressed, cpc,
                   accepted, handled>>

Pop ==
    /\ tpc = "lock"
    /\ m_sendKeyEventThreadRun
    /\ ~m_sendKeyEventThreadExit
    /\ m_SendKeyQueue # <<>>
    /\ keyInfo' = Head(m_SendKeyQueue)
    /\ m_SendKeyQueue' = Tail(m_SendKeyQueue)
    /\ tpc' = "press"
    /\ UNCHANGED <<flagVars, linkVars, deepSleep, pressed, cpc, accepted, handled>>

\* sendKeyPressEvent: the frame is sent only if there is a connection.
Press ==
    /\ tpc = "press"
    /\ pressed' = smConnection
    /\ tpc' = "release"
    /\ UNCHANGED <<m_SendKeyQueue, flagVars, linkVars, deepSleep, keyInfo, cpc,
                   accepted, handled>>

\* Seeded fault: the release is skipped when the thread is asked to end.
ReleaseUnlessExit ==
    /\ tpc = "release"
    /\ handled' = Append(handled, [key |-> keyInfo, press |-> pressed,
                                   release |-> smConnection /\ ~m_sendKeyEventThreadExit])
    /\ tpc' = "loop"
    /\ UNCHANGED <<m_SendKeyQueue, flagVars, linkVars, deepSleep, keyInfo,
                   pressed, cpc, accepted>>

\* sendKeyReleaseEvent looks at the connection again; then the mutex is free.
Release ==
    /\ tpc = "release"
    /\ handled' = Append(handled, [key |-> keyInfo, press |-> pressed,
                                   release |-> smConnection])
    /\ tpc' = "loop"
    /\ UNCHANGED <<m_SendKeyQueue, flagVars, linkVars, deepSleep, keyInfo,
                   pressed, cpc, accepted>>

KeyThread == LoopTest \/ PowerTest \/ NapEnds \/ Wait \/ ExitTaken
                \/ QueueEmpty \/ Pop \/ Press \/ Release

-------------------------------------------------------------------------------
(* SetEnabled(true): CECEnable and its rollback. *)

CECEnable ==
    /\ cpc = "idle"
    /\ ~cecEnableStatus
    /\ m_sendKeyEventThreadExit' = FALSE
    /\ cpc' = "start"
    /\ UNCHANGED <<m_SendKeyQueue, m_sendKeyEventThreadRun, linkVars,
                   deepSleep, threadVars, accepted, handled>>

\* Joins a thread that is still joinable and starts a new one; the creation
\* may fail, which is logged only.
StartKeyThread(created) ==
    /\ cpc = "start"
    /\ tpc \in {"none", "done"}
    /\ tpc' = IF created THEN "loop" ELSE "none"
    /\ keyInfo' = NoKey
    /\ cpc' = "open"
    /\ UNCHANGED <<m_SendKeyQueue, flagVars, linkVars, deepSleep, pressed,
                   accepted, handled>>

\* The connection is opened and the status is set, before the first sends.
OpenConnection ==
    /\ cpc = "open"
    /\ smConnection' = TRUE
    /\ cecEnableStatus' = TRUE
    /\ cpc' = "greet"
    /\ UNCHANGED <<m_SendKeyQueue, flagVars, deepSleep, threadVars, accepted, handled>>

\* new Connection or its open() throws: the rollback asks the thread to end.
OpenFails(created) ==
    /\ cpc = "open"
    /\ smConnection' = created
    /\ cecEnableStatus' = FALSE
    /\ m_sendKeyEventThreadExit' = TRUE
    /\ cpc' = "notify"
    /\ UNCHANGED <<m_SendKeyQueue, m_sendKeyEventThreadRun, deepSleep,
                   threadVars, accepted, handled>>

GreetTV ==
    /\ cpc = "greet"
    /\ cpc' = "idle"
    /\ UNCHANGED <<m_SendKeyQueue, flagVars, linkVars, deepSleep, threadVars,
                   accepted, handled>>

\* One of the first sends throws: the rollback again.
GreetFails ==
    /\ cpc = "greet"
    /\ cecEnableStatus' = FALSE
    /\ m_sendKeyEventThreadExit' = TRUE
    /\ cpc' = "notify"
    /\ UNCHANGED <<m_SendKeyQueue, m_sendKeyEventThreadRun, smConnection,
                   deepSleep, threadVars, accepted, handled>>

-------------------------------------------------------------------------------
(* SetEnabled(false): CECDisable; the rollback shares its last three steps. *)

\* The exit flag is written before the mutex is taken.
CECDisable ==
    /\ cpc = "idle"
    /\ cecEnableStatus
    /\ m_sendKeyEventThreadExit' = TRUE
    /\ cpc' = "notify"
    /\ UNCHANGED <<m_SendKeyQueue, m_sendKeyEventThreadRun, linkVars, deepSleep,
                   threadVars, accepted, handled>>

\* Seeded fault: the waiting thread is notified but the predicate is left alone.
NotifyExitOnly ==
    /\ cpc = "notify"
    /\ MutexFree
    /\ Notify
    /\ cpc' = "join"
    /\ UNCHANGED <<m_SendKeyQueue, flagVars, linkVars, deepSleep, keyInfo,
                   pressed, accepted, handled>>

NotifyExit ==
    /\ cpc = "notify"
    /\ MutexFree
    /\ m_sendKeyEventThreadRun' = TRUE
    /\ Notify
    /\ cpc' = "join"
    /\ UNCHANGED <<m_SendKeyQueue, m_sendKeyEventThreadExit, linkVars, deepSleep,
                   keyInfo, pressed, accepted, handled>>

JoinKeyThread ==
    /\ cpc = "join"
    /\ tpc \in {"none", "done"}
    /\ tpc' = "none"
    /\ cpc' = "free"
    /\ UNCHANGED <<m_SendKeyQueue, flagVars, linkVars, deepSleep, keyInfo,
                   pressed, accepted, handled>>

FreeConnection ==
    /\ cpc = "free"
    /\ smConnection' = FALSE
    /\ cecEnableStatus' = FALSE
    /\ cpc' = "idle"
    /\ UNCHANGED <<m_SendKeyQueue, flagVars, deepSleep, threadVars, accepted, handled>>

Controller == \/ \E created \in BOOLEAN : StartKeyThread(created) \/ OpenFails(created)
              \/ OpenConnection \/ GreetTV \/ GreetFails
              \/ NotifyExit \/ JoinKeyThread \/ FreeConnection

-------------------------------------------------------------------------------
Next == \/ \E r \in Requests : SendKeyPressEvent(r)
        \/ OnPowerModeChanged
        \/ KeyThread
        \/ SpuriousWakeUp
        \/ CECEnable
        \/ CECDisable
        \/ Controller

\* The threads are scheduled by the operating system: neither the key thread
\* nor a SetEnabled call in progress is stopped for ever while it can move.
Fairness == WF_vars(KeyThread) /\ WF_vars(Controller)

Spec == Init /\ [][Next]_vars

FairSpec == Spec /\ Fairness

-------------------------------------------------------------------------------
(* Properties. *)

\* Every variable has its type, and a key in the thread's hands is a real one.
TypeOK ==
    /\ m_SendKeyQueue \in Seq(Keys)
    /\ m_sendKeyEventThreadRun \in BOOLEAN
    /\ m_sendKeyEventThreadExit \in BOOLEAN
    /\ smConnection \in BOOLEAN
    /\ cecEnableStatus \in BOOLEAN
    /\ deepSleep \in BOOLEAN
    /\ tpc \in ThreadStates
    /\ keyInfo \in Keys \cup {NoKey}
    /\ tpc \in {"press", "release"} => keyInfo \in Keys
    /\ pressed \in BOOLEAN
    /\ cpc \in ControllerStates
    /\ accepted \in Seq(Keys)
    /\ handled \in Seq([key : Keys, press : BOOLEAN, release : BOOLEAN])

InHand == IF tpc \in {"press", "release"} THEN 1 ELSE 0

\* A key posted with success is at every moment in exactly one place - handled,
\* in the thread's hands or queued - in the order of the posts, over any number
\* of stops and restarts of the thread.
KeysInOrderOnce ==
    /\ Len(accepted) = Len(handled) + InHand + Len(m_SendKeyQueue)
    /\ \A i \in 1 .. Len(handled) : handled[i].key = accepted[i]
    /\ InHand = 1 => keyInfo = accepted[Len(handled) + 1]
    /\ \A i \in 1 .. Len(m_SendKeyQueue) :
          m_SendKeyQueue[i] = accepted[Len(handled) + InHand + i]

\* While CECDisable or the rollback joins the key thread, the thread is never
\* asleep on the condition variable: the exit request cannot be missed between
\* the test of the predicate and the wait.
JoinNeverStuck == cpc = "join" => tpc # "waiting"

\* The connection is only freed once the key thread is gone, so a thread that
\* sent a press still has the connection for the release.
PressKeepsConnection == tpc = "release" /\ pressed => smConnection

Channel == INSTANCE KeyChannel WITH Keys <- Keys, accepted <- accepted, handled <- handled

\* The pipeline implements the promise of KeyChannel: order, at most once, only
\* valid keys, and no press without its release.
ImplementsChannel == Channel!Spec

\* A SetEnabled call in progress returns: the join of the key thread ends.
SetEnabledReturns == cpc # "idle" ~> cpc = "idle"

ThreadAlive == tpc \notin {"none", "done"}

\* While the thread lives and is asked to run, every key accepted so far is
\* handled, unless the thread is told to end or the device enters deep sleep.
KeysServed ==
    \A n \in 1 .. MaxKeys :
        (Len(accepted) >= n /\ m_sendKeyEventThreadRun /\ ThreadAlive)
            ~> (Len(handled) >= n \/ m_sendKeyEventThreadExit \/ deepSleep)
===============================================================================

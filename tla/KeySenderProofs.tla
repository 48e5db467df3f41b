---------------------------- MODULE KeySenderProofs ----------------------------
(***************************************************************************)
(* The safety properties of KeySender for any set of requests and any      *)
(* number of keys, and that it implements KeyChannel.  The inductive       *)
(* invariant adds to the properties what they rest on: while the exit is   *)
(* announced the flags keep the thread from waiting, and the connection    *)
(* outlives the key thread.                                                *)
(***************************************************************************)
EXTENDS KeySender, TLAPS

\* From the exit request to the join: the request stands, and in the join the
\* predicate of the condition variable stays true until the thread is done.  The
\* thread waits only while the predicate is false.
StopInv ==
    /\ cpc \in {"notify", "join"} => m_sendKeyEventThreadExit
    /\ cpc = "join" /\ ThreadAlive => m_sendKeyEventThreadRun
    /\ tpc = "waiting" => ~m_sendKeyEventThreadRun

\* The thread ends before the connection does, and none is open between two
\* sessions or before CECEnable opens one.
LinkInv ==
    /\ cpc = "free" => tpc = "none"
    /\ cpc \in {"start", "open"} => ~smConnection
    /\ cpc = "greet" => cecEnableStatus
    /\ cpc = "idle" /\ ~cecEnableStatus => ~smConnection
    /\ cpc = "start" \/ (cpc = "idle" /\ ~cecEnableStatus) => tpc = "none"

IInv == TypeOK /\ KeysInOrderOnce /\ JoinNeverStuck /\ StopInv /\ LinkInv
            /\ PressKeepsConnection

-------------------------------------------------------------------------------
\* A key the API accepts is a record of naturals, and the marker of no key is not one.
LEMMA KeysAreRecords == Keys \subseteq [logicalAddr : Nat, keyCode : Nat] /\ NoKey \notin Keys
  BY RequestsAssumption DEF Keys, Valid, NoKey, UNREGISTERED

\* An outcome built from two Booleans is an element of the record set of handled.
LEMMA OutcomeType ==
  ASSUME NEW k \in Keys, NEW p \in BOOLEAN, NEW r \in BOOLEAN
  PROVE  [key |-> k, press |-> p, release |-> r]
            \in [key : Keys, press : BOOLEAN, release : BOOLEAN]
  OBVIOUS

\* The strengthened invariant holds when the object has been constructed.
LEMMA InitInv == Init => IInv
<1> SUFFICES ASSUME Init PROVE IInv
  OBVIOUS
<1>1. TypeOK
  <2>1. /\ m_SendKeyQueue \in Seq(Keys)
        /\ accepted \in Seq(Keys)
        /\ handled \in Seq([key : Keys, press : BOOLEAN, release : BOOLEAN])
    BY DEF Init
  <2> QED
    BY <2>1 DEF Init, TypeOK, ThreadStates, ControllerStates
<1>2. KeysInOrderOnce
  BY DEF Init, KeysInOrderOnce, InHand
<1>3. JoinNeverStuck /\ StopInv /\ LinkInv /\ PressKeepsConnection
  BY DEF Init, JoinNeverStuck, StopInv, LinkInv, PressKeepsConnection
<1> QED
  BY <1>1, <1>2, <1>3 DEF IInv

\* Every step keeps the types.
LEMMA TypeStep == TypeOK /\ [Next]_vars => TypeOK'
<1> SUFFICES ASSUME TypeOK, [Next]_vars PROVE TypeOK'
  OBVIOUS
<1> USE DEF TypeOK, vars, flagVars, linkVars, threadVars, ThreadStates,
            ControllerStates
<1>1. ASSUME NEW r \in Requests, SendKeyPressEvent(r) PROVE TypeOK'
  <2>1. r \in Keys
    BY <1>1 DEF SendKeyPressEvent, Keys
  <2> QED
    BY <1>1, <2>1 DEF SendKeyPressEvent, Notify, MutexFree
<1>2. CASE OnPowerModeChanged
  BY <1>2 DEF OnPowerModeChanged
<1>3. CASE LoopTest
  BY <1>3 DEF LoopTest
<1>4. CASE PowerTest
  BY <1>4 DEF PowerTest
<1>5. CASE NapEnds
  BY <1>5 DEF NapEnds
<1>6. CASE Wait
  BY <1>6 DEF Wait
<1>7. CASE ExitTaken
  BY <1>7 DEF ExitTaken
<1>8. CASE QueueEmpty
  BY <1>8 DEF QueueEmpty
<1>9. CASE Pop
  BY <1>9 DEF Pop
<1>10. CASE Press
  BY <1>10 DEF Press
<1>11. CASE Release
  <2>1. [key |-> keyInfo, press |-> pressed, release |-> smConnection]
           \in [key : Keys, press : BOOLEAN, release : BOOLEAN]
    <3>1. tpc = "release"
      BY <1>11 DEF Release
    <3>2. keyInfo \in Keys
      BY <3>1
    <3>3. pressed \in BOOLEAN
      OBVIOUS
    <3>4. smConnection \in BOOLEAN
      OBVIOUS
    <3> HIDE DEF TypeOK
    <3> QED
      BY <3>2, <3>3, <3>4, OutcomeType
  <2>2. handled' \in Seq([key : Keys, press : BOOLEAN, release : BOOLEAN])
    BY <1>11, <2>1 DEF Release
  <2> QED
    BY <1>11, <2>2 DEF Release
<1>12. CASE SpuriousWakeUp
  BY <1>12 DEF SpuriousWakeUp
<1>13. CASE CECEnable
  BY <1>13 DEF CECEnable
<1>14. CASE CECDisable
  BY <1>14 DEF CECDisable
<1>15. ASSUME NEW created \in BOOLEAN, StartKeyThread(created) PROVE TypeOK'
  BY <1>15 DEF StartKeyThread
<1>16. ASSUME NEW created \in BOOLEAN, OpenFails(created) PROVE TypeOK'
  BY <1>16 DEF OpenFails
<1>17. CASE OpenConnection
  BY <1>17 DEF OpenConnection
<1>18. CASE GreetTV
  BY <1>18 DEF GreetTV
<1>19. CASE GreetFails
  BY <1>19 DEF GreetFails
<1>20. CASE NotifyExit
  BY <1>20 DEF NotifyExit, Notify, MutexFree
<1>21. CASE JoinKeyThread
  BY <1>21 DEF JoinKeyThread
<1>22. CASE FreeConnection
  BY <1>22 DEF FreeConnection
<1>23. CASE UNCHANGED vars
  BY <1>23 DEF vars
<1> QED
  BY <1>1, <1>2, <1>3, <1>4, <1>5, <1>6, <1>7, <1>8, <1>9, <1>10, <1>11,
     <1>12, <1>13, <1>14, <1>15, <1>16, <1>17, <1>18, <1>19, <1>20, <1>21, <1>22, <1>23
     DEF Next, KeyThread, Controller

\* The exit request stands until the thread has been joined.
LEMMA StopStep == TypeOK /\ StopInv /\ JoinNeverStuck /\ [Next]_vars => (StopInv /\ JoinNeverStuck)'
<1> SUFFICES ASSUME TypeOK, StopInv, JoinNeverStuck, [Next]_vars PROVE (StopInv /\ JoinNeverStuck)'
  OBVIOUS
<1> USE DEF TypeOK, StopInv, JoinNeverStuck, ThreadAlive, vars, flagVars, linkVars, threadVars
<1>1. ASSUME NEW r \in Requests, SendKeyPressEvent(r) PROVE (StopInv /\ JoinNeverStuck)'
  BY <1>1 DEF SendKeyPressEvent, Notify
<1>2. CASE OnPowerModeChanged
  BY <1>2 DEF OnPowerModeChanged
<1>3. CASE LoopTest
  BY <1>3 DEF LoopTest
<1>4. CASE PowerTest
  BY <1>4 DEF PowerTest
<1>5. CASE NapEnds
  BY <1>5 DEF NapEnds
<1>6. CASE Wait
  BY <1>6 DEF Wait
<1>7. CASE ExitTaken
  BY <1>7 DEF ExitTaken
<1>8. CASE QueueEmpty
  BY <1>8 DEF QueueEmpty
<1>9. CASE Pop
  BY <1>9 DEF Pop
<1>10. CASE Press
  BY <1>10 DEF Press
<1>11. CASE Release
  BY <1>11 DEF Release
<1>12. CASE SpuriousWakeUp
  BY <1>12 DEF SpuriousWakeUp
<1>13. CASE CECEnable
  BY <1>13 DEF CECEnable
<1>14. CASE CECDisable
  BY <1>14 DEF CECDisable
<1>15. ASSUME NEW created \in BOOLEAN, StartKeyThread(created) PROVE (StopInv /\ JoinNeverStuck)'
  BY <1>15 DEF StartKeyThread
<1>16. ASSUME NEW created \in BOOLEAN, OpenFails(created) PROVE (StopInv /\ JoinNeverStuck)'
  BY <1>16 DEF OpenFails
<1>17. CASE OpenConnection
  BY <1>17 DEF OpenConnection
<1>18. CASE GreetTV
  BY <1>18 DEF GreetTV
<1>19. CASE GreetFails
  BY <1>19 DEF GreetFails
<1>20. CASE NotifyExit
  BY <1>20 DEF NotifyExit, Notify
<1>21. CASE JoinKeyThread
  BY <1>21 DEF JoinKeyThread
<1>22. CASE FreeConnection
  BY <1>22 DEF FreeConnection
<1>23. CASE UNCHANGED vars
  BY <1>23 DEF vars
<1> QED
  BY <1>1, <1>2, <1>3, <1>4, <1>5, <1>6, <1>7, <1>8, <1>9, <1>10, <1>11,
     <1>12, <1>13, <1>14, <1>15, <1>16, <1>17, <1>18, <1>19, <1>20, <1>21, <1>22, <1>23
     DEF Next, KeyThread, Controller

\* The connection outlives the key thread.
LEMMA LinkStep == TypeOK /\ LinkInv /\ PressKeepsConnection /\ [Next]_vars => (LinkInv /\ PressKeepsConnection)'
<1> SUFFICES ASSUME TypeOK, LinkInv, PressKeepsConnection, [Next]_vars PROVE (LinkInv /\ PressKeepsConnection)'
  OBVIOUS
<1> USE DEF TypeOK, LinkInv, PressKeepsConnection, vars, flagVars, linkVars, threadVars
<1>1. ASSUME NEW r \in Requests, SendKeyPressEvent(r) PROVE (LinkInv /\ PressKeepsConnection)'
  BY <1>1 DEF SendKeyPressEvent, Notify
<1>2. CASE OnPowerModeChanged
  BY <1>2 DEF OnPowerModeChanged
<1>3. CASE LoopTest
  BY <1>3 DEF LoopTest
<1>4. CASE PowerTest
  BY <1>4 DEF PowerTest
<1>5. CASE NapEnds
  BY <1>5 DEF NapEnds
<1>6. CASE Wait
  BY <1>6 DEF Wait
<1>7. CASE ExitTaken
  BY <1>7 DEF ExitTaken
<1>8. CASE QueueEmpty
  BY <1>8 DEF QueueEmpty
<1>9. CASE Pop
  BY <1>9 DEF Pop
<1>10. CASE Press
  BY <1>10 DEF Press
<1>11. CASE Release
  BY <1>11 DEF Release
<1>12. CASE SpuriousWakeUp
  BY <1>12 DEF SpuriousWakeUp
<1>13. CASE CECEnable
  BY <1>13 DEF CECEnable
<1>14. CASE CECDisable
  BY <1>14 DEF CECDisable
<1>15. ASSUME NEW created \in BOOLEAN, StartKeyThread(created) PROVE (LinkInv /\ PressKeepsConnection)'
  BY <1>15 DEF StartKeyThread
<1>16. ASSUME NEW created \in BOOLEAN, OpenFails(created) PROVE (LinkInv /\ PressKeepsConnection)'
  <2>1. ~(tpc = "release" /\ pressed) /\ UNCHANGED <<tpc, pressed>> /\ cpc' = "notify"
    BY <1>16 DEF OpenFails
  <2> QED
    BY <2>1
<1>17. CASE OpenConnection
  BY <1>17 DEF OpenConnection
<1>18. CASE GreetTV
  BY <1>18 DEF GreetTV
<1>19. CASE GreetFails
  BY <1>19 DEF GreetFails
<1>20. CASE NotifyExit
  BY <1>20 DEF NotifyExit, Notify
<1>21. CASE JoinKeyThread
  BY <1>21 DEF JoinKeyThread
<1>22. CASE FreeConnection
  BY <1>22 DEF FreeConnection
<1>23. CASE UNCHANGED vars
  BY <1>23 DEF vars
<1> QED
  BY <1>1, <1>2, <1>3, <1>4, <1>5, <1>6, <1>7, <1>8, <1>9, <1>10, <1>11,
     <1>12, <1>13, <1>14, <1>15, <1>16, <1>17, <1>18, <1>19, <1>20, <1>21, <1>22, <1>23
     DEF Next, KeyThread, Controller

\* Posting, taking and finishing a key move it along accepted, in order.
LEMMA OrderStep == TypeOK /\ KeysInOrderOnce /\ [Next]_vars => KeysInOrderOnce'
<1> SUFFICES ASSUME TypeOK, KeysInOrderOnce, [Next]_vars PROVE KeysInOrderOnce'
  OBVIOUS
<1> DEFINE Same == UNCHANGED <<m_SendKeyQueue, accepted, handled>>
<1>1. ASSUME NEW r \in Requests, SendKeyPressEvent(r) PROVE KeysInOrderOnce'
  <2>1. InHand = 0 /\ InHand' = 0
    BY <1>1 DEF SendKeyPressEvent, MutexFree, InHand, Notify
  <2>2. /\ m_SendKeyQueue' = Append(m_SendKeyQueue, r)
        /\ accepted' = Append(accepted, r)
        /\ UNCHANGED handled
    BY <1>1 DEF SendKeyPressEvent
  <2>3. r \in Keys
    BY <1>1 DEF SendKeyPressEvent, Keys
  <2>4. /\ Len(accepted') = Len(accepted) + 1
        /\ \A i \in 1 .. Len(accepted) : accepted'[i] = accepted[i]
        /\ accepted'[Len(accepted) + 1] = r
        /\ Len(accepted) \in Nat
    BY <2>2, <2>3 DEF TypeOK
  <2>5. /\ Len(m_SendKeyQueue') = Len(m_SendKeyQueue) + 1
        /\ \A i \in 1 .. Len(m_SendKeyQueue) : m_SendKeyQueue'[i] = m_SendKeyQueue[i]
        /\ m_SendKeyQueue'[Len(m_SendKeyQueue) + 1] = r
        /\ Len(m_SendKeyQueue) \in Nat
    BY <2>2, <2>3 DEF TypeOK
  <2>6. Len(handled) \in Nat /\ UNCHANGED handled
    BY <2>2 DEF TypeOK
  <2>7. \A i \in 1 .. Len(m_SendKeyQueue') :
           m_SendKeyQueue'[i] = accepted'[Len(handled) + i]
    <3> SUFFICES ASSUME NEW i \in 1 .. Len(m_SendKeyQueue')
                 PROVE  m_SendKeyQueue'[i] = accepted'[Len(handled) + i]
      OBVIOUS
    <3>1. CASE i \in 1 .. Len(m_SendKeyQueue)
      <4>1. m_SendKeyQueue[i] = accepted[Len(handled) + i]
        BY <3>1, <2>1, <2>6 DEF KeysInOrderOnce
      <4>2. Len(handled) + i \in 1 .. Len(accepted)
        BY <3>1, <2>1, <2>4, <2>5, <2>6 DEF KeysInOrderOnce
      <4> QED
        BY <3>1, <4>1, <4>2, <2>4, <2>5
    <3>2. CASE i = Len(m_SendKeyQueue) + 1
      BY <3>2, <2>1, <2>4, <2>5, <2>6 DEF KeysInOrderOnce
    <3> QED
      BY <3>1, <3>2, <2>5
  <2>8. \A i \in 1 .. Len(handled) : handled[i].key = accepted'[i]
    BY <2>1, <2>4, <2>5, <2>6 DEF KeysInOrderOnce
  <2>9. Len(accepted') = Len(handled) + Len(m_SendKeyQueue')
    BY <2>1, <2>4, <2>5, <2>6 DEF KeysInOrderOnce
  <2>10. \A i \in 1 .. Len(m_SendKeyQueue') :
            m_SendKeyQueue'[i] = accepted'[Len(handled) + 0 + i]
    BY <2>7, <2>6, <2>5
  <2>11. Len(accepted') = Len(handled') + InHand' + Len(m_SendKeyQueue')
    BY <2>1, <2>5, <2>6, <2>9
  <2>12. \A i \in 1 .. Len(handled') : handled'[i].key = accepted'[i]
    BY <2>6, <2>8
  <2>13. InHand' = 1 => keyInfo' = accepted'[Len(handled') + 1]
    BY <2>1
  <2>14. \A i \in 1 .. Len(m_SendKeyQueue') :
            m_SendKeyQueue'[i] = accepted'[Len(handled') + InHand' + i]
    BY <2>1, <2>6, <2>10
  <2> QED
    BY <2>11, <2>12, <2>13, <2>14 DEF KeysInOrderOnce
<1>2. CASE Pop
  <2>1. InHand = 0 /\ InHand' = 1
    BY <1>2 DEF Pop, InHand
  <2>2. /\ m_SendKeyQueue # <<>>
        /\ m_SendKeyQueue' = Tail(m_SendKeyQueue)
        /\ keyInfo' = Head(m_SendKeyQueue)
        /\ UNCHANGED <<accepted, handled>>
    BY <1>2 DEF Pop
  <2>3. /\ Len(m_SendKeyQueue') = Len(m_SendKeyQueue) - 1
        /\ \A i \in 1 .. Len(m_SendKeyQueue') :
              m_SendKeyQueue'[i] = m_SendKeyQueue[i + 1]
        /\ keyInfo' = m_SendKeyQueue[1]
        /\ Len(m_SendKeyQueue) \in Nat \ {0}
    BY <2>2 DEF TypeOK
  <2>4. Len(handled) \in Nat
    BY DEF TypeOK
  <2>5. m_SendKeyQueue[1] = accepted[Len(handled) + 1]
    BY <2>1, <2>3, <2>4 DEF KeysInOrderOnce
  <2>6. \A i \in 1 .. Len(m_SendKeyQueue') :
           m_SendKeyQueue'[i] = accepted[Len(handled) + 1 + i]
    <3> SUFFICES ASSUME NEW i \in 1 .. Len(m_SendKeyQueue')
                 PROVE  m_SendKeyQueue'[i] = accepted[Len(handled) + 1 + i]
      OBVIOUS
    <3>1. m_SendKeyQueue[i + 1] = accepted[Len(handled) + (i + 1)]
      BY <2>1, <2>3, <2>4 DEF KeysInOrderOnce
    <3> QED
      BY <2>3, <2>4, <3>1
  <2>7. Len(accepted) = Len(handled) + 1 + Len(m_SendKeyQueue')
    BY <2>1, <2>3, <2>4 DEF KeysInOrderOnce
  <2>8. UNCHANGED <<accepted, handled>>
    BY <2>2
  <2>11. Len(accepted') = Len(handled') + InHand' + Len(m_SendKeyQueue')
    BY <2>1, <2>7, <2>8
  <2>12. \A i \in 1 .. Len(handled') : handled'[i].key = accepted'[i]
    BY <2>8 DEF KeysInOrderOnce
  <2>13. InHand' = 1 => keyInfo' = accepted'[Len(handled') + 1]
    BY <2>3, <2>5, <2>8
  <2>14. \A i \in 1 .. Len(m_SendKeyQueue') :
            m_SendKeyQueue'[i] = accepted'[Len(handled') + InHand' + i]
    BY <2>1, <2>6, <2>8
  <2> QED
    BY <2>11, <2>12, <2>13, <2>14 DEF KeysInOrderOnce
<1>3. CASE Release
  <2>1. InHand = 1 /\ InHand' = 0
    BY <1>3 DEF Release, InHand
  <2>2. /\ handled' = Append(handled, [key |-> keyInfo, press |-> pressed,
                                         release |-> smConnection])
        /\ UNCHANGED <<m_SendKeyQueue, accepted>>
    BY <1>3 DEF Release
  <2>3. /\ Len(handled') = Len(handled) + 1
        /\ \A i \in 1 .. Len(handled) : handled'[i] = handled[i]
        /\ handled'[Len(handled) + 1].key = keyInfo
        /\ Len(handled) \in Nat
    BY <2>2 DEF TypeOK
  <2>4. Len(m_SendKeyQueue) \in Nat
    BY DEF TypeOK
  <2>5. keyInfo = accepted[Len(handled) + 1]
    BY <2>1 DEF KeysInOrderOnce
  <2>6. \A i \in 1 .. Len(handled') : handled'[i].key = accepted[i]
    BY <2>3, <2>5 DEF KeysInOrderOnce
  <2>7. \A i \in 1 .. Len(m_SendKeyQueue) :
           m_SendKeyQueue[i] = accepted[Len(handled') + 0 + i]
    BY <2>1, <2>3, <2>4 DEF KeysInOrderOnce
  <2>8. Len(accepted) = Len(handled') + Len(m_SendKeyQueue)
    BY <2>1, <2>3, <2>4 DEF KeysInOrderOnce
  <2>9. Len(accepted) = Len(handled') + 0 + Len(m_SendKeyQueue)
    BY <2>3, <2>4, <2>8
  <2>10. UNCHANGED <<m_SendKeyQueue, accepted>>
    BY <2>2
  <2>11. Len(accepted') = Len(handled') + InHand' + Len(m_SendKeyQueue')
    BY <2>1, <2>9, <2>10
  <2>12. \A i \in 1 .. Len(handled') : handled'[i].key = accepted'[i]
    BY <2>6, <2>10
  <2>13. InHand' = 1 => keyInfo' = accepted'[Len(handled') + 1]
    BY <2>1
  <2>14. \A i \in 1 .. Len(m_SendKeyQueue') :
            m_SendKeyQueue'[i] = accepted'[Len(handled') + InHand' + i]
    BY <2>1, <2>7, <2>10
  <2> QED
    BY <2>11, <2>12, <2>13, <2>14 DEF KeysInOrderOnce
<1>4. CASE Press
  <2>1. InHand' = InHand /\ Same /\ UNCHANGED keyInfo
    BY <1>4 DEF Press, InHand
  <2> QED
    BY <2>1 DEF KeysInOrderOnce
<1>5. ASSUME InHand = 0, InHand' = 0, Same PROVE KeysInOrderOnce'
  BY <1>5 DEF KeysInOrderOnce
<1>6. CASE LoopTest \/ PowerTest \/ NapEnds \/ Wait \/ SpuriousWakeUp
              \/ ExitTaken \/ QueueEmpty
  BY <1>5, <1>6 DEF InHand, LoopTest, PowerTest, NapEnds, Wait, SpuriousWakeUp,
                    ExitTaken, QueueEmpty
<1>7. ASSUME NEW created \in BOOLEAN, StartKeyThread(created) PROVE KeysInOrderOnce'
  BY <1>5, <1>7 DEF InHand, StartKeyThread
<1>8. CASE NotifyExit
  BY <1>5, <1>8 DEF InHand, NotifyExit, Notify, MutexFree
<1>9. CASE JoinKeyThread
  BY <1>5, <1>9 DEF InHand, JoinKeyThread
<1>10. ASSUME UNCHANGED threadVars, Same PROVE KeysInOrderOnce'
  BY <1>10 DEF threadVars, KeysInOrderOnce, InHand
<1>11. CASE OnPowerModeChanged \/ CECEnable \/ CECDisable \/ OpenConnection
               \/ GreetTV \/ GreetFails \/ FreeConnection
  BY <1>10, <1>11 DEF OnPowerModeChanged, CECEnable, CECDisable, OpenConnection,
                      GreetTV, GreetFails, FreeConnection
<1>12. ASSUME NEW created \in BOOLEAN, OpenFails(created) PROVE KeysInOrderOnce'
  BY <1>10, <1>12 DEF OpenFails
<1>13. CASE UNCHANGED vars
  BY <1>10, <1>13 DEF vars
<1> QED
  BY <1>1, <1>2, <1>3, <1>4, <1>6, <1>7, <1>8, <1>9, <1>11, <1>12, <1>13
     DEF Next, KeyThread, Controller

-------------------------------------------------------------------------------
\* The strengthened invariant holds in every reachable state.
THEOREM Invariance == Spec => []IInv
<1>1. IInv /\ [Next]_vars => IInv'
  BY TypeStep, StopStep, LinkStep, OrderStep DEF IInv
<1> QED
  BY InitInv, <1>1, PTL DEF Spec

\* Every variable keeps its type (the parameters, queues and flags of the
\* key pipeline), for any set of requests and any number of keys.
THEOREM TypeCorrect == Spec => []TypeOK
  BY Invariance, PTL DEF IInv

\* A key accepted by SendKeyPressEvent is in one place, in posting order.
THEOREM Ordered == Spec => []KeysInOrderOnce
  BY Invariance, PTL DEF IInv

\* CECDisable and the rollback never join a key thread that is asleep.
THEOREM StopNeverHangs == Spec => []JoinNeverStuck
  BY Invariance, PTL DEF IInv

\* The key pipeline implements KeyChannel: a step of a client accepts a key, the
\* end of a release handles the next one, every other step is a stutter.
THEOREM Refinement == Spec => ImplementsChannel
<1>1. Init => Channel!Init
  BY DEF Init, Channel!Init
<1>2. IInv /\ [Next]_vars => [Channel!Next]_(Channel!vars)
  <2> SUFFICES ASSUME IInv, [Next]_vars PROVE [Channel!Next]_(Channel!vars)
    OBVIOUS
  <2>1. ASSUME NEW r \in Requests, SendKeyPressEvent(r) PROVE Channel!Next
    BY <2>1 DEF SendKeyPressEvent, Keys, Channel!Next, Channel!Accept
  <2>2. CASE Release
    <3> DEFINE o == [press |-> pressed, release |-> smConnection]
    <3>1. o \in Channel!Outcome
      BY <2>2 DEF Release, IInv, TypeOK, PressKeepsConnection, Channel!Outcome
    <3>2. Len(handled) < Len(accepted) /\ keyInfo = accepted[Len(handled) + 1]
      BY <2>2 DEF Release, IInv, TypeOK, KeysInOrderOnce, InHand
    <3>3. Channel!Handle(o)
      BY <2>2, <3>2 DEF Release, Channel!Handle
    <3> QED
      BY <3>1, <3>3 DEF Channel!Next
  <2>3. ASSUME UNCHANGED <<accepted, handled>> PROVE UNCHANGED Channel!vars
    BY <2>3 DEF Channel!vars
  <2>4. CASE LoopTest \/ PowerTest \/ NapEnds \/ Wait \/ SpuriousWakeUp
                \/ ExitTaken \/ QueueEmpty \/ Pop \/ Press
    BY <2>3, <2>4 DEF LoopTest, PowerTest, NapEnds, Wait, SpuriousWakeUp,
                      ExitTaken, QueueEmpty, Pop, Press
  <2>5. CASE OnPowerModeChanged \/ CECEnable \/ CECDisable
    BY <2>3, <2>5 DEF OnPowerModeChanged, CECEnable, CECDisable
  <2>6. CASE Controller
    BY <2>3, <2>6 DEF Controller, StartKeyThread, OpenFails, OpenConnection,
                      GreetTV, GreetFails, NotifyExit, JoinKeyThread, FreeConnection
  <2>7. CASE UNCHANGED vars
    BY <2>3, <2>7 DEF vars
  <2> QED
    BY <2>1, <2>2, <2>4, <2>5, <2>6, <2>7 DEF Next, KeyThread
<1> QED
  BY <1>1, <1>2, Invariance, PTL DEF Spec, ImplementsChannel, Channel!Spec

-------------------------------------------------------------------------------
(* SetEnabled returns.  A thread that can move is one of whose guards holds; the *)
(* provers know nothing of ENABLED, so that the guards are those of the actions  *)
(* is a hypothesis of the theorem.                                               *)

KeyCanMove == ThreadAlive /\ tpc # "waiting"

ControllerCanMove == \/ cpc \in {"open", "greet", "free"}
                     \/ cpc = "notify" /\ MutexFree
                     \/ cpc \in {"start", "join"} /\ ~ThreadAlive

GuardsEnable == /\ KeyCanMove => ENABLED <<KeyThread>>_vars
                /\ ControllerCanMove => ENABLED <<Controller>>_vars

\* The program counters the key thread may go to from p once it is asked to end;
\* it may go on waiting only until the predicate is set for the join.
After(p) == CASE p = "press" -> {"release"}
              [] p = "power" -> {"nap", "lock"}
              [] p \in {"release", "nap"} -> {"loop"}
              [] p = "loop" -> {"done"}
              [] p = "lock" -> IF cpc = "join" THEN {"done"} ELSE {"done", "waiting"}
              [] OTHER -> {}

\* While the key thread is asked to end, it alone moves towards its end; the
\* caller of SetEnabled takes the mutex when it is free, and joins when it is there.
LEMMA StopMoves ==
  ASSUME IInv, cpc \in {"notify", "join"}, [Next]_vars
  PROVE  /\ \/ cpc' = cpc /\ tpc' = tpc
            \/ cpc' = cpc /\ tpc' \in After(tpc)
            \/ cpc' = cpc /\ tpc = "waiting" /\ tpc' = "lock"
            \/ cpc = "notify" /\ cpc' = "join" /\ MutexFree
            \/ cpc = "join" /\ cpc' = "free" /\ ~ThreadAlive
         /\ KeyThread => cpc' = cpc /\ tpc' \in After(tpc)
         /\ Controller => cpc' # cpc
<1> DEFINE Stays == cpc' = cpc /\ (tpc' = tpc \/ (tpc = "waiting" /\ tpc' = "lock"))
<1> USE DEF IInv, TypeOK, StopInv, JoinNeverStuck, ThreadAlive, ControllerStates
<1>1. KeyThread => cpc' = cpc /\ tpc' \in After(tpc)
  <2>1. CASE LoopTest \/ PowerTest \/ NapEnds \/ Wait \/ ExitTaken
    BY <2>1 DEF LoopTest, PowerTest, NapEnds, Wait, ExitTaken, After
  <2>2. CASE QueueEmpty \/ Pop \/ Press \/ Release
    BY <2>2 DEF QueueEmpty, Pop, Press, Release, After
  <2> QED
    BY <2>1, <2>2 DEF KeyThread
<1>2. Controller => \/ cpc = "notify" /\ cpc' = "join" /\ MutexFree
                    \/ cpc = "join" /\ cpc' = "free" /\ ~ThreadAlive
  BY DEF Controller, StartKeyThread, OpenFails, OpenConnection, GreetTV, GreetFails,
         NotifyExit, JoinKeyThread, FreeConnection
<1>3. ASSUME NEW r \in Requests, SendKeyPressEvent(r) PROVE Stays
  BY <1>3 DEF SendKeyPressEvent, Notify
<1>4. ASSUME OnPowerModeChanged \/ SpuriousWakeUp \/ UNCHANGED vars PROVE Stays
  BY <1>4 DEF OnPowerModeChanged, SpuriousWakeUp, vars, threadVars
<1>5. ~CECEnable /\ ~CECDisable
  BY DEF CECEnable, CECDisable
<1> QED
  BY <1>1, <1>2, <1>3, <1>4, <1>5 DEF Next

\* The other steps of SetEnabled wait for nobody.
LEMMA CallMoves ==
  ASSUME IInv, cpc \in {"start", "open", "greet", "free"}, [Next]_vars
  PROVE  /\ cpc' = cpc \/ Controller
         /\ Controller => CASE cpc = "start" -> cpc' = "open"
                            [] cpc = "open" -> cpc' \in {"greet", "notify"}
                            [] cpc = "greet" -> cpc' \in {"idle", "notify"}
                            [] cpc = "free" -> cpc' = "idle"
<1>1. cpc' = cpc \/ Controller
  BY DEF Next, SendKeyPressEvent, OnPowerModeChanged, SpuriousWakeUp, CECEnable, CECDisable,
         KeyThread, LoopTest, PowerTest, NapEnds, Wait, ExitTaken, QueueEmpty, Pop, Press,
         Release, vars
<1>2. ASSUME Controller
      PROVE  CASE cpc = "start" -> cpc' = "open"
               [] cpc = "open" -> cpc' \in {"greet", "notify"}
               [] cpc = "greet" -> cpc' \in {"idle", "notify"}
               [] cpc = "free" -> cpc' = "idle"
  BY <1>2 DEF Controller, StartKeyThread, OpenFails, OpenConnection, GreetTV, GreetFails,
              NotifyExit, JoinKeyThread, FreeConnection
<1> QED
  BY <1>1, <1>2

\* What the scheduler gives to a behaviour in which the invariant holds.
Live == Spec /\ []IInv /\ Fairness /\ []GuardsEnable

\* The stages of a call of SetEnabled.
Call(c) == cpc = c
PressDue == cpc = "notify" /\ tpc = "press"
ReleaseDue == cpc = "notify" /\ tpc = "release"
MutexDue == cpc = "notify" /\ MutexFree
Busy == cpc = "join" /\ tpc \in {"press", "power"}
Passing == cpc = "join" /\ tpc \in {"release", "nap"}
Testing == cpc = "join" /\ tpc \in {"loop", "lock"}
Gone == cpc = "join" /\ ~ThreadAlive

\* The key thread is started, or its creation fails: there is none to wait for.
LEMMA Starts == Live => (Call("start") ~> Call("open"))
<1>1. IInv /\ Call("start") /\ [Next]_vars => (Call("start") \/ Call("open"))'
  BY CallMoves DEF Call
<1>2. IInv /\ Call("start") /\ [Next]_vars /\ <<Controller>>_vars => Call("open")'
  BY CallMoves DEF Call
<1>3. IInv /\ Call("start") => ControllerCanMove
  BY DEF ControllerCanMove, Call, IInv, LinkInv, ThreadAlive
<1> QED
  BY <1>1, <1>2, <1>3, PTL DEF Live, Spec, Fairness, GuardsEnable

\* The connection is opened, or the rollback begins.
LEMMA Opens == Live => (Call("open") ~> Call("greet") \/ Call("notify"))
<1>1. IInv /\ Call("open") /\ [Next]_vars => (Call("open") \/ Call("greet") \/ Call("notify"))'
  BY CallMoves DEF Call
<1>2. IInv /\ Call("open") /\ [Next]_vars /\ <<Controller>>_vars => (Call("greet") \/ Call("notify"))'
  BY CallMoves DEF Call
<1>3. IInv /\ Call("open") => ControllerCanMove
  BY DEF ControllerCanMove, Call
<1> QED
  BY <1>1, <1>2, <1>3, PTL DEF Live, Spec, Fairness, GuardsEnable

\* The first messages are sent, or the rollback begins.
LEMMA Greets == Live => (Call("greet") ~> Call("idle") \/ Call("notify"))
<1>1. IInv /\ Call("greet") /\ [Next]_vars => (Call("greet") \/ Call("idle") \/ Call("notify"))'
  BY CallMoves DEF Call
<1>2. IInv /\ Call("greet") /\ [Next]_vars /\ <<Controller>>_vars => (Call("idle") \/ Call("notify"))'
  BY CallMoves DEF Call
<1>3. IInv /\ Call("greet") => ControllerCanMove
  BY DEF ControllerCanMove, Call
<1> QED
  BY <1>1, <1>2, <1>3, PTL DEF Live, Spec, Fairness, GuardsEnable

\* A key that was taken is pressed ...
LEMMA PressEnds == Live => (PressDue ~> ReleaseDue)
<1>1. IInv /\ PressDue /\ [Next]_vars => (PressDue \/ ReleaseDue)'
  BY StopMoves DEF PressDue, ReleaseDue, After, ThreadAlive, MutexFree
<1>2. IInv /\ PressDue /\ [Next]_vars /\ <<KeyThread>>_vars => ReleaseDue'
  BY StopMoves DEF PressDue, ReleaseDue, After, ThreadAlive, MutexFree
<1>3. IInv /\ PressDue => KeyCanMove
  BY DEF KeyCanMove, PressDue, ThreadAlive
<1> QED
  BY <1>1, <1>2, <1>3, PTL DEF Live, Spec, Fairness, GuardsEnable

\* ... and released, which frees the mutex; the thread that is to end takes no other.
LEMMA ReleaseEnds == Live => (ReleaseDue ~> MutexDue)
<1>1. IInv /\ ReleaseDue /\ [Next]_vars => (ReleaseDue \/ MutexDue)'
  BY StopMoves DEF ReleaseDue, MutexDue, After, ThreadAlive, MutexFree
<1>2. IInv /\ ReleaseDue /\ [Next]_vars /\ <<KeyThread>>_vars => MutexDue'
  BY StopMoves DEF ReleaseDue, MutexDue, After, ThreadAlive, MutexFree
<1>3. IInv /\ ReleaseDue => KeyCanMove
  BY DEF KeyCanMove, ReleaseDue, ThreadAlive
<1> QED
  BY <1>1, <1>2, <1>3, PTL DEF Live, Spec, Fairness, GuardsEnable

\* The mutex that is free stays so until the caller takes it.
LEMMA Notifies == Live => (MutexDue ~> Call("join"))
<1>1. IInv /\ MutexDue /\ [Next]_vars => (MutexDue \/ Call("join"))'
  BY StopMoves DEF MutexDue, Call, After, ThreadAlive, MutexFree
<1>2. IInv /\ MutexDue /\ [Next]_vars /\ <<Controller>>_vars => Call("join")'
  BY StopMoves DEF MutexDue, Call, After, ThreadAlive, MutexFree
<1>3. IInv /\ MutexDue => ControllerCanMove
  BY DEF ControllerCanMove, MutexDue, ThreadAlive, MutexFree
<1> QED
  BY <1>1, <1>2, <1>3, PTL DEF Live, Spec, Fairness, GuardsEnable

\* A thread in the middle of a pass comes to its end ...
LEMMA BusyEnds == Live => (Busy ~> Passing \/ Testing)
<1>1. IInv /\ Busy /\ [Next]_vars => (Busy \/ Passing \/ Testing)'
  BY StopMoves DEF Busy, Passing, Testing, After, ThreadAlive, MutexFree
<1>2. IInv /\ Busy /\ [Next]_vars /\ <<KeyThread>>_vars => (Passing \/ Testing)'
  BY StopMoves DEF Busy, Passing, Testing, After, ThreadAlive, MutexFree
<1>3. IInv /\ Busy => KeyCanMove
  BY DEF KeyCanMove, Busy, ThreadAlive
<1> QED
  BY <1>1, <1>2, <1>3, PTL DEF Live, Spec, Fairness, GuardsEnable

\* ... from there to the test of the exit request or of the predicate ...
LEMMA PassEnds == Live => (Passing ~> Testing)
<1>1. IInv /\ Passing /\ [Next]_vars => (Passing \/ Testing)'
  BY StopMoves DEF Passing, Testing, After, ThreadAlive, MutexFree
<1>2. IInv /\ Passing /\ [Next]_vars /\ <<KeyThread>>_vars => Testing'
  BY StopMoves DEF Passing, Testing, After, ThreadAlive, MutexFree
<1>3. IInv /\ Passing => KeyCanMove
  BY DEF KeyCanMove, Passing, ThreadAlive
<1> QED
  BY <1>1, <1>2, <1>3, PTL DEF Live, Spec, Fairness, GuardsEnable

\* ... and from there it leaves its loop.
LEMMA TestEnds == Live => (Testing ~> Gone)
<1>1. IInv /\ Testing /\ [Next]_vars => (Testing \/ Gone)'
  BY StopMoves DEF Testing, Gone, After, ThreadAlive, MutexFree
<1>2. IInv /\ Testing /\ [Next]_vars /\ <<KeyThread>>_vars => Gone'
  BY StopMoves DEF Testing, Gone, After, ThreadAlive, MutexFree
<1>3. IInv /\ Testing => KeyCanMove
  BY DEF KeyCanMove, Testing, ThreadAlive
<1> QED
  BY <1>1, <1>2, <1>3, PTL DEF Live, Spec, Fairness, GuardsEnable

\* The thread that has ended is joined.
LEMMA Joins == Live => (Gone ~> Call("free"))
<1>1. IInv /\ Gone /\ [Next]_vars => (Gone \/ Call("free"))'
  BY StopMoves DEF Gone, Call, After, ThreadAlive, MutexFree
<1>2. IInv /\ Gone /\ [Next]_vars /\ <<Controller>>_vars => Call("free")'
  BY StopMoves DEF Gone, Call, After, ThreadAlive, MutexFree
<1>3. IInv /\ Gone => ControllerCanMove
  BY DEF ControllerCanMove, Gone, ThreadAlive
<1> QED
  BY <1>1, <1>2, <1>3, PTL DEF Live, Spec, Fairness, GuardsEnable

\* The connection is freed and the call returns.
LEMMA Frees == Live => (Call("free") ~> Call("idle"))
<1>1. IInv /\ Call("free") /\ [Next]_vars => (Call("free") \/ Call("idle"))'
  BY CallMoves DEF Call
<1>2. IInv /\ Call("free") /\ [Next]_vars /\ <<Controller>>_vars => Call("idle")'
  BY CallMoves DEF Call
<1>3. IInv /\ Call("free") => ControllerCanMove
  BY DEF ControllerCanMove, Call
<1> QED
  BY <1>1, <1>2, <1>3, PTL DEF Live, Spec, Fairness, GuardsEnable

\* A call of SetEnabled returns, whichever step of CECEnable fails and however the
\* key thread, the clients and the power manager interleave: the thread that is
\* asked to end does, from wherever it is, and the caller then ends its join.
THEOREM Returns == FairSpec /\ []GuardsEnable => SetEnabledReturns
<1>1. FairSpec /\ []GuardsEnable => Live
  BY Invariance, PTL DEF FairSpec, Live
<1>2. IInv => \/ Call("idle") \/ Call("start") \/ Call("open") \/ Call("greet")
              \/ Call("notify") \/ Call("join") \/ Call("free")
  BY DEF IInv, TypeOK, ControllerStates, Call
<1>3. Call("notify") => PressDue \/ ReleaseDue \/ MutexDue
  BY DEF Call, PressDue, ReleaseDue, MutexDue, MutexFree
<1>4. IInv /\ Call("join") => Busy \/ Passing \/ Testing \/ Gone
  BY DEF IInv, TypeOK, JoinNeverStuck, Call, Busy, Passing, Testing, Gone, ThreadAlive,
         ThreadStates
<1>5. Call("idle") <=> cpc = "idle"
  BY DEF Call
<1> QED
  BY <1>1, <1>2, <1>3, <1>4, <1>5, Starts, Opens, Greets, PressEnds, ReleaseEnds, Notifies,
     BusyEnds, PassEnds, TestEnds, Joins, Frees, PTL DEF Live, SetEnabledReturns

-------------------------------------------------------------------------------
(* A key that waits is handled.                                                  *)

Undisturbed == ~m_sendKeyEventThreadExit /\ ~deepSleep

\* The k keys before it are handled, the next is accepted and the thread is asked to run.
Wanted(k) == /\ Undisturbed /\ m_sendKeyEventThreadRun
             /\ Len(accepted) > k /\ Len(handled) = k

WantedAt(k, p) == Wanted(k) /\ tpc = p

Served(k) == Len(handled) > k \/ ~Undisturbed

Nearer == <<tpc, tpc'>> \in {<<"nap", "loop">>, <<"loop", "power">>, <<"power", "lock">>,
                             <<"lock", "press">>, <<"press", "release">>}

\* The thread takes the way to the next release: it neither waits nor finds the queue empty.
LEMMA WantedMoves ==
  ASSUME IInv, NEW k \in Nat, Wanted(k), ThreadAlive, [Next]_vars
  PROVE  /\ Served(k)' \/ (Wanted(k)' /\ (tpc' = tpc \/ Nearer))
         /\ KeyThread => Served(k)' \/ (Wanted(k)' /\ Nearer)
<1> DEFINE Keeps == Served(k)' \/ (Wanted(k)' /\ tpc' = tpc)
<1> USE DEF Wanted, Undisturbed, Served
<1>1. tpc # "waiting" /\ (tpc = "lock" => m_SendKeyQueue # <<>>)
  BY DEF IInv, TypeOK, StopInv, KeysInOrderOnce, InHand
<1>2. ASSUME KeyThread PROVE Served(k)' \/ (Wanted(k)' /\ Nearer)
  <2>1. CASE LoopTest \/ PowerTest \/ NapEnds \/ Press
    BY <2>1 DEF LoopTest, PowerTest, NapEnds, Press, Nearer, linkVars, flagVars
  <2>2. CASE Wait \/ ExitTaken \/ QueueEmpty \/ Pop
    BY <1>1, <2>2 DEF Wait, ExitTaken, QueueEmpty, Pop, Nearer, linkVars, flagVars
  <2>3. CASE Release
    <3>1. Len(handled') = Len(handled) + 1
      BY <2>3 DEF Release, IInv, TypeOK
    <3> QED
      BY <3>1
  <2> QED
    BY <1>2, <2>1, <2>2, <2>3 DEF KeyThread
<1>3. ASSUME NEW r \in Requests, SendKeyPressEvent(r) PROVE Keeps
  <2>1. Len(accepted') = Len(accepted) + 1
    BY <1>3 DEF SendKeyPressEvent, IInv, TypeOK
  <2> QED
    BY <1>1, <1>3, <2>1 DEF SendKeyPressEvent, Notify, IInv, TypeOK
<1>4. ASSUME OnPowerModeChanged \/ SpuriousWakeUp \/ UNCHANGED vars PROVE Keeps
  BY <1>1, <1>4 DEF OnPowerModeChanged, SpuriousWakeUp, vars, threadVars, linkVars, flagVars
<1>5. ASSUME CECEnable \/ CECDisable PROVE Keeps
  BY <1>5 DEF CECEnable, CECDisable, threadVars
<1>6. ASSUME Controller PROVE Keeps
  BY <1>1, <1>6 DEF Controller, StartKeyThread, OpenFails, OpenConnection, GreetTV,
     GreetFails, NotifyExit, Notify, JoinKeyThread, FreeConnection, threadVars, linkVars,
     flagVars, ThreadAlive
<1> QED
  BY <1>2, <1>3, <1>4, <1>5, <1>6 DEF Next

\* From a nap the thread goes back to the loop ...
LEMMA FromNap == ASSUME NEW k \in Nat PROVE Live => (WantedAt(k, "nap") ~> WantedAt(k, "loop") \/ Served(k))
<1>1. IInv /\ WantedAt(k, "nap") /\ [Next]_vars => (WantedAt(k, "nap") \/ WantedAt(k, "loop") \/ Served(k))'
  BY WantedMoves DEF WantedAt, Nearer, ThreadAlive
<1>2. IInv /\ WantedAt(k, "nap") /\ [Next]_vars /\ <<KeyThread>>_vars => (WantedAt(k, "loop") \/ Served(k))'
  BY WantedMoves DEF WantedAt, Nearer, ThreadAlive
<1>3. WantedAt(k, "nap") => KeyCanMove
  BY DEF WantedAt, KeyCanMove, ThreadAlive
<1> QED
  BY <1>1, <1>2, <1>3, PTL DEF Live, Spec, Fairness, GuardsEnable

\* ... to the test of the power state ...
LEMMA FromLoop == ASSUME NEW k \in Nat PROVE Live => (WantedAt(k, "loop") ~> WantedAt(k, "power") \/ Served(k))
<1>1. IInv /\ WantedAt(k, "loop") /\ [Next]_vars => (WantedAt(k, "loop") \/ WantedAt(k, "power") \/ Served(k))'
  BY WantedMoves DEF WantedAt, Nearer, ThreadAlive
<1>2. IInv /\ WantedAt(k, "loop") /\ [Next]_vars /\ <<KeyThread>>_vars => (WantedAt(k, "power") \/ Served(k))'
  BY WantedMoves DEF WantedAt, Nearer, ThreadAlive
<1>3. WantedAt(k, "loop") => KeyCanMove
  BY DEF WantedAt, KeyCanMove, ThreadAlive
<1> QED
  BY <1>1, <1>2, <1>3, PTL DEF Live, Spec, Fairness, GuardsEnable

\* ... to the mutex ...
LEMMA FromPower == ASSUME NEW k \in Nat PROVE Live => (WantedAt(k, "power") ~> WantedAt(k, "lock") \/ Served(k))
<1>1. IInv /\ WantedAt(k, "power") /\ [Next]_vars => (WantedAt(k, "power") \/ WantedAt(k, "lock") \/ Served(k))'
  BY WantedMoves DEF WantedAt, Nearer, ThreadAlive
<1>2. IInv /\ WantedAt(k, "power") /\ [Next]_vars /\ <<KeyThread>>_vars => (WantedAt(k, "lock") \/ Served(k))'
  BY WantedMoves DEF WantedAt, Nearer, ThreadAlive
<1>3. WantedAt(k, "power") => KeyCanMove
  BY DEF WantedAt, KeyCanMove, ThreadAlive
<1> QED
  BY <1>1, <1>2, <1>3, PTL DEF Live, Spec, Fairness, GuardsEnable

\* ... takes the key ...
LEMMA FromLock == ASSUME NEW k \in Nat PROVE Live => (WantedAt(k, "lock") ~> WantedAt(k, "press") \/ Served(k))
<1>1. IInv /\ WantedAt(k, "lock") /\ [Next]_vars => (WantedAt(k, "lock") \/ WantedAt(k, "press") \/ Served(k))'
  BY WantedMoves DEF WantedAt, Nearer, ThreadAlive
<1>2. IInv /\ WantedAt(k, "lock") /\ [Next]_vars /\ <<KeyThread>>_vars => (WantedAt(k, "press") \/ Served(k))'
  BY WantedMoves DEF WantedAt, Nearer, ThreadAlive
<1>3. WantedAt(k, "lock") => KeyCanMove
  BY DEF WantedAt, KeyCanMove, ThreadAlive
<1> QED
  BY <1>1, <1>2, <1>3, PTL DEF Live, Spec, Fairness, GuardsEnable

\* ... presses it ...
LEMMA FromPress == ASSUME NEW k \in Nat PROVE Live => (WantedAt(k, "press") ~> WantedAt(k, "release") \/ Served(k))
<1>1. IInv /\ WantedAt(k, "press") /\ [Next]_vars => (WantedAt(k, "press") \/ WantedAt(k, "release") \/ Served(k))'
  BY WantedMoves DEF WantedAt, Nearer, ThreadAlive
<1>2. IInv /\ WantedAt(k, "press") /\ [Next]_vars /\ <<KeyThread>>_vars => (WantedAt(k, "release") \/ Served(k))'
  BY WantedMoves DEF WantedAt, Nearer, ThreadAlive
<1>3. WantedAt(k, "press") => KeyCanMove
  BY DEF WantedAt, KeyCanMove, ThreadAlive
<1> QED
  BY <1>1, <1>2, <1>3, PTL DEF Live, Spec, Fairness, GuardsEnable

\* ... and releases it.
LEMMA FromRelease == ASSUME NEW k \in Nat PROVE Live => (WantedAt(k, "release") ~> Served(k))
<1>1. IInv /\ WantedAt(k, "release") /\ [Next]_vars => (WantedAt(k, "release") \/ Served(k))'
  BY WantedMoves DEF WantedAt, Nearer, ThreadAlive
<1>2. IInv /\ WantedAt(k, "release") /\ [Next]_vars /\ <<KeyThread>>_vars => (Served(k))'
  BY WantedMoves DEF WantedAt, Nearer, ThreadAlive
<1>3. WantedAt(k, "release") => KeyCanMove
  BY DEF WantedAt, KeyCanMove, ThreadAlive
<1> QED
  BY <1>1, <1>2, <1>3, PTL DEF Live, Spec, Fairness, GuardsEnable

\* While the thread lives and is asked to run, the first key that is not handled yet
\* is handled, unless the thread is told to end or the device enters deep sleep: the
\* run flag is not cleared over it, and the thread does not wait before it.
THEOREM NextKeyServed ==
  ASSUME NEW k \in Nat
  PROVE  FairSpec /\ []GuardsEnable =>
           (Len(accepted) > k /\ Len(handled) = k /\ m_sendKeyEventThreadRun /\ ThreadAlive
              ~> Len(handled) > k \/ m_sendKeyEventThreadExit \/ deepSleep)
<1>1. FairSpec /\ []GuardsEnable => Live
  BY Invariance, PTL DEF FairSpec, Live
<1>2. IInv /\ Len(accepted) > k /\ Len(handled) = k /\ m_sendKeyEventThreadRun /\ ThreadAlive =>
         \/ WantedAt(k, "nap") \/ WantedAt(k, "loop") \/ WantedAt(k, "power")
         \/ WantedAt(k, "lock") \/ WantedAt(k, "press") \/ WantedAt(k, "release")
         \/ Served(k)
  BY DEF IInv, TypeOK, StopInv, ThreadStates, ThreadAlive, WantedAt, Wanted, Undisturbed, Served
<1>3. Served(k) => Len(handled) > k \/ m_sendKeyEventThreadExit \/ deepSleep
  BY DEF Served, Undisturbed
<1> QED
  BY <1>1, <1>2, <1>3, FromNap, FromLoop, FromPower, FromLock, FromPress, FromRelease, PTL
     DEF Live
===============================================================================

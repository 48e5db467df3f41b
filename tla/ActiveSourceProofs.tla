--------------------------- MODULE ActiveSourceProofs ---------------------------
(***************************************************************************)
(* Proofs about ActiveSource, for every set of addresses and hot-plug      *)
(* threads.  What clients are told is right whatever overlaps, unless an   *)
(* event overtook another; what the status says is right as long as        *)
(* nothing disturbed it since CEC was enabled.                             *)
(***************************************************************************)
EXTENDS ActiveSource, TLAPS

Busy == \E w \in Workers : worker[w] # "none"

\* The status agrees with what the display shows.
Good == isDeviceActiveSource => port # NoAddr /\ claim = port

\* What each phase of SetEnabled has switched on.
PhaseInv ==
    /\ port = NoAddr => claim = NoAddr
    /\ ~listening => frames = <<>>
    /\ ~listening /\ phase # "term" => reader = "idle"
    /\ phase = "idle" => (listening <=> cecEnableStatus)
    /\ phase \in {"ask", "reset", "vendor"} => listening /\ cecEnableStatus
    /\ phase \in {"store", "open", "attached", "term"} => ~cecEnableStatus
    /\ phase \in {"store", "open", "term"} => ~listening
    /\ phase = "attached" => listening

\* Undisturbed, one thing is in progress at a time ...
OneInv ==
    /\ phase # "idle" => otp = "idle" /\ ~Busy /\ reader # "answer"
    /\ phase \in {"attached", "ask"} => frames = <<>> /\ reader = "idle"
    /\ otp # "idle" => frames = <<>> /\ reader = "idle" /\ ~Busy /\ port # NoAddr
    /\ Busy => frames = <<>> /\ reader = "idle"
    /\ \A v, w \in Workers : worker[v] # "none" /\ worker[w] # "none" => v = w
    /\ reader # "idle" => frames = <<>>
    /\ otp # "idle" \/ Busy \/ frames # <<>> => listening
    /\ frames = <<>> \/ frames = <<"request">> \/ frames = <<claim>>
    /\ frames # <<>> => port # NoAddr
    /\ frames = <<"request">> => phase = "idle"

\* ... the address is known, or on its way ...
KnowInv ==
    /\ phase = "store" => got["ctl"] = port
    /\ phase \in {"open", "attached", "ask", "reset", "vendor"} => physical_addr = port
    /\ phase = "idle" /\ cecEnableStatus /\ port # NoAddr
         => physical_addr = port \/ \E w \in Workers : worker[w] \in {"connected", "store"}
    /\ \A w \in Workers : /\ worker[w] \in {"connected", "store"} => port # NoAddr
                          /\ worker[w] = "store" => got[w] = port
                          /\ worker[w] \in {"disconnected", "tell", "deliver"} => port = NoAddr

\* ... and the status is right unless a claim or the removal of the cable is
\* still to be handled.
BeliefInv ==
    /\ phase = "vendor" => Good
    /\ phase = "idle" /\ cecEnableStatus
         => \/ Good
            \/ frames # <<>> /\ frames # <<"request">>
            \/ \E w \in Workers : worker[w] = "disconnected"
    /\ \A w \in Workers : worker[w] \in {"tell", "deliver"} => ~isDeviceActiveSource
    /\ otp = "set" \/ reader = "answer" => port # NoAddr /\ claim = port

SerialInv == ~disturbed => OneInv /\ KnowInv /\ BeliefInv

\* A status that clients do not know is about to be read.
Telling == reader = "tell" \/ \E w \in Workers : worker[w] = "tell"

\* The event loaded last carries the status, and all the others are older.
Newest(p) == /\ p \in Delivering \ late
             /\ loaded[p] = isDeviceActiveSource
             /\ Delivering \ {p} \subseteq older[p]

\* It has been delivered: what is still to come is late.
Settled == /\ Delivering \subseteq late
           /\ ~overtaken => told = isDeviceActiveSource

\* The order of loads ...
OrderInv ==
    /\ late \subseteq Delivering
    /\ \A p, q \in Tellers : p \in older[q] => p \in Delivering /\ q \in Delivering /\ p # q
    /\ \A p, q \in Tellers : p \in older[q] => q \notin older[p]

\* ... and what the last of them brings.
TellInv == OrderInv /\ (silent \/ Telling \/ Settled \/ \E p \in Tellers : Newest(p))

-------------------------------------------------------------------------------
\* Types hold when the object has been constructed.
LEMMA InitTypes == Init => TypeOK
<1>1. Init => Flags
  BY DEF Init, Flags
<1>2. Init => DataTypes
  BY DEF Init, DataTypes, Places
<1> QED
  BY <1>1, <1>2 DEF TypeOK

\* An event keeps the types, whoever sends it.
LEMMA EventTypes == ASSUME Flags, DataTypes, NEW p \in Tellers, Load(p) \/ Deliver(p)
                    PROVE  /\ told' \in BOOLEAN /\ silent' \in BOOLEAN /\ overtaken' \in BOOLEAN
                           /\ isDeviceActiveSource' \in BOOLEAN
                           /\ loaded' \in [Tellers -> BOOLEAN]
                           /\ older' \in [Tellers -> SUBSET Tellers] /\ late' \subseteq Tellers
<1>1. Delivering \subseteq Tellers
  BY DEF Delivering, Tellers
<1>2. CASE Load(p)
  BY <1>1, <1>2 DEF Load, Flags, DataTypes
<1>3. CASE Deliver(p)
  <2>1. overtaken' \in BOOLEAN
    BY <1>3 DEF Deliver
  <2> QED
    BY <1>3, <2>1 DEF Deliver, Flags, DataTypes
<1> QED
  BY <1>2, <1>3

\* Hot-plug threads and reader are tellers.
LEMMA TellersAre == "reader" \in Tellers /\ \A w \in Workers : w \in Tellers
  BY DEF Tellers

\* Every step keeps the flags boolean.
LEMMA StepFlags == Flags /\ DataTypes /\ [Next]_vars => Flags'
<1> SUFFICES ASSUME Flags, DataTypes, [Next]_vars PROVE Flags'
  OBVIOUS
<1> USE DEF Flags, status, delivery, address, session, threads, display
<1>1. CASE UNCHANGED vars
  BY <1>1 DEF vars
<1>2. CASE Environment
  BY <1>2 DEF Environment, Switch, Plug, AskWho, Unplug, Event, Overlaps, Quiet
<1>3. CASE Reader
  <2>1. CASE ReaderLoads \/ ReaderDelivers
    BY <2>1, EventTypes, TellersAre DEF ReaderLoads, ReaderDelivers
  <2> QED
    BY <1>3, <2>1 DEF Reader, HandleClaim, HandleRequest, Answer
<1>4. CASE PerformOTPAction
  BY <1>4 DEF PerformOTPAction, OTPStart, OTPClaim, OTPFails, OTPSet, Quiet
<1>5. ASSUME NEW w \in Workers, Worker(w) PROVE Flags'
  <2>1. CASE WorkerLoads(w) \/ WorkerDelivers(w)
    BY <2>1, EventTypes, TellersAre DEF WorkerLoads, WorkerDelivers
  <2> QED
    BY <1>5, <2>1 DEF Worker, Disconnected, Connected, ConnectedStores, ConnectedReadFails
<1>6. CASE Controller
  BY <1>6 DEF Controller, CECEnable, EnableStores, OpenConnection, OpenFails,
     SetEnableStatus, RequestActiveSource, ResetActive, EnableDone, GreetFails, Terminate,
     CECDisable, Detach, Overlaps, Quiet
<1> QED
  BY <1>1, <1>2, <1>3, <1>4, <1>5, <1>6 DEF Next

\* Every step keeps the other types.
LEMMA StepData == Flags /\ DataTypes /\ [Next]_vars => DataTypes'
<1> SUFFICES ASSUME Flags, DataTypes, [Next]_vars PROVE DataTypes'
  OBVIOUS
<1> USE DEF DataTypes, status, delivery, address, session, threads, display
<1>1. CASE UNCHANGED vars
  BY <1>1 DEF vars
<1>2. CASE Environment
  <2>1. ASSUME NEW f \in Addrs \cup {"request"}, Receive(f)
        PROVE  frames' \in Seq(Addrs \cup {"request"})
    BY <2>1 DEF Receive
  <2>2. ASSUME NEW k \in {"connected", "disconnected"}, HotPlug(k)
        PROVE  worker' \in [Workers -> {"none", "disconnected", "connected", "store", "tell",
                                    "deliver"}]
    BY <2>2 DEF HotPlug
  <2>3. ASSUME NEW a \in Addrs, Switch(a) PROVE DataTypes'
    BY <2>1, <2>3 DEF Switch, Event, Places
  <2>4. CASE AskWho
    BY <2>1, <2>4 DEF AskWho, Event
  <2>5. CASE Unplug
    BY <2>2, <2>5 DEF Unplug, Event, Places
  <2>6. ASSUME NEW a \in Addrs, Plug(a) PROVE DataTypes'
    BY <2>2, <2>6 DEF Plug, Event, Places
  <2> QED
    BY <1>2, <2>3, <2>4, <2>5, <2>6 DEF Environment
<1>3. CASE Reader
  <2>1. frames # <<>> => Tail(frames) \in Seq(Addrs \cup {"request"})
    OBVIOUS
  <2>2. CASE ReaderLoads \/ ReaderDelivers
    BY <2>2, EventTypes, TellersAre DEF ReaderLoads, ReaderDelivers
  <2> QED
    BY <1>3, <2>1, <2>2 DEF Reader, HandleClaim, HandleRequest, Answer, Claimed
<1>4. CASE PerformOTPAction
  BY <1>4 DEF PerformOTPAction, OTPStart, OTPClaim, OTPFails, OTPSet, Claimed
<1>5. ASSUME NEW w \in Workers, Worker(w) PROVE DataTypes'
  <2>1. CASE WorkerLoads(w) \/ WorkerDelivers(w)
    BY <2>1, EventTypes, TellersAre DEF WorkerLoads, WorkerDelivers
  <2> QED
    BY <1>5, <2>1 DEF Worker, Disconnected, Connected, ConnectedStores, ConnectedReadFails,
       ReadAddress, StoreAddress
<1>6. CASE Controller
  <2>1. ASSUME NEW f \in Addrs, Receive(f) PROVE frames' \in Seq(Addrs \cup {"request"})
    BY <2>1 DEF Receive
  <2>2. CASE RequestActiveSource
    BY <2>1, <2>2 DEF RequestActiveSource
  <2>3. ASSUME Detach PROVE frames' \in Seq(Addrs \cup {"request"})
    BY <2>3 DEF Detach
  <2>4. CASE CECEnable \/ EnableStores
    BY <2>4 DEF CECEnable, EnableStores, ReadAddress, StoreAddress
  <2> QED
    BY <1>6, <2>2, <2>3, <2>4 DEF Controller, OpenConnection, OpenFails, SetEnableStatus,
       ResetActive, EnableDone, Terminate, GreetFails, CECDisable
<1> QED
  BY <1>1, <1>2, <1>3, <1>4, <1>5, <1>6 DEF Next

\* Every variable keeps its type, whatever overlaps: no frame names F.F.F.F.
THEOREM TypeCorrect == Spec => []TypeOK
  BY InitTypes, StepFlags, StepData, PTL DEF Spec, TypeOK

-------------------------------------------------------------------------------
\* An event that is loaded becomes the newest one.
LEMMA LoadTells == ASSUME TypeOK, OrderInv, NEW p \in Tellers, p \notin Delivering, Load(p),
                          Delivering' = Delivering \cup {p}
                   PROVE  TellInv'
<1> USE DEF TypeOK, Flags, DataTypes, delivery
<1>1. /\ \A q \in Tellers : older'[q] = IF q = p THEN Delivering ELSE older[q]
      /\ UNCHANGED <<isDeviceActiveSource, late>> /\ loaded'[p] = isDeviceActiveSource
  BY DEF Load
<1>2. OrderInv'
  BY <1>1 DEF OrderInv
<1>3. Newest(p)'
  BY <1>1 DEF Newest, OrderInv
<1> QED
  BY <1>2, <1>3 DEF TellInv

\* An event that is delivered was the newest, or leaves the newest behind, or was late.
LEMMA DeliverTells == ASSUME TypeOK, TellInv, NEW p \in Delivering, p \in Tellers, Deliver(p),
                             Delivering' = Delivering \ {p}, Telling' = Telling
                      PROVE  TellInv'
<1> USE DEF TypeOK, Flags, DataTypes, delivery
<1>1. /\ \A q \in Tellers : /\ older'[q] = IF q = p THEN {} ELSE older[q] \ {p}
                            /\ q # p => loaded'[q] = loaded[q]
      /\ UNCHANGED <<isDeviceActiveSource, silent>>
      /\ told' = loaded[p] /\ late' = (late \cup older[p]) \ {p}
      /\ overtaken' = (p \in late)
  BY DEF Deliver
<1>2. OrderInv'
  <2>1. \A q \in older[p] : q \in Tellers /\ q \in Delivering
    BY DEF TellInv, OrderInv
  <2> QED
    BY <1>1, <2>1 DEF TellInv, OrderInv
<1>3. ASSUME Newest(p) PROVE Settled'
  BY <1>1, <1>3 DEF Newest, Settled
<1>4. ASSUME NEW q \in Tellers, Newest(q), q # p PROVE Newest(q)'
  <2>1. q \notin older[p]
    BY <1>4 DEF Newest, TellInv, OrderInv
  <2> QED
    BY <1>1, <1>4, <2>1 DEF Newest
<1>5. ASSUME Settled PROVE Settled'
  BY <1>1, <1>5 DEF Settled
<1> QED
  BY <1>1, <1>2, <1>3, <1>4, <1>5 DEF TellInv

\* What neither loads nor delivers an event: the status is as it was, or the change is
\* silent, or an event is to come.
LEMMA OthersTell == ASSUME TellInv, UNCHANGED <<delivery, Delivering>>,
                           \/ UNCHANGED <<isDeviceActiveSource, silent>> /\ (Telling => Telling')
                           \/ silent' \/ Telling'
                    PROVE  TellInv'
  BY DEF TellInv, OrderInv, Settled, Newest, delivery

\* The last status is always silent, about to be read, on its way or delivered.
LEMMA StepTell == TypeOK /\ TellInv /\ [Next]_vars => TellInv'
<1> SUFFICES ASSUME TypeOK, TellInv, [Next]_vars PROVE TellInv'
  OBVIOUS
<1> USE DEF status, address, session, threads, display
<1>1. ASSUME UNCHANGED <<status, reader>>,
             \A w \in Workers : worker[w] \in {"tell", "deliver"} => worker'[w] = worker[w],
             \A w \in Workers : worker'[w] \in {"tell", "deliver"} => worker'[w] = worker[w]
      PROVE  TellInv'
  <2>1. UNCHANGED Delivering
    BY <1>1 DEF Delivering
  <2>2. Telling => Telling'
    BY <1>1 DEF Telling
  <2> QED
    BY <1>1, <2>1, <2>2, OthersTell
<1>2. CASE UNCHANGED vars
  BY <1>1, <1>2 DEF vars
<1>3. CASE Environment
  BY <1>1, <1>3 DEF Environment, Switch, Plug, AskWho, Unplug, HotPlug, TypeOK, DataTypes
<1>4. CASE HandleClaim
  <2>1. UNCHANGED <<delivery, Delivering>> /\ Telling'
    BY <1>4 DEF HandleClaim, Delivering, Telling
  <2> QED
    BY <2>1, OthersTell
<1>5. CASE ReaderLoads
  <2>1. "reader" \in Tellers /\ "reader" \notin Delivering
        /\ Delivering' = Delivering \cup {"reader"}
    BY <1>5, WorkerAssumption DEF ReaderLoads, Delivering, Tellers
  <2> QED
    BY <1>5, <2>1, LoadTells DEF ReaderLoads, TellInv
<1>6. CASE ReaderDelivers
  <2>1. "reader" \in Tellers /\ "reader" \in Delivering
        /\ Delivering' = Delivering \ {"reader"} /\ Telling' = Telling
    BY <1>6, WorkerAssumption DEF ReaderDelivers, Delivering, Tellers, Telling
  <2> QED
    BY <1>6, <2>1, DeliverTells DEF ReaderDelivers
<1>7. CASE HandleRequest \/ Answer
  <2>1. UNCHANGED <<status, Delivering, Telling>>
    BY <1>7 DEF HandleRequest, Answer, Delivering, Telling
  <2> QED
    BY <2>1, OthersTell
<1>8. CASE PerformOTPAction
  <2>1. UNCHANGED <<delivery, Delivering, Telling>>
    BY <1>8 DEF PerformOTPAction, OTPStart, OTPClaim, OTPFails, OTPSet, Delivering, Telling
  <2>2. UNCHANGED <<isDeviceActiveSource, silent>> \/ silent'
    BY <1>8 DEF PerformOTPAction, OTPStart, OTPClaim, OTPFails, OTPSet
  <2> QED
    BY <2>1, <2>2, OthersTell
<1>9. ASSUME NEW w \in Workers, Worker(w) PROVE TellInv'
  <2>1. CASE Disconnected(w)
    <3>1. worker'[w] = "tell" /\ UNCHANGED <<delivery, Delivering>>
      BY <2>1 DEF Disconnected, Delivering, TypeOK, DataTypes
    <3> QED
      BY <3>1, OthersTell DEF Telling
  <2>2. CASE WorkerLoads(w)
    <3>1. w \in Tellers /\ w \notin Delivering /\ Delivering' = Delivering \cup {w}
      BY <2>2, WorkerAssumption DEF WorkerLoads, Delivering, Tellers, TypeOK, DataTypes
    <3> QED
      BY <2>2, <3>1, LoadTells DEF WorkerLoads, TellInv
  <2>3. CASE WorkerDelivers(w)
    <3>1. w \in Tellers /\ w \in Delivering /\ Delivering' = Delivering \ {w}
          /\ Telling' = Telling
      BY <2>3, WorkerAssumption
         DEF WorkerDelivers, Delivering, Tellers, Telling, TypeOK, DataTypes
    <3> QED
      BY <2>3, <3>1, DeliverTells DEF WorkerDelivers
  <2>4. CASE Connected(w) \/ ConnectedStores(w) \/ ConnectedReadFails(w)
    BY <1>1, <2>4 DEF Connected, ConnectedStores, ConnectedReadFails, TypeOK, DataTypes
  <2> QED
    BY <1>9, <2>1, <2>2, <2>3, <2>4 DEF Worker
<1>10. CASE Controller
  <2>1. UNCHANGED <<delivery, threads>> /\ (UNCHANGED status \/ silent')
    BY <1>10 DEF Controller, CECEnable, EnableStores, OpenConnection, OpenFails,
       SetEnableStatus, RequestActiveSource, ResetActive, EnableDone, GreetFails, Terminate,
       CECDisable, Detach
  <2>2. UNCHANGED <<Delivering, Telling>>
    BY <2>1 DEF Delivering, Telling
  <2> QED
    BY <2>1, <2>2, OthersTell
<1> QED
  BY <1>2, <1>3, <1>4, <1>5, <1>6, <1>7, <1>8, <1>9, <1>10 DEF Next, Reader

\* Clients know the status once nothing is in progress, whatever overlaps, unless
\* PerformOTPAction or CECEnable changed it last or the last event was overtaken.
THEOREM Informed == Spec => []ClientsInformed
<1>1. Init => TellInv
  BY DEF Init, TellInv, OrderInv, Settled, Delivering
<1>2. TellInv => ClientsInformed
  BY DEF TellInv, ClientsInformed, Quiet, Telling, Settled, Newest, Delivering
<1> QED
  BY <1>1, <1>2, TypeCorrect, StepTell, PTL DEF Spec
-------------------------------------------------------------------------------
\* What each phase of SetEnabled has switched on holds at first.
LEMMA InitPhase == Init => PhaseInv
  BY DEF Init, PhaseInv

\* Every step respects what the phases have switched on.
LEMMA StepPhase == TypeOK /\ PhaseInv /\ [Next]_vars => PhaseInv'
<1> SUFFICES ASSUME TypeOK, PhaseInv, [Next]_vars PROVE PhaseInv'
  OBVIOUS
<1> USE DEF PhaseInv, status, address, session, threads, display
<1>1. CASE UNCHANGED vars
  BY <1>1 DEF vars
<1>2. CASE Environment
  <2>1. UNCHANGED <<cecEnableStatus, listening, phase, reader>>
    BY <1>2 DEF Environment, Switch, Plug, AskWho, Unplug
  <2>2. port' = NoAddr => claim' = NoAddr
    BY <1>2, AddressAssumption DEF Environment, Switch, Plug, AskWho, Unplug
  <2>3. ~listening => UNCHANGED frames
    BY <1>2 DEF Environment, Switch, Plug, AskWho, Unplug, Receive
  <2> QED
    BY <2>1, <2>2, <2>3
<1>3. CASE Reader
  BY <1>3 DEF Reader, HandleClaim, ReaderLoads, ReaderDelivers, HandleRequest, Answer, Claimed
<1>4. CASE PerformOTPAction
  BY <1>4 DEF PerformOTPAction, OTPStart, OTPClaim, OTPFails, OTPSet, Claimed
<1>5. ASSUME NEW w \in Workers, Worker(w) PROVE PhaseInv'
  BY <1>5 DEF Worker, Disconnected, WorkerLoads, WorkerDelivers, Connected, ConnectedStores,
     ConnectedReadFails
<1>6. CASE CECEnable \/ EnableStores \/ OpenConnection \/ OpenFails
  BY <1>6 DEF CECEnable, EnableStores, OpenConnection, OpenFails
<1>7. CASE ResetActive
  BY <1>7 DEF ResetActive
<1>8. CASE EnableDone \/ Terminate
  BY <1>8 DEF EnableDone, Terminate
<1>9. CASE GreetFails \/ CECDisable
  <2>1. (phase' = "term" \/ (phase' = "idle" /\ reader' = "idle")) /\ listening' = FALSE
        /\ cecEnableStatus' = FALSE /\ frames' = <<>> /\ UNCHANGED display
    BY <1>9 DEF GreetFails, CECDisable, Detach
  <2> QED
    BY <2>1
<1>10. CASE RequestActiveSource \/ SetEnableStatus
  BY <1>10 DEF RequestActiveSource, SetEnableStatus
<1> QED
  BY <1>1, <1>2, <1>3, <1>4, <1>5, <1>6, <1>7, <1>8, <1>9, <1>10 DEF Next, Controller

\* Nothing is in progress, for the named invariants.
LEMMA QuietIdle == TypeOK /\ Quiet => phase = "idle" /\ reader = "idle" /\ otp = "idle"
                                      /\ frames = <<>> /\ ~Busy
  BY DEF Quiet, Busy

\* Undisturbed, every step keeps the order of things and what is known.
LEMMA StepSerial == TypeOK /\ PhaseInv /\ PhaseInv' /\ SerialInv /\ [Next]_vars => SerialInv'
<1> SUFFICES ASSUME TypeOK, PhaseInv, PhaseInv', SerialInv, [Next]_vars, ~disturbed'
             PROVE  OneInv' /\ KnowInv' /\ BeliefInv'
  BY DEF SerialInv
<1> USE DEF status, delivery, address, session, threads, display
<1>1. CASE CECEnable
  <2>1. phase = "idle" /\ reader = "idle" /\ otp = "idle" /\ frames = <<>> /\ ~Busy
    BY <1>1, QuietIdle DEF CECEnable
  <2>2. OneInv'
    BY <1>1, <2>1 DEF CECEnable, OneInv, Busy
  <2>3. KnowInv'
    BY <1>1, <2>1 DEF CECEnable, KnowInv, Busy, ReadAddress, TypeOK, DataTypes
  <2>4. BeliefInv'
    BY <1>1, <2>1 DEF CECEnable, BeliefInv, Busy
  <2> QED
    BY <2>2, <2>3, <2>4
<1> SUFFICES ASSUME ~CECEnable PROVE OneInv' /\ KnowInv' /\ BeliefInv'
  BY <1>1
<1>2. ~disturbed
  BY DEF Next, vars, Environment, Switch, Plug, AskWho, Unplug, Event, Overlaps,
     Reader, HandleClaim, ReaderLoads, ReaderDelivers, HandleRequest, Answer,
     PerformOTPAction, OTPStart, OTPClaim, OTPFails, OTPSet,
     Worker, Disconnected, WorkerLoads, WorkerDelivers, Connected, ConnectedStores,
     ConnectedReadFails,
     Controller, EnableStores, OpenConnection, OpenFails,
     SetEnableStatus, RequestActiveSource, ResetActive, EnableDone, Terminate, GreetFails,
     CECDisable
<1>3. OneInv /\ KnowInv /\ BeliefInv
  BY <1>2 DEF SerialInv
<1>4. CASE UNCHANGED vars
  BY <1>3, <1>4 DEF vars, OneInv, KnowInv, BeliefInv, Good, Busy
<1>5. CASE Environment
  <2>1. phase = "idle" /\ reader = "idle" /\ otp = "idle" /\ frames = <<>> /\ ~Busy
    BY <1>5, QuietIdle DEF Environment, Switch, Plug, AskWho, Unplug, Event, Overlaps
  <2>2. \A w \in Workers : worker[w] = "none"
    BY <2>1 DEF Busy
  <2>3. UNCHANGED <<isDeviceActiveSource, physical_addr, got, cecEnableStatus, listening,
                    phase, reader, otp>>
    BY <1>5 DEF Environment, Switch, Plug, AskWho, Unplug
  <2>4. CASE \E a \in Addrs : Switch(a)
    <3>1. PICK a \in Addrs : Switch(a)
      BY <2>4
    <3>2. frames' = IF listening THEN <<a>> ELSE <<>>
      BY <2>1, <3>1 DEF Switch, Receive
    <3>3. UNCHANGED <<worker, port>> /\ port # NoAddr /\ claim' = a
      BY <3>1 DEF Switch
    <3>4. <<a>> # <<"request">>
      BY AddressAssumption
    <3>5. OneInv'
      BY <2>1, <2>2, <2>3, <3>2, <3>3, <3>4 DEF OneInv, Busy
    <3>6. KnowInv'
      BY <1>3, <2>2, <2>3, <3>3 DEF KnowInv
    <3>7. BeliefInv'
      BY <1>3, <2>1, <2>2, <2>3, <3>2, <3>3, <3>4 DEF BeliefInv, Good, PhaseInv
    <3> QED
      BY <3>5, <3>6, <3>7
  <2>5. CASE AskWho
    <3>1. frames' = IF listening THEN <<"request">> ELSE <<>>
      BY <2>1, <2>5 DEF AskWho, Receive
    <3>2. UNCHANGED <<worker, port, claim>> /\ port # NoAddr
      BY <2>5 DEF AskWho
    <3>3. OneInv'
      BY <2>1, <2>2, <2>3, <3>1, <3>2 DEF OneInv, Busy
    <3>4. KnowInv'
      BY <1>3, <2>2, <2>3, <3>2 DEF KnowInv
    <3>5. BeliefInv'
      BY <1>3, <2>1, <2>2, <2>3, <3>1, <3>2 DEF BeliefInv, Good, PhaseInv
    <3> QED
      BY <3>3, <3>4, <3>5
  <2>6. CASE Unplug
    <3>1. port' = NoAddr /\ claim' = NoAddr /\ UNCHANGED frames
      BY <2>6 DEF Unplug
    <3>2. CASE cecEnableStatus
      <4>1. PICK w \in Workers : worker' = [worker EXCEPT ![w] = "disconnected"]
        BY <2>6, <3>2 DEF Unplug, HotPlug
      <4>2. \A v \in Workers : worker'[v] = IF v = w THEN "disconnected" ELSE "none"
        BY <2>2, <4>1 DEF TypeOK, DataTypes
      <4>3. OneInv'
        BY <2>1, <2>3, <3>1, <3>2, <4>2 DEF OneInv, Busy, PhaseInv
      <4>4. KnowInv'
        BY <2>1, <2>3, <3>1, <4>2 DEF KnowInv
      <4>5. BeliefInv'
        BY <2>1, <2>3, <3>1, <4>2 DEF BeliefInv
      <4> QED
        BY <4>3, <4>4, <4>5
    <3>3. CASE ~cecEnableStatus
      <4>1. UNCHANGED worker
        BY <2>6, <3>3 DEF Unplug, HotPlug
      <4>2. OneInv' /\ KnowInv' /\ BeliefInv'
        BY <2>1, <2>2, <2>3, <3>1, <3>3, <4>1 DEF OneInv, KnowInv, BeliefInv, Busy
      <4> QED
        BY <4>2
    <3> QED
      BY <3>2, <3>3
  <2>7. CASE \E a \in Addrs : Plug(a)
    <3>1. PICK a \in Addrs : Plug(a)
      BY <2>7
    <3>2. port = NoAddr /\ port' = a /\ port' # NoAddr /\ UNCHANGED frames
      BY <3>1, AddressAssumption DEF Plug
    <3>3. CASE cecEnableStatus
      <4>1. PICK w \in Workers : worker' = [worker EXCEPT ![w] = "connected"]
        BY <3>1, <3>3 DEF Plug, HotPlug
      <4>2. \A v \in Workers : worker'[v] = IF v = w THEN "connected" ELSE "none"
        BY <2>2, <4>1 DEF TypeOK, DataTypes
      <4>3. OneInv'
        BY <2>1, <2>3, <3>2, <3>3, <4>2 DEF OneInv, Busy, PhaseInv
      <4>4. KnowInv'
        BY <2>1, <2>3, <3>2, <4>2 DEF KnowInv
      <4>5. ~isDeviceActiveSource
        BY <1>3, <2>1, <2>2, <3>2, <3>3 DEF BeliefInv, Good
      <4>6. BeliefInv'
        BY <2>1, <2>3, <3>2, <4>2, <4>5 DEF BeliefInv, Good
      <4> QED
        BY <4>3, <4>4, <4>6
    <3>4. CASE ~cecEnableStatus
      <4>1. UNCHANGED worker
        BY <3>1, <3>4 DEF Plug, HotPlug
      <4>2. OneInv' /\ KnowInv' /\ BeliefInv'
        BY <2>1, <2>2, <2>3, <3>2, <3>4, <4>1 DEF OneInv, KnowInv, BeliefInv, Busy
      <4> QED
        BY <4>2
    <3> QED
      BY <3>3, <3>4
  <2> QED
    BY <1>5, <2>4, <2>5, <2>6, <2>7 DEF Environment
<1>6. ASSUME frames # <<>> \/ reader # "idle" \/ otp # "idle", phase = "idle",
             port # NoAddr
      PROVE  physical_addr = port
  BY <1>3, <1>6 DEF OneInv, KnowInv, PhaseInv, Busy
<1>7. CASE Reader
  <2>1. CASE HandleClaim
    <3>1. frames = <<claim>> /\ frames # <<"request">> /\ claim \in Addrs
      BY <1>3, <2>1, AddressAssumption DEF HandleClaim, OneInv
    <3>2. frames' = <<>> /\ port # NoAddr /\ otp = "idle" /\ ~Busy
      BY <1>3, <2>1, <3>1 DEF HandleClaim, OneInv
    <3>3. isDeviceActiveSource' = (claim = physical_addr) /\ reader' = "tell"
          /\ listening
      BY <2>1, <3>1 DEF HandleClaim
    <3>4. UNCHANGED <<physical_addr, got, cecEnableStatus, listening, phase, otp, worker,
                      port, claim>>
      BY <2>1 DEF HandleClaim
    <3>5. physical_addr = port
      <4>1. phase \notin {"store", "open", "attached", "ask", "term"}
        BY <1>3, <3>1, <3>3 DEF OneInv, PhaseInv
      <4> QED
        BY <1>3, <1>6, <3>1, <3>2, <4>1 DEF KnowInv, TypeOK, DataTypes
    <3>6. OneInv'
      BY <1>3, <3>1, <3>2, <3>3, <3>4 DEF OneInv, Busy, PhaseInv
    <3>7. KnowInv'
      BY <1>3, <3>4 DEF KnowInv
    <3>8. BeliefInv'
      BY <1>3, <3>2, <3>3, <3>4, <3>5 DEF BeliefInv, Good, Busy
    <3> QED
      BY <3>6, <3>7, <3>8
  <2>2. CASE ReaderLoads \/ ReaderDelivers
    <3>1. reader # "idle" /\ reader' # "answer"
          /\ UNCHANGED <<isDeviceActiveSource, physical_addr, got, cecEnableStatus, listening,
                         phase, otp, worker, port, claim, frames>>
      BY <2>2 DEF ReaderLoads, ReaderDelivers, Load, Deliver
    <3> QED
      BY <1>3, <3>1 DEF OneInv, KnowInv, BeliefInv, Good, Busy
  <2>3. CASE HandleRequest
    <3>1. frames = <<"request">> /\ frames # <<claim>>
      BY <1>3, <2>3, AddressAssumption DEF HandleRequest, OneInv, TypeOK, DataTypes, Places
    <3>2. frames' = <<>> /\ port # NoAddr /\ otp = "idle" /\ ~Busy /\ phase = "idle"
      BY <1>3, <2>3, <3>1 DEF HandleRequest, OneInv
    <3>3. listening /\ cecEnableStatus
      BY <2>3, <3>2 DEF HandleRequest, PhaseInv
    <3>4. reader' = IF isDeviceActiveSource THEN "answer" ELSE "idle"
      BY <2>3 DEF HandleRequest
    <3>5. UNCHANGED <<isDeviceActiveSource, physical_addr, got, cecEnableStatus, listening,
                      phase, otp, worker, port, claim>>
      BY <2>3 DEF HandleRequest
    <3>6. Good
      BY <1>3, <3>1, <3>2, <3>3 DEF BeliefInv, Busy
    <3>7. OneInv'
      BY <1>3, <3>2, <3>3, <3>4, <3>5 DEF OneInv, Busy
    <3>8. KnowInv'
      BY <1>3, <3>5 DEF KnowInv
    <3>9. BeliefInv'
      BY <1>3, <3>2, <3>4, <3>5, <3>6 DEF BeliefInv, Good
    <3> QED
      BY <3>7, <3>8, <3>9
  <2>4. CASE Answer
    <3>1. phase = "idle" /\ port # NoAddr /\ claim = port
      BY <1>3, <2>4 DEF Answer, OneInv, BeliefInv
    <3>2. claim' = claim
      BY <1>6, <2>4, <3>1 DEF Answer, Claimed
    <3>3. reader' = "idle"
          /\ UNCHANGED <<isDeviceActiveSource, physical_addr, got, cecEnableStatus, listening,
                         phase, otp, worker, port, frames>>
      BY <2>4 DEF Answer
    <3> QED
      BY <1>3, <3>2, <3>3 DEF OneInv, KnowInv, BeliefInv, Good, Busy
  <2> QED
    BY <1>7, <2>1, <2>2, <2>3, <2>4 DEF Reader
<1>8. CASE PerformOTPAction
  <2>1. CASE OTPStart
    <3>1. phase = "idle" /\ reader = "idle" /\ otp = "idle" /\ frames = <<>> /\ ~Busy
          /\ port # NoAddr
      BY <2>1, QuietIdle DEF OTPStart
    <3> QED
      BY <1>3, <2>1, <3>1 DEF OTPStart, OneInv, KnowInv, BeliefInv, Good, Busy
  <2>2. CASE OTPClaim
    <3>1. phase = "idle" /\ port # NoAddr
      BY <1>3, <2>2 DEF OTPClaim, OneInv
    <3>2. claim' = port
      BY <1>6, <2>2, <3>1 DEF OTPClaim, Claimed
    <3>3. frames = <<>> /\ reader = "idle" /\ ~Busy
      BY <1>3, <2>2 DEF OTPClaim, OneInv
    <3>4. otp' = "set"
          /\ UNCHANGED <<isDeviceActiveSource, physical_addr, got, cecEnableStatus, listening,
                         phase, reader, worker, port, frames>>
      BY <2>2 DEF OTPClaim
    <3>5. OneInv'
      BY <1>3, <2>2, <3>1, <3>3, <3>4 DEF OTPClaim, OneInv, Busy
    <3>6. KnowInv'
      BY <1>3, <3>4 DEF KnowInv
    <3>7. BeliefInv'
      BY <1>3, <3>1, <3>2, <3>3, <3>4 DEF BeliefInv, Good, Busy
    <3> QED
      BY <3>5, <3>6, <3>7
  <2>3. CASE OTPFails
    BY <1>3, <2>3 DEF OTPFails, OneInv, KnowInv, BeliefInv, Good, Busy
  <2>4. CASE OTPSet
    BY <1>3, <2>4 DEF OTPSet, OneInv, KnowInv, BeliefInv, Good, Busy
  <2> QED
    BY <1>8, <2>1, <2>2, <2>3, <2>4 DEF PerformOTPAction
<1>9. ASSUME NEW w \in Workers, Worker(w)
      PROVE  OneInv' /\ KnowInv' /\ BeliefInv'
  <2>1. worker[w] # "none" /\ Busy
    BY <1>9 DEF Worker, Disconnected, WorkerLoads, WorkerDelivers, Connected, ConnectedStores,
       ConnectedReadFails, Busy
  <2>2. frames = <<>> /\ reader = "idle" /\ phase = "idle" /\ otp = "idle" /\ listening
        /\ cecEnableStatus
    BY <1>3, <2>1 DEF OneInv, PhaseInv
  <2>3. \A v \in Workers : v # w => worker[v] = "none"
    BY <1>3, <2>1 DEF OneInv
  <2>4. UNCHANGED <<cecEnableStatus, listening, phase, reader, otp, port, claim, frames>>
    BY <1>9 DEF Worker, Disconnected, WorkerLoads, WorkerDelivers, Connected, ConnectedStores,
       ConnectedReadFails
  <2>5. PICK k \in {"none", "tell", "store", "deliver"} : worker' = [worker EXCEPT ![w] = k]
    BY <1>9 DEF Worker, Disconnected, WorkerLoads, WorkerDelivers, Connected, ConnectedStores,
       ConnectedReadFails
  <2>6. \A v \in Workers : worker'[v] = IF v = w THEN k ELSE "none"
    BY <2>3, <2>5 DEF TypeOK, DataTypes
  <2>7. OneInv'
    BY <1>3, <2>2, <2>4, <2>6 DEF OneInv, Busy
  <2>8. CASE Disconnected(w)
    <3>1. k = "tell" /\ isDeviceActiveSource' = FALSE /\ UNCHANGED <<physical_addr, got>>
          /\ port = NoAddr
      BY <1>3, <2>5, <2>8 DEF Disconnected, KnowInv, TypeOK, DataTypes
    <3> QED
      BY <2>2, <2>4, <2>6, <2>7, <3>1 DEF KnowInv, BeliefInv, Good
  <2>9. CASE WorkerLoads(w) \/ WorkerDelivers(w)
    <3>1. k \in {"none", "deliver"} /\ UNCHANGED <<isDeviceActiveSource, physical_addr, got>>
          /\ port = NoAddr /\ ~isDeviceActiveSource
      BY <1>3, <2>5, <2>9 DEF WorkerLoads, WorkerDelivers, Load, Deliver, KnowInv, BeliefInv, TypeOK,
         DataTypes
    <3> QED
      BY <2>2, <2>4, <2>6, <2>7, <3>1 DEF KnowInv, BeliefInv, Good
  <2>10. ASSUME worker[w] \in {"connected", "store"} PROVE Good /\ port # NoAddr
    BY <1>3, <2>2, <2>3, <2>10 DEF BeliefInv, KnowInv
  <2>11. CASE Connected(w)
    <3>1. k = "store" /\ UNCHANGED <<isDeviceActiveSource, physical_addr>>
          /\ got'[w] = port
      BY <2>5, <2>11 DEF Connected, ReadAddress, TypeOK, DataTypes
    <3> QED
      BY <2>2, <2>4, <2>6, <2>7, <2>10, <2>11, <3>1 DEF Connected, KnowInv, BeliefInv, Good
  <2>12. CASE ConnectedStores(w)
    <3>1. k = "none" /\ UNCHANGED isDeviceActiveSource /\ physical_addr' = port
      BY <1>3, <2>5, <2>12 DEF ConnectedStores, StoreAddress, KnowInv, TypeOK, DataTypes
    <3> QED
      BY <2>2, <2>4, <2>6, <2>7, <2>10, <2>12, <3>1
         DEF ConnectedStores, KnowInv, BeliefInv, Good
  <2> QED
    BY <1>9, <2>8, <2>9, <2>11, <2>12 DEF Worker, ConnectedReadFails
<1>10. CASE Controller
  <2>1. CASE EnableStores
    <3>1. physical_addr' = port /\ phase' = "open"
      BY <1>3, <2>1 DEF EnableStores, StoreAddress, KnowInv
    <3> QED
      BY <1>3, <2>1, <3>1 DEF EnableStores, OneInv, KnowInv, BeliefInv, Good, Busy
  <2>2. CASE OpenConnection \/ SetEnableStatus
    BY <1>3, <2>2 DEF OpenConnection, SetEnableStatus, OneInv, KnowInv, BeliefInv, PhaseInv, Good, Busy
  <2>3. CASE OpenFails
    BY <1>3, <2>3 DEF OpenFails, OneInv, KnowInv, BeliefInv, PhaseInv, Good, Busy
  <2>4. CASE RequestActiveSource
    <3>1. frames = <<>> /\ reader = "idle" /\ otp = "idle" /\ ~Busy /\ listening
      BY <1>3, <2>4 DEF RequestActiveSource, OneInv, PhaseInv
    <3>2. frames' = <<>> \/ (frames' = <<claim>> /\ claim \in Addrs)
      BY <2>4, <3>1 DEF RequestActiveSource, Receive
    <3>3. claim \in Addrs => port # NoAddr /\ <<claim>> # <<"request">>
      BY AddressAssumption DEF PhaseInv
    <3>4. phase' = "reset"
          /\ UNCHANGED <<isDeviceActiveSource, physical_addr, got, cecEnableStatus, listening,
                         reader, otp, worker, port, claim>>
      BY <2>4 DEF RequestActiveSource
    <3>5. OneInv'
      BY <1>3, <3>1, <3>2, <3>3, <3>4 DEF OneInv, Busy
    <3>6. KnowInv' /\ BeliefInv'
      BY <1>3, <2>4, <3>4 DEF RequestActiveSource, KnowInv, BeliefInv
    <3> QED
      BY <3>5, <3>6
  <2>5. CASE ResetActive
    BY <1>3, <2>5 DEF ResetActive, OneInv, KnowInv, BeliefInv, Good, Busy
  <2>6. CASE EnableDone \/ Terminate
    BY <1>3, <2>6 DEF EnableDone, Terminate, PhaseInv, OneInv, KnowInv, BeliefInv, Good,
       Busy
  <2>7. CASE GreetFails \/ CECDisable
    <3>1. otp = "idle" /\ ~Busy /\ reader # "answer"
      BY <1>3, <2>7, QuietIdle DEF GreetFails, CECDisable, Detach, Overlaps, OneInv
    <3>2. phase' \in {"idle", "term"} /\ cecEnableStatus' = FALSE /\ frames' = <<>>
          /\ UNCHANGED <<isDeviceActiveSource, physical_addr, got, reader, otp, worker, port,
                         claim>>
      BY <2>7 DEF GreetFails, CECDisable, Detach
    <3>3. OneInv'
      BY <3>1, <3>2 DEF OneInv, Busy
    <3>4. KnowInv'
      BY <3>1, <3>2 DEF KnowInv, Busy
    <3>5. BeliefInv'
      BY <3>1, <3>2 DEF BeliefInv, Busy
    <3> QED
      BY <3>3, <3>4, <3>5
  <2> QED
    BY <1>10, <2>1, <2>2, <2>3, <2>4, <2>5, <2>6, <2>7 DEF Controller
<1> QED
  BY <1>4, <1>5, <1>7, <1>8, <1>9, <1>10 DEF Next

\* Undisturbed, one thing is in progress at a time and the status is right unless a
\* claim or the removal of the cable is still to be handled.
THEOREM SerialOK == Spec => [](PhaseInv /\ SerialInv)
<1>1. Init => PhaseInv /\ SerialInv
  <2>1. Init => OneInv
    BY DEF Init, OneInv, Busy
  <2>2. Init => KnowInv
    BY DEF Init, KnowInv
  <2>3. Init => BeliefInv
    BY DEF Init, BeliefInv, Good
  <2> QED
    BY <2>1, <2>2, <2>3, InitPhase DEF SerialInv
<1>2. TypeOK /\ PhaseInv /\ SerialInv /\ [Next]_vars => (PhaseInv /\ SerialInv)'
  BY StepPhase, StepSerial
<1> QED
  BY <1>1, <1>2, TypeCorrect, PTL DEF Spec

\* GetActiveSourceStatus answers true only for the device that is shown, as long as
\* nothing disturbed since CEC was enabled.
THEOREM NotFalselyActive == Spec => []NeverFalselyActive
<1>1. TypeOK /\ PhaseInv /\ SerialInv => NeverFalselyActive
  BY DEF SerialInv, BeliefInv, Good, NeverFalselyActive, Quiet
<1> QED
  BY <1>1, TypeCorrect, SerialOK, PTL

\* RequestActiveSource is answered only by the device that is shown, under the same
\* condition.
THEOREM NoTakeover == Spec => []AnswerTakesNothing
<1>1. PhaseInv /\ SerialInv => AnswerTakesNothing
  BY DEF SerialInv, BeliefInv, AnswerTakesNothing
<1> QED
  BY <1>1, SerialOK, PTL
===============================================================================

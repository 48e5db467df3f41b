----------------------------- MODULE DeviceListProofs -----------------------------
(***************************************************************************)
(* Proofs about DeviceList, for every number of addresses, devices and     *)
(* events.  A session starts with an empty table whatever overlaps.        *)
(***************************************************************************)
EXTENDS DeviceList, FiniteSetTheorems, SequenceTheorems, TLAPS

FrameSet == [kind : Details \cup {"announce"}, from : AllAddrs, dev : Devices \cup {None}]

\* addDevice goes past its first test only with a real address.
AddrInv ==
    \A t \in Threads : pc[t] \in {"addSet", "addCount", "addTell", "ask"} => la[t] \in Addrs

-------------------------------------------------------------------------------
\* The sequence of a finite set has its elements.
LEMMA SetToSeqType ==
  ASSUME NEW S, IsFiniteSet(S)
  PROVE  SetToSeq(S) \in Seq(S)
<1>1. Cardinality(S) \in Nat /\ ExistsBijection(1 .. Cardinality(S), S)
  BY FS_CardinalityType
<1>2. \E f \in [1 .. Cardinality(S) -> S] : IsInjective(f)
  BY <1>1 DEF ExistsBijection, Bijection, Injection
<1>3. SetToSeq(S) \in [1 .. Cardinality(S) -> S]
  BY <1>2 DEF SetToSeq
<1> QED
  BY <1>1, <1>3

\* Frames beyond the bound are cut off at the end.
LEMMA ClipType ==
  ASSUME NEW T, NEW s \in Seq(T)
  PROVE  Clip(s) \in Seq(T)
<1>1. CASE Len(s) > MaxFrames
  <2>1. MaxFrames \in Nat
    BY BoundAssumption
  <2>2. \A i \in 1 .. MaxFrames : s[i] \in T
    BY <1>1, <2>1
  <2>3. SubSeq(s, 1, MaxFrames) \in Seq(T)
    BY <2>1, <2>2, SubSeqProperties
  <2> QED
    BY <1>1, <2>3 DEF Clip
<1>2. CASE ~(Len(s) > MaxFrames)
  BY <1>2 DEF Clip
<1> QED
  BY <1>1, <1>2

\* A frame from an address has the type of a frame.
LEMMA FrameType ==
  ASSUME TypeOK, NEW k \in Details \cup {"announce"}, NEW a \in AllAddrs
  PROVE  Frame(k, a) \in FrameSet
  BY DEF TypeOK, Frame, FrameSet

\* The answers to a request are frames.
LEMMA AnswerType ==
  ASSUME TypeOK, NEW a \in AllAddrs, NEW D \in SUBSET Details
  PROVE  Answer(a, D) \in Seq(FrameSet)
<1> DEFINE F == {Frame(d, a) : d \in D}
<1>1. frames \in Seq(FrameSet)
  BY DEF TypeOK, FrameSet
<1>2. IsFiniteSet(D)
  BY FS_Subset, DetailAssumption
<1>3. IsFiniteSet(F)
  <2> DEFINE f == [d \in D |-> Frame(d, a)]
  <2>1. f \in Surjection(D, F)
    BY DEF Surjection
  <2> QED
    BY <1>2, <2>1, FS_Surjection
<1>4. F \subseteq FrameSet
  BY FrameType
<1>5. SetToSeq(F) \in Seq(FrameSet)
  <2>1. SetToSeq(F) \in Seq(F)
    BY <1>3, SetToSeqType
  <2> QED
    BY <2>1, <1>4
<1>6. frames \o SetToSeq(F) \in Seq(FrameSet)
  BY <1>1, <1>5
<1>7. Clip(frames \o SetToSeq(F)) \in Seq(FrameSet)
  BY <1>6, ClipType
<1> QED
  BY <1>1, <1>7 DEF Answer

-------------------------------------------------------------------------------
\* Moving a program counter to a known place keeps the types of pc.
LEMMA GoType ==
  ASSUME TypeOK, NEW t \in Threads, NEW l \in Steps, Go(t, l)
  PROVE  pc' \in [Threads -> Steps]
  BY DEF TypeOK, Go

\* Giving a thread an address keeps the types of la.
LEMMA AtType ==
  ASSUME TypeOK, NEW t \in Threads, NEW a \in AllAddrs, At(t, a)
  PROVE  la' \in [Threads -> AllAddrs]
  BY DEF TypeOK, At

\* Meeting others at a real address keeps the types of the histories.
LEMMA DecideType ==
  ASSUME TypeOK, NEW t \in Threads, la[t] \in Addrs, Decide(t)
  PROVE  raced' \subseteq Addrs /\ alone' \subseteq Threads
  BY DEF TypeOK, Decide

\* So does having told the clients.
LEMMA ToldType ==
  ASSUME TypeOK, NEW t \in Threads, Told(t)
  PROVE  raced' \subseteq Addrs /\ alone' \subseteq Threads
  BY DEF TypeOK, Told

\* Types and AddrInv hold when the object has been constructed.
LEMMA InitTypes == Init => TypeOK /\ AddrInv
<1> SUFFICES ASSUME Init PROVE TypeOK /\ AddrInv
  OBVIOUS
<1>1. /\ present \subseteq Addrs /\ m_numberOfDevices \in Int /\ client \subseteq Addrs
      /\ updated \in [AllAddrs -> SUBSET Details]
      /\ info \in [AllAddrs -> [Details -> Devices \cup {None}]]
      /\ bus \in [Addrs -> Devices \cup {None}]
      /\ frames \in Seq(FrameSet)
      /\ events \in Nat
  BY DEF Init, Empty
<1>2. /\ cecEnableStatus \in BOOLEAN /\ listening \in BOOLEAN
      /\ raced \subseteq Addrs /\ alone \subseteq Threads /\ crowded \in BOOLEAN
  BY DEF Init
<1>6. logicalAddress \in 0 .. Unset
  BY AddressAssumption DEF Init, Unset
<1>3. phase \in Phases /\ pc \in [Threads -> Steps]
  BY DEF Init, Phases, Steps, Threads
<1>4. la \in [Threads -> AllAddrs] /\ tmp \in [Threads -> Int]
  BY AddressAssumption DEF Init, AllAddrs
<1>5. AddrInv
  BY DEF Init, AddrInv, Threads
<1> QED
  BY <1>1, <1>2, <1>3, <1>4, <1>5, <1>6 DEF TypeOK, FrameSet

\* A step inside addDevice or removeDevice keeps the types.
LEMMA TableTypes ==
  ASSUME TypeOK, AddrInv, NEW t \in Threads, TableStep(t)
  PROVE  (TypeOK /\ AddrInv)'
<1> USE DEF table, entries, views, session, local, world
<1>1. CASE AddCheck(t)
  <2>1. pc' \in [Threads -> Steps]
    BY <1>1, GoType DEF AddCheck, Steps, TableSteps
  <2>8. /\ raced' \subseteq Addrs /\ alone' \subseteq Threads
        /\ crowded' \in BOOLEAN
    <3>1. CASE UNCHANGED <<raced, alone, crowded>>
      BY <3>1 DEF TypeOK
    <3>2. CASE la[t] < UNREGISTERED /\ Decide(t) /\ crowded' = (crowded \/ Met(t) # {})
      <4>1. la[t] \in Addrs
        BY <3>2, AddressAssumption DEF TypeOK, Addrs, AllAddrs
      <4> QED
        BY <3>2, <4>1, DecideType DEF TypeOK
    <3> QED
      BY <1>1, <3>1, <3>2 DEF AddCheck
  <2>2. TypeOK'
    BY <1>1, <2>1, <2>8 DEF AddCheck, TypeOK
  <2>3. la[t] \in AllAddrs /\ present \subseteq Addrs
    BY DEF TypeOK
  <2>4. pc'[t] = "addSet" \/ pc'[t] = "ask" => la[t] \in Addrs
    BY <1>1, <2>3, AddressAssumption DEF AddCheck, TypeOK, Go, Addrs, AllAddrs
  <2>5. pc'[t] \in {"end", "addSet", "ask"}
    BY <1>1 DEF AddCheck, TypeOK, Go
  <2>6. la' = la /\ \A u \in Threads \ {t} : pc'[u] = pc[u]
    BY <1>1 DEF AddCheck, TypeOK, Go
  <2>7. AddrInv'
    BY <2>4, <2>5, <2>6 DEF AddrInv
  <2> QED
    BY <2>2, <2>7
<1>2. CASE AddSet(t)
  <2>1. pc' \in [Threads -> Steps]
    BY <1>2, GoType DEF AddSet, Steps, TableSteps
  <2>2. present' \subseteq Addrs /\ tmp' \in [Threads -> Int] /\ crowded' \in BOOLEAN
    BY <1>2 DEF AddSet, TypeOK, AddrInv
  <2>3. TypeOK'
    BY <1>2, <2>1, <2>2 DEF AddSet, TypeOK
  <2>4. AddrInv'
    BY <1>2 DEF AddSet, TypeOK, AddrInv, Go
  <2> QED
    BY <2>3, <2>4
<1>3. CASE AddCount(t)
  <2>1. pc' \in [Threads -> Steps]
    BY <1>3, GoType DEF AddCount, Steps, TableSteps
  <2>2. m_numberOfDevices' \in Int
    BY <1>3 DEF AddCount, TypeOK
  <2>3. TypeOK'
    BY <1>3, <2>1, <2>2 DEF AddCount, TypeOK
  <2>4. AddrInv'
    BY <1>3 DEF AddCount, TypeOK, AddrInv, Go
  <2> QED
    BY <2>3, <2>4
<1>4. CASE AddTell(t)
  <2>1. pc' \in [Threads -> Steps]
    BY <1>4, GoType DEF AddTell, Steps, TableSteps
  <2>2. client' \subseteq Addrs /\ raced' \subseteq Addrs /\ alone' \subseteq Threads
    BY <1>4, ToldType DEF AddTell, TypeOK, AddrInv
  <2>3. TypeOK'
    BY <1>4, <2>1, <2>2 DEF AddTell, TypeOK
  <2>4. AddrInv'
    BY <1>4 DEF AddTell, TypeOK, AddrInv, Go
  <2> QED
    BY <2>3, <2>4
<1>5. CASE Ask(t)
  <2>1. pc' \in [Threads -> Steps]
    BY <1>5, GoType DEF Ask, Steps, TableSteps
  <2>2. la[t] \in AllAddrs
    BY DEF TypeOK
  <2>3. frames' \in Seq(FrameSet)
    BY <1>5, <2>2, AnswerType DEF Ask
  <2>4. TypeOK'
    BY <1>5, <2>1, <2>3 DEF Ask, TypeOK, FrameSet
  <2>5. AddrInv'
    BY <1>5 DEF Ask, TypeOK, AddrInv, Go
  <2> QED
    BY <2>4, <2>5
<1>6. CASE RemCheck(t)
  <2>1. pc' \in [Threads -> Steps]
    BY <1>6, GoType DEF RemCheck, Steps, TableSteps
  <2>2. /\ tmp' \in [Threads -> Int] /\ raced' \subseteq Addrs /\ alone' \subseteq Threads
        /\ crowded' \in BOOLEAN
    <3>1. CASE UNCHANGED <<tmp, raced, alone, crowded>>
      BY <3>1 DEF TypeOK
    <3>2. CASE la[t] \in present /\ Decide(t)
      <4>1. la[t] \in Addrs
        BY <3>2 DEF TypeOK
      <4>2. raced' \subseteq Addrs /\ alone' \subseteq Threads
        BY <3>2, <4>1, DecideType
      <4>3. tmp' \in [Threads -> Int] /\ crowded' \in BOOLEAN
        BY <1>6, <3>2 DEF RemCheck, TypeOK
      <4> QED
        BY <4>2, <4>3
    <3> QED
      BY <1>6, <3>1, <3>2 DEF RemCheck
  <2>3. TypeOK'
    BY <1>6, <2>1, <2>2 DEF RemCheck, TypeOK
  <2>4. AddrInv'
    BY <1>6 DEF RemCheck, TypeOK, AddrInv, Go
  <2> QED
    BY <2>3, <2>4
<1>7. CASE RemCount(t)
  <2>1. pc' \in [Threads -> Steps]
    BY <1>7, GoType DEF RemCount, Steps, TableSteps
  <2>2. m_numberOfDevices' \in Int
    BY <1>7 DEF RemCount, TypeOK
  <2>3. TypeOK'
    BY <1>7, <2>1, <2>2 DEF RemCount, TypeOK
  <2>4. AddrInv'
    BY <1>7 DEF RemCount, TypeOK, AddrInv, Go
  <2> QED
    BY <2>3, <2>4
<1>8. CASE RemClear(t)
  <2>1. pc' \in [Threads -> Steps]
    BY <1>8, GoType DEF RemClear, Steps, TableSteps
  <2>2. /\ present' \subseteq Addrs
        /\ updated' \in [AllAddrs -> SUBSET Details]
        /\ info' \in [AllAddrs -> [Details -> Devices \cup {None}]]
    BY <1>8 DEF RemClear, TypeOK
  <2>3. TypeOK'
    BY <1>8, <2>1, <2>2 DEF RemClear, TypeOK
  <2>4. AddrInv'
    BY <1>8 DEF RemClear, TypeOK, AddrInv, Go
  <2> QED
    BY <2>3, <2>4
<1>9. CASE RemTell(t)
  <2>1. pc' \in [Threads -> Steps]
    BY <1>9, GoType DEF RemTell, Steps, TableSteps
  <2>2. client' \subseteq Addrs /\ raced' \subseteq Addrs /\ alone' \subseteq Threads
    BY <1>9, ToldType DEF RemTell, TypeOK
  <2>3. TypeOK'
    BY <1>9, <2>1, <2>2 DEF RemTell, TypeOK
  <2>4. AddrInv'
    BY <1>9 DEF RemTell, TypeOK, AddrInv, Go
  <2> QED
    BY <2>3, <2>4
<1> QED
  BY <1>1, <1>2, <1>3, <1>4, <1>5, <1>6, <1>7, <1>8, <1>9 DEF TableStep

\* The library gives us an address of a device, or none.
LEMMA NewAddressType ==
  ASSUME TypeOK, NewAddress
  PROVE  logicalAddress' \in 0 .. Unset
<1>1. UNREGISTERED \in 0 .. Unset /\ TunerAddrs \subseteq 0 .. Unset
  BY AddressAssumption DEF Unset
<1> QED
  BY <1>1 DEF NewAddress, TypeOK

\* A step of the bus or of the update thread keeps the types.
LEMMA BusTypes ==
  ASSUME TypeOK, AddrInv, Environment \/ UpdateThread
  PROVE  (TypeOK /\ AddrInv)'
<1> USE DEF table, entries, views, session, local, world
<1>0. frames \in Seq(FrameSet)
  BY DEF TypeOK, FrameSet
<1>1. ASSUME NEW f \in FrameSet, Send(f) PROVE frames' \in Seq(FrameSet)
  <2>1. Append(frames, f) \in Seq(FrameSet)
    BY <1>0
  <2>2. Clip(Append(frames, f)) \in Seq(FrameSet)
    BY <2>1, ClipType
  <2> QED
    BY <1>0, <1>1, <2>2 DEF Send
<1>2. ASSUME NEW a \in Addrs, NEW d \in Devices \cup {None}, NEW announced \in BOOLEAN,
             Plug(a, d, announced)
      PROVE  (TypeOK /\ AddrInv)'
  <2>1. a \in AllAddrs
    BY AddressAssumption DEF Addrs, AllAddrs
  <2>2. [kind |-> "announce", from |-> a, dev |-> d] \in FrameSet
    BY <2>1 DEF FrameSet
  <2>3. frames' \in Seq(FrameSet)
    BY <1>0, <1>1, <1>2, <2>2 DEF Plug
  <2>4. bus' \in [Addrs -> Devices \cup {None}] /\ events' \in Nat
    BY <1>2 DEF Plug, Event, TypeOK
  <2>5. TypeOK'
    BY <1>2, <2>3, <2>4 DEF Plug, TypeOK, FrameSet
  <2> QED
    BY <1>2, <2>5 DEF Plug, AddrInv
<1>3. ASSUME NEW a \in AllAddrs, NEW k \in Details \cup {"announce"}, Speak(a, k)
      PROVE  (TypeOK /\ AddrInv)'
  <2>1. frames' \in Seq(FrameSet)
    BY <1>1, <1>3, FrameType DEF Speak
  <2>2. events' \in Nat
    BY <1>3 DEF Speak, Event, TypeOK
  <2>3. TypeOK'
    BY <1>3, <2>1, <2>2 DEF Speak, TypeOK, FrameSet
  <2> QED
    BY <1>3, <2>3 DEF Speak, AddrInv
<1>4. ASSUME NEW a \in Addrs, NEW d \in Details, UpdateCheck(a, d)
      PROVE  (TypeOK /\ AddrInv)'
  <2>1. a \in AllAddrs
    BY AddressAssumption DEF Addrs, AllAddrs
  <2>2. frames' \in Seq(FrameSet)
    BY <1>4, <2>1, AnswerType DEF UpdateCheck
  <2>3. TypeOK'
    BY <1>4, <2>2 DEF UpdateCheck, TypeOK, FrameSet
  <2> QED
    BY <1>4, <2>3 DEF UpdateCheck, AddrInv
<1>5. CASE GetLogicalAddress
  <2>1. logicalAddress' \in 0 .. Unset /\ events' \in Nat
    BY <1>5, NewAddressType DEF GetLogicalAddress, Event, TypeOK
  <2>2. TypeOK'
    BY <1>5, <2>1 DEF GetLogicalAddress, TypeOK
  <2> QED
    BY <1>5, <2>2 DEF GetLogicalAddress, AddrInv
<1> QED
  BY <1>2, <1>3, <1>4, <1>5 DEF Environment, UpdateThread

\* Moving one thread to a place outside addDevice keeps AddrInv.
LEMMA MoveAddr ==
  ASSUME AddrInv, NEW t \in Threads, pc'[t] \notin {"addSet", "addCount", "addTell", "ask"},
         \A u \in Threads \ {t} : pc'[u] = pc[u] /\ la'[u] = la[u]
  PROVE  AddrInv'
  BY DEF AddrInv

\* A step of the poll thread outside the table keeps the types.
LEMMA PollTypes ==
  ASSUME TypeOK, AddrInv,
         Trigger \/ PingSkipped \/ PingAck \/ PingNoAck \/ PingIOException \/ PingException
            \/ PollNext
  PROVE  (TypeOK /\ AddrInv)'
<1> USE DEF table, entries, views, session, local, world
<1>1. "poll" \in Threads /\ {"end", "idle", "ping", "addCheck", "remCheck"} \subseteq Steps
  BY DEF Threads, Steps, TableSteps
<1>2. \E l \in {"end", "idle", "ping", "addCheck", "remCheck"} : Go("poll", l)
  BY DEF Trigger, PingSkipped, PingAck, PingNoAck, PingIOException, PingException, PollNext
<1>3. pc' \in [Threads -> Steps]
  BY <1>1, <1>2, GoType
<1>4. la' = la \/ \E a \in AllAddrs : At("poll", a)
  <2>1. CASE Trigger
    BY <2>1, AddressAssumption DEF Trigger, AllAddrs
  <2>2. CASE PollNext
    <3>1. la["poll"] + 1 < UNREGISTERED => la["poll"] + 1 \in AllAddrs
      BY <1>1, AddressAssumption DEF TypeOK, AllAddrs
    <3> QED
      BY <2>2, <3>1 DEF PollNext
  <2> QED
    BY <2>1, <2>2 DEF PingSkipped, Pinged, PingAck, PingNoAck, PingIOException, PingException
<1>5. la' \in [Threads -> AllAddrs]
  BY <1>1, <1>4, AtType DEF TypeOK
<1>7. events' \in Nat
  BY DEF TypeOK, Trigger, PingSkipped, Pinged, PingAck, PingNoAck, PingIOException,
     PingException, PollNext, Event
<1>8. UNCHANGED <<table, entries, views, session, tmp, bus, frames>>
  BY DEF Trigger, PingSkipped, Pinged, PingAck, PingNoAck, PingIOException,
     PingException, PollNext
<1>9. TypeOK'
  BY <1>3, <1>5, <1>7, <1>8 DEF TypeOK
<1>10. AddrInv'
  <2>1. \A u \in Threads \ {"poll"} : pc'[u] = pc[u] /\ la'[u] = la[u]
    BY <1>1, <1>2, <1>4 DEF Go, At, TypeOK
  <2>2. pc'["poll"] \notin {"addSet", "addCount", "addTell", "ask"}
    BY <1>1, <1>2 DEF Go, TypeOK
  <2> QED
    BY <1>1, <2>1, <2>2, MoveAddr
<1> QED
  BY <1>9, <1>10

\* A step of the reader thread outside the table keeps the types.
LEMMA FrameTypes ==
  ASSUME TypeOK, AddrInv, HandleAnnounce \/ HandleDetail \/ FrameDone
  PROVE  (TypeOK /\ AddrInv)'
<1> USE DEF table, entries, views, session, local, world
<1>0. frames \in Seq(FrameSet) /\ "frame" \in Threads
  BY DEF TypeOK, FrameSet, Threads
<1>1. frames # <<>> => Head(frames) \in FrameSet /\ Tail(frames) \in Seq(FrameSet)
  BY <1>0
<1>2. CASE HandleAnnounce
  <2>1. Head(frames).from \in AllAddrs
    BY <1>1, <1>2 DEF HandleAnnounce, FrameSet
  <2>2. pc' \in [Threads -> Steps] /\ la' \in [Threads -> AllAddrs]
    BY <1>0, <1>2, <2>1, GoType, AtType DEF HandleAnnounce, Steps, TableSteps
  <2>3. frames' \in Seq(FrameSet)
    BY <1>1, <1>2 DEF HandleAnnounce
  <2>4. TypeOK'
    BY <1>2, <2>2, <2>3 DEF HandleAnnounce, TypeOK, FrameSet
  <2>5. /\ \A u \in Threads \ {"frame"} : pc'[u] = pc[u] /\ la'[u] = la[u]
        /\ pc'["frame"] = "addCheck"
    BY <1>0, <1>2 DEF HandleAnnounce, Go, At, TypeOK
  <2> QED
    BY <1>0, <2>4, <2>5, MoveAddr
<1>3. CASE HandleDetail
  <2>1. /\ Head(frames).from \in AllAddrs /\ Head(frames).kind \in Details
        /\ Head(frames).dev \in Devices \cup {None}
    BY <1>1, <1>3 DEF HandleDetail, FrameSet
  <2>2. updated' \in [AllAddrs -> SUBSET Details]
    BY <1>3, <2>1 DEF HandleDetail, TypeOK
  <2>3. info' \in [AllAddrs -> [Details -> Devices \cup {None}]]
    BY <1>3, <2>1 DEF HandleDetail, TypeOK
  <2>4. frames' \in Seq(FrameSet)
    BY <1>1, <1>3 DEF HandleDetail
  <2>5. TypeOK'
    BY <1>3, <2>2, <2>3, <2>4 DEF HandleDetail, TypeOK, FrameSet
  <2> QED
    BY <1>3, <2>5 DEF HandleDetail, AddrInv
<1>4. CASE FrameDone
  <2>1. pc' \in [Threads -> Steps]
    BY <1>0, <1>4, GoType DEF FrameDone, Steps
  <2>2. TypeOK'
    BY <1>4, <2>1 DEF FrameDone, TypeOK
  <2>3. /\ \A u \in Threads \ {"frame"} : pc'[u] = pc[u] /\ la'[u] = la[u]
        /\ pc'["frame"] = "idle"
    BY <1>0, <1>4 DEF FrameDone, Go, TypeOK
  <2> QED
    BY <1>0, <2>2, <2>3, MoveAddr
<1> QED
  BY <1>2, <1>3, <1>4

\* A step of the SetEnabled caller outside the table keeps the types.
LEMMA ControllerTypes ==
  ASSUME TypeOK, AddrInv,
         \/ CECEnable \/ RemoveNext \/ OpenConnection \/ OpenFails \/ SetEnableStatus
         \/ StartPolling \/ GreetFails \/ Terminate \/ CECDisable \/ JoinPoll
         \/ CloseConnection
  PROVE  (TypeOK /\ AddrInv)'
<1> USE DEF table, entries, views, session, local, world
<1>0. "ctl" \in Threads /\ "poll" \in Threads
  BY DEF Threads
<1>1. pc' \in [Threads -> Steps]
  BY <1>0 DEF TypeOK, Go, Steps, TableSteps, CECEnable, RemoveNext, OpenConnection,
     OpenFails, SetEnableStatus, StartPolling, GreetFails, Terminate, CECDisable, JoinPoll, CloseConnection
<1>2. la' \in [Threads -> AllAddrs]
  <2>1. 0 \in AllAddrs
    BY AddressAssumption DEF AllAddrs
  <2>2. la["ctl"] + 1 < UNREGISTERED => la["ctl"] + 1 \in AllAddrs
    BY <1>0, AddressAssumption DEF TypeOK, AllAddrs
  <2> QED
    BY <1>0, <2>1, <2>2 DEF TypeOK, At, CECEnable, RemoveNext, OpenConnection, OpenFails,
     SetEnableStatus, StartPolling, GreetFails, Terminate, CECDisable, JoinPoll, CloseConnection
<1>3. phase' \in Phases /\ cecEnableStatus' \in BOOLEAN /\ listening' \in BOOLEAN
  <2>1. phase' \in Phases
    BY DEF TypeOK, Phases, CECEnable, RemoveNext, OpenConnection, OpenFails,
     SetEnableStatus, StartPolling, GreetFails, Terminate, CECDisable, JoinPoll, CloseConnection
  <2>2. cecEnableStatus' \in BOOLEAN
    BY DEF TypeOK, CECEnable, RemoveNext, OpenConnection, OpenFails,
     SetEnableStatus, StartPolling, GreetFails, Terminate, CECDisable, JoinPoll, CloseConnection
  <2>3. listening' \in BOOLEAN
    BY DEF TypeOK, CECEnable, RemoveNext, OpenConnection, OpenFails,
     SetEnableStatus, StartPolling, GreetFails, Terminate, CECDisable, JoinPoll, CloseConnection
  <2> QED
    BY <2>1, <2>2, <2>3
<1>4. m_numberOfDevices' \in Int
  BY DEF TypeOK, CECEnable, RemoveNext, OpenConnection, OpenFails,
     SetEnableStatus, StartPolling, GreetFails, Terminate, CECDisable, JoinPoll, CloseConnection
<1>5. frames' \in Seq(FrameSet)
  <2>1. frames \in Seq(FrameSet) /\ <<>> \in Seq(FrameSet)
    BY DEF TypeOK, FrameSet
  <2>2. frames' = frames \/ frames' = <<>>
    BY DEF CECEnable, RemoveNext, OpenConnection, OpenFails,
     SetEnableStatus, StartPolling, GreetFails, Terminate, CECDisable, JoinPoll, CloseConnection
  <2> QED
    BY <2>1, <2>2
<1>6. UNCHANGED <<present, entries, client, raced, alone, tmp, bus, events>>
  BY DEF CECEnable, RemoveNext, OpenConnection, OpenFails,
     SetEnableStatus, StartPolling, GreetFails, Terminate, CECDisable, JoinPoll, CloseConnection
<1>10. crowded' \in BOOLEAN
  BY DEF TypeOK, CECEnable, RemoveNext, OpenConnection, OpenFails,
     SetEnableStatus, StartPolling, GreetFails, Terminate, CECDisable, JoinPoll, CloseConnection
<1>11. logicalAddress' \in 0 .. Unset
  <2>1. CECEnable \/ logicalAddress' = logicalAddress
    BY DEF RemoveNext, OpenConnection, OpenFails, SetEnableStatus, StartPolling, GreetFails,
       Terminate, CECDisable, JoinPoll, CloseConnection
  <2> QED
    BY <2>1, NewAddressType DEF CECEnable, TypeOK
<1>7. TypeOK'
  BY <1>1, <1>2, <1>3, <1>4, <1>5, <1>6, <1>10, <1>11 DEF TypeOK, FrameSet
<1>8. \A t \in Threads : \/ pc'[t] = pc[t] /\ la'[t] = la[t]
                         \/ pc'[t] \notin {"addSet", "addCount", "addTell", "ask"}
  BY <1>0 DEF TypeOK, Go, At, CECEnable, RemoveNext, OpenConnection, OpenFails,
     SetEnableStatus, StartPolling, GreetFails, Terminate, CECDisable, JoinPoll, CloseConnection
<1>9. AddrInv'
  BY <1>8 DEF AddrInv
<1> QED
  BY <1>7, <1>9

\* Every step keeps the types.
LEMMA StepTypes == TypeOK /\ AddrInv /\ [Next]_vars => (TypeOK /\ AddrInv)'
<1> SUFFICES ASSUME TypeOK, AddrInv, [Next]_vars PROVE (TypeOK /\ AddrInv)'
  OBVIOUS
<1>1. CASE UNCHANGED vars
  BY <1>1 DEF TypeOK, AddrInv, vars, table, entries, views, session, local, world
<1>2. ASSUME NEW t \in Threads, TableStep(t) PROVE (TypeOK /\ AddrInv)'
  BY <1>2, TableTypes
<1>3. "poll" \in Threads /\ "frame" \in Threads /\ "ctl" \in Threads
  BY DEF Threads
<1>4. CASE Environment \/ UpdateThread
  BY <1>4, BusTypes
<1>5. CASE Trigger \/ PollThread
  BY <1>2, <1>3, <1>5, PollTypes DEF PollThread
<1>6. CASE FrameThread
  BY <1>2, <1>3, <1>6, FrameTypes DEF FrameThread
<1>7. CASE CECEnable \/ CECDisable \/ Controller
  BY <1>2, <1>3, <1>7, ControllerTypes DEF Controller
<1> QED
  BY <1>1, <1>4, <1>5, <1>6, <1>7 DEF Next

\* Types hold whatever the threads, the bus and the callers of SetEnabled do: no
\* frame and no scan ever names an address outside the table, and what enters
\* the table is an address below 15.
THEOREM TypeCorrect == Spec => []TypeOK
<1>1. Init => TypeOK /\ AddrInv
  BY InitTypes
<1>2. TypeOK /\ AddrInv /\ [Next]_vars => (TypeOK /\ AddrInv)'
  BY StepTypes
<1> QED
  BY <1>1, <1>2, PTL DEF Spec

-------------------------------------------------------------------------------
RemSteps == {"remCheck", "remCount", "remClear", "remTell"}

\* Which threads can be where in each phase of SetEnabled: nobody but its caller
\* is at work while CECEnable clears the table.
SessionInv ==
    /\ phase # "attached" => listening = cecEnableStatus
    /\ ~listening /\ phase # "term" => pc["frame"] = "idle"
    /\ phase \in {"enable", "term"} => ~listening
    /\ phase \in {"attached", "greet", "join", "disable"} => listening
    /\ ~listening \/ phase \in {"attached", "greet", "disable"} => pc["poll"] = "none"
    /\ phase \in {"idle", "attached", "greet", "term", "join"} => pc["ctl"] = "idle"
    /\ phase \in {"enable", "disable"} => pc["ctl"] \in RemSteps \cup {"end"}

\* What CECEnable has cleared so far.
ClearedInv ==
    phase = "enable" =>
        \A a \in present : \/ a > la["ctl"]
                           \/ a = la["ctl"] /\ pc["ctl"] \in {"remCheck", "remCount", "remClear"}

\* What a step inside addDevice or removeDevice does to the program counters.
LEMMA TableMoves ==
  ASSUME TypeOK, NEW t \in Threads, TableStep(t)
  PROVE  /\ pc[t] \in TableSteps
         /\ pc'[t] \in TableSteps \cup {"end"}
         /\ pc[t] \in RemSteps => pc'[t] \in RemSteps \cup {"end"}
         /\ \A u \in Threads \ {t} : pc'[u] = pc[u]
         /\ la' = la /\ UNCHANGED session
<1> USE DEF TypeOK, Go, TableSteps, RemSteps, session, local
<1>1. CASE AddCheck(t) \/ AddSet(t) \/ AddCount(t) \/ AddTell(t) \/ Ask(t)
  BY <1>1 DEF AddCheck, AddSet, AddCount, AddTell, Ask
<1>2. CASE RemCheck(t) \/ RemCount(t) \/ RemClear(t) \/ RemTell(t)
  BY <1>2 DEF RemCheck, RemCount, RemClear, RemTell
<1> QED
  BY <1>1, <1>2 DEF TableStep

\* The phases hold when the object has been constructed.
LEMMA InitSession == Init => SessionInv /\ ClearedInv
  BY DEF Init, SessionInv, ClearedInv, Threads

\* Every step keeps the phases.
LEMMA StepSession == TypeOK /\ SessionInv /\ [Next]_vars => SessionInv'
<1> SUFFICES ASSUME TypeOK, SessionInv, [Next]_vars PROVE SessionInv'
  OBVIOUS
<1>0. /\ "poll" \in Threads /\ "frame" \in Threads /\ "ctl" \in Threads
      /\ pc \in [Threads -> Steps] /\ phase \in Phases
  BY DEF Threads, TypeOK
<1>1. CASE UNCHANGED vars
  BY <1>1 DEF SessionInv, vars, session
<1>2. CASE Environment \/ UpdateThread
  <2>1. UNCHANGED <<cecEnableStatus, listening, phase, pc>>
    BY <1>2 DEF Environment, UpdateThread, Plug, Speak, GetLogicalAddress, UpdateCheck,
       session
  <2> QED
    BY <2>1 DEF SessionInv
<1>3. ASSUME NEW t \in Threads, TableStep(t) PROVE SessionInv'
  <2>1. CASE t = "poll"
    BY <1>0, <1>3, <2>1, TableMoves DEF SessionInv, session, TableSteps
  <2>2. CASE t = "frame"
    BY <1>0, <1>3, <2>2, TableMoves DEF SessionInv, session, TableSteps
  <2>3. CASE t = "ctl"
    BY <1>0, <1>3, <2>3, TableMoves DEF SessionInv, session, TableSteps, RemSteps, Phases
  <2> QED
    BY <2>1, <2>2, <2>3 DEF Threads
<1>4. CASE Trigger \/ PingSkipped \/ PingAck \/ PingNoAck \/ PingIOException
             \/ PingException \/ PollNext
  <2>1. UNCHANGED session /\ pc["poll"] # "none"
    BY <1>4 DEF Trigger, PingSkipped, Pinged, PingAck, PingNoAck, PingIOException,
       PingException, PollNext
  <2>2. pc'["frame"] = pc["frame"] /\ pc'["ctl"] = pc["ctl"]
    BY <1>0, <1>4 DEF Trigger, PingSkipped, Pinged, PingAck, PingNoAck, PingIOException,
       PingException, PollNext, Go
  <2> QED
    BY <2>1, <2>2 DEF SessionInv, session
<1>5. CASE HandleAnnounce \/ HandleDetail \/ FrameDone
  <2>1. UNCHANGED session /\ (listening \/ pc["frame"] # "idle")
    BY <1>5 DEF HandleAnnounce, HandleDetail, FrameDone
  <2>2. pc'["poll"] = pc["poll"] /\ pc'["ctl"] = pc["ctl"]
    BY <1>0, <1>5 DEF HandleAnnounce, HandleDetail, FrameDone, Go
  <2> QED
    BY <2>1, <2>2 DEF SessionInv, session
<1>6. CASE CECEnable
  BY <1>0, <1>6 DEF CECEnable, SessionInv, Go, RemSteps
<1>7. CASE RemoveNext
  BY <1>0, <1>7 DEF RemoveNext, SessionInv, Go, RemSteps, session
<1>8. CASE OpenConnection \/ OpenFails
  BY <1>0, <1>8 DEF OpenConnection, OpenFails, SessionInv, Go
<1>9. CASE SetEnableStatus \/ StartPolling \/ GreetFails \/ Terminate \/ CECDisable
  <2>4. CASE SetEnableStatus
    BY <1>0, <2>4 DEF SetEnableStatus, SessionInv
  <2>5. CASE Terminate
    BY <1>0, <2>5 DEF Terminate, SessionInv
  <2>1. CASE StartPolling
    BY <1>0, <2>1 DEF StartPolling, SessionInv
  <2>2. CASE GreetFails
    BY <1>0, <2>2 DEF GreetFails, SessionInv
  <2>3. CASE CECDisable
    BY <1>0, <2>3 DEF CECDisable, SessionInv
  <2> QED
    BY <1>9, <2>1, <2>2, <2>3, <2>4, <2>5
<1>10. CASE JoinPoll \/ CloseConnection
  BY <1>0, <1>10 DEF JoinPoll, CloseConnection, SessionInv, Go, RemSteps
<1> QED
  BY <1>0, <1>1, <1>2, <1>3, <1>4, <1>5, <1>6, <1>7, <1>8, <1>9, <1>10
     DEF Next, PollThread, FrameThread, Controller

\* Every step keeps what CECEnable has cleared: while it is at work no other
\* thread can add a device.
LEMMA StepCleared == TypeOK /\ SessionInv /\ ClearedInv /\ [Next]_vars => ClearedInv'
<1> SUFFICES ASSUME TypeOK, SessionInv, ClearedInv, [Next]_vars, phase' = "enable"
             PROVE  ClearedInv'
  BY DEF ClearedInv
<1>0. /\ "poll" \in Threads /\ "frame" \in Threads /\ "ctl" \in Threads
      /\ pc \in [Threads -> Steps] /\ la \in [Threads -> AllAddrs]
      /\ present \subseteq Addrs
  BY DEF Threads, TypeOK
<1>1. CASE CECEnable
  <2>1. present' = present /\ la'["ctl"] = 0 /\ pc'["ctl"] = "remCheck"
    BY <1>0, <1>1 DEF CECEnable, Go, At, table
  <2>2. \A a \in present : a > 0 \/ a = 0
    BY <1>0 DEF Addrs
  <2> QED
    BY <2>1, <2>2 DEF ClearedInv
<1>2. CASE ~CECEnable
  <2>1. phase = "enable" /\ pc["poll"] = "none" /\ pc["frame"] = "idle" /\ ~listening
    <3>1. phase = "enable"
      BY <1>2 DEF Next, Environment, UpdateThread, PollThread, FrameThread, Controller,
         TableStep, AddCheck, AddSet, AddCount, AddTell, Ask, RemCheck, RemCount,
         RemClear, RemTell, Plug, Speak, GetLogicalAddress, UpdateCheck, Trigger, PingSkipped,
         Pinged, PingAck, PingNoAck, PingIOException, PingException, PollNext, HandleAnnounce,
         HandleDetail, FrameDone, RemoveNext, OpenConnection, OpenFails, SetEnableStatus,
         StartPolling, GreetFails, Terminate, CECDisable, JoinPoll, CloseConnection, vars, session
    <3> QED
      BY <3>1 DEF SessionInv
  <2>2. \A a \in present : \/ a > la["ctl"]
                           \/ /\ a = la["ctl"]
                              /\ pc["ctl"] \in {"remCheck", "remCount", "remClear"}
    BY <2>1 DEF ClearedInv
  <2>3. CASE UNCHANGED <<present, pc, la>>
    BY <2>2, <2>3 DEF ClearedInv
  <2>4. CASE TableStep("ctl")
    <3>1. pc["ctl"] \in RemSteps
      BY <1>0, <2>1, <2>4, TableMoves DEF SessionInv, TableSteps, RemSteps
    <3>2. CASE RemCheck("ctl")
      BY <1>0, <2>2, <3>2 DEF RemCheck, ClearedInv, Go, local, table
    <3>3. CASE RemCount("ctl")
      BY <1>0, <2>2, <3>3 DEF RemCount, ClearedInv, Go, local, table
    <3>4. CASE RemClear("ctl")
      BY <1>0, <2>2, <3>4 DEF RemClear, ClearedInv, Go, local, table
    <3>5. CASE RemTell("ctl")
      BY <1>0, <2>2, <3>5 DEF RemTell, ClearedInv, Go, local, table
    <3> QED
      BY <2>4, <3>1, <3>2, <3>3, <3>4, <3>5
         DEF TableStep, RemSteps, AddCheck, AddSet, AddCount, AddTell, Ask
  <2>5. CASE RemoveNext
    <3>1. present' = present /\ la'["ctl"] = la["ctl"] + 1 /\ pc'["ctl"] = "remCheck"
      BY <1>0, <2>5 DEF RemoveNext, Go, At, table
    <3>2. \A a \in present : a > la["ctl"] /\ a \in Nat
      BY <1>0, <2>2, <2>5 DEF RemoveNext, Addrs
    <3>3. \A a \in present : a > la["ctl"] + 1 \/ a = la["ctl"] + 1
      BY <1>0, <3>2 DEF AllAddrs
    <3> QED
      BY <3>1, <3>3 DEF ClearedInv
  <2>6. UNCHANGED <<present, pc, la>> \/ TableStep("ctl") \/ RemoveNext
    <3>1. ~TableStep("poll") /\ ~TableStep("frame")
      BY <1>0, <2>1, TableMoves DEF TableSteps
    <3>2. \A a, d : UpdateCheck(a, d) => UNCHANGED <<present, pc, la>>
      BY DEF UpdateCheck, table, local
    <3>3. Environment => UNCHANGED <<present, pc, la>>
      BY DEF Environment, Plug, Speak, GetLogicalAddress, table, local
    <3>4. ~HandleAnnounce /\ ~HandleDetail /\ ~FrameDone
      BY <2>1 DEF HandleAnnounce, HandleDetail, FrameDone
    <3>5. /\ ~Trigger /\ ~PingSkipped /\ ~PingAck /\ ~PingNoAck /\ ~PingIOException
          /\ ~PingException /\ ~PollNext
      BY <2>1 DEF Trigger, PingSkipped, Pinged, PingAck, PingNoAck, PingIOException,
         PingException, PollNext
    <3>6. /\ phase' = "enable"
          /\ ~OpenConnection /\ ~OpenFails /\ ~SetEnableStatus /\ ~StartPolling
          /\ ~GreetFails /\ ~Terminate /\ ~CECDisable /\ ~JoinPoll /\ ~CloseConnection
      BY <2>1 DEF OpenConnection, OpenFails, SetEnableStatus, StartPolling, GreetFails,
         Terminate, CECDisable, JoinPoll, CloseConnection
    <3> QED
      BY <1>2, <3>1, <3>2, <3>3, <3>4, <3>5, <3>6
         DEF Next, PollThread, FrameThread, UpdateThread, Controller, vars, table, local
  <2> QED
    BY <2>3, <2>4, <2>5, <2>6
<1> QED
  BY <1>1, <1>2

\* The listener is attached only by OpenConnection, when the last address has
\* been cleared.
LEMMA OpensClean ==
  TypeOK /\ SessionInv /\ ClearedInv /\ [Next]_vars
     => (~listening /\ listening' => present' = {} /\ m_numberOfDevices' = 0)
<1> SUFFICES ASSUME TypeOK, ClearedInv, [Next]_vars, ~listening, listening'
             PROVE  present' = {} /\ m_numberOfDevices' = 0
  OBVIOUS
<1>1. OpenConnection
  BY DEF Next, Environment, UpdateThread, PollThread, FrameThread, Controller,
     TableStep, AddCheck, AddSet, AddCount, AddTell, Ask, RemCheck, RemCount,
     RemClear, RemTell, Plug, Speak, GetLogicalAddress, UpdateCheck, Trigger,
     PingSkipped, Pinged, PingAck, PingNoAck, PingIOException, PingException, PollNext,
     HandleAnnounce, HandleDetail, FrameDone, RemoveNext, CECEnable, OpenFails,
     SetEnableStatus, StartPolling, GreetFails, Terminate, CECDisable, JoinPoll, CloseConnection, vars, session
<1>2. \A a \in present : a > la["ctl"] /\ a \in 0 .. UNREGISTERED - 1
  BY <1>1 DEF OpenConnection, RemovedAll, ClearedInv, TypeOK, Addrs
<1>3. la["ctl"] \in Nat /\ la["ctl"] + 1 >= UNREGISTERED /\ UNREGISTERED \in Nat
  BY <1>1, AddressAssumption DEF OpenConnection, RemovedAll, TypeOK, AllAddrs, Threads
<1>4. present = {}
  BY <1>2, <1>3
<1> QED
  BY <1>1, <1>4 DEF OpenConnection

\* CECEnable attaches the frame listener to an empty table with a counter of
\* zero, whatever the last session left behind, however its threads overlapped
\* and however it was rolled back.
THEOREM StartsClean == Spec => SessionStartsClean
<1>1. Init => TypeOK /\ AddrInv /\ SessionInv /\ ClearedInv
  BY InitTypes, InitSession
<1>2. TypeOK /\ AddrInv /\ SessionInv /\ ClearedInv /\ [Next]_vars
         => (TypeOK /\ AddrInv /\ SessionInv /\ ClearedInv)'
  BY StepTypes, StepSession, StepCleared
<1>3. TypeOK /\ SessionInv /\ ClearedInv /\ [Next]_vars
         => [~listening /\ listening' => present' = {} /\ m_numberOfDevices' = 0]_vars
  BY OpensClean
<1> QED
  BY <1>1, <1>2, <1>3, PTL DEF Spec, SessionStartsClean

-------------------------------------------------------------------------------
AddSteps == {"addSet", "addCount", "addTell"}

\* Two threads that change the table at one address know it: neither is alone and
\* the address is raced.
MeetInv ==
    /\ \A t \in Threads : Changing(t) => la[t] \in Addrs
    /\ \A t \in alone : Changing(t) /\ Met(t) = {}
    /\ \A t \in Threads \ alone : Changing(t) => la[t] \in raced

\* How far a thread that is alone at its address has come: what the table and,
\* unless others have raced there before, the clients say of it.
Stage(t) ==
    /\ pc[t] \in {"addSet", "remTell"} => la[t] \notin present
    /\ pc[t] \in {"addCount", "addTell", "remCount", "remClear"} => la[t] \in present
    /\ la[t] \notin raced => (la[t] \in client) = (pc[t] \notin AddSteps)

\* Where nobody is changing the table clients know it.
ViewInv ==
    /\ \A t \in alone : Stage(t)
    /\ ClientViewMatches

\* The devices that are counted: not yet those that are added, and no more those
\* that are removed.
Counted ==
    {a \in present : \A t \in Threads : pc[t] \in {"addCount", "remClear"} => la[t] # a}

\* Unless two threads have met since the reset, the counter is the number of the
\* devices counted and the value loaded by the one thread that is counting.
CountInv ==
    ~crowded =>
        /\ \A t \in Threads : Changing(t) => t \in alone
        /\ \A t, u \in Threads : Counting(t) /\ Counting(u) => t = u
        /\ \A t \in Threads : Counting(t) => tmp[t] = m_numberOfDevices
        /\ m_numberOfDevices = Cardinality(Counted)

BalanceInv == MeetInv /\ ViewInv /\ CountInv

\* The devices of the table are finitely many.
LEMMA PresentFinite ==
  ASSUME TypeOK
  PROVE  IsFiniteSet(present) /\ IsFiniteSet(Counted) /\ Cardinality(Counted) \in Nat
<1>1. IsFiniteSet(Addrs)
  BY AddressAssumption, FS_Interval DEF Addrs
<1>2. Counted \subseteq present /\ present \subseteq Addrs
  BY DEF Counted, TypeOK
<1>3. IsFiniteSet(present)
  BY <1>1, <1>2, FS_Subset
<1>4. IsFiniteSet(Counted)
  BY <1>2, <1>3, FS_Subset
<1> QED
  BY <1>3, <1>4, FS_CardinalityType

\* Nothing is unbalanced when the object has been constructed.
LEMMA InitBalance == Init => BalanceInv
<1> SUFFICES ASSUME Init PROVE BalanceInv
  OBVIOUS
<1>1. \A t \in Threads : ~Changing(t) /\ ~Counting(t)
  BY DEF Init, Changing, Counting
<1>2. Counted = {} /\ Cardinality({}) = 0
  BY FS_EmptySet DEF Init, Counted
<1>3. MeetInv
  BY <1>1 DEF MeetInv, Init
<1>4. ViewInv
  BY DEF ViewInv, ClientViewMatches, Init
<1>5. CountInv
  BY <1>1, <1>2 DEF CountInv, Init
<1> QED
  BY <1>3, <1>4, <1>5 DEF BalanceInv

\* A step that leaves the table, its counter and its clients alone keeps the balance.
LEMMA OutsideBalance ==
  ASSUME BalanceInv, TypeOK, TypeOK',
         UNCHANGED <<present, m_numberOfDevices, client, raced, alone, crowded, tmp>>,
         \A t \in Threads : \/ pc'[t] = pc[t] /\ la'[t] = la[t]
                            \/ ~Changing(t) /\ ~Changing(t)'
  PROVE  BalanceInv'
<1>1. \A t \in Threads : /\ Changing(t)' = Changing(t)
                         /\ Changing(t) => pc'[t] = pc[t] /\ la'[t] = la[t]
  BY DEF Changing
<1>2. \A t \in Threads : /\ Counting(t)' = Counting(t)
                         /\ pc[t] \in {"addCount", "remClear"} => Changing(t)
                         /\ pc'[t] \in {"addCount", "remClear"} => Changing(t)'
                         /\ Counting(t) => Changing(t)
  BY <1>1 DEF Changing, Counting
<1>3. \A t \in Threads : Changing(t) => Met(t)' = Met(t)
  BY <1>1 DEF Met
<1>4. alone \subseteq Threads
  BY DEF TypeOK
<1>5. MeetInv'
  BY <1>1, <1>3, <1>4 DEF BalanceInv, MeetInv
<1>6. ASSUME NEW t \in alone PROVE Stage(t)'
  <2>1. Stage(t) /\ pc'[t] = pc[t] /\ la'[t] = la[t]
    BY <1>1, <1>4, <1>6 DEF BalanceInv, ViewInv, MeetInv
  <2> QED
    BY <2>1 DEF Stage
<1>7. ClientViewMatches'
  <2>1. \A a \in Addrs : ChangedBy(a)' = ChangedBy(a)
    BY <1>1 DEF ChangedBy
  <2> QED
    BY <2>1 DEF BalanceInv, ViewInv, ClientViewMatches
<1>8. Counted' = Counted
  BY <1>1, <1>2 DEF Counted
<1>9. CountInv'
  BY <1>1, <1>2, <1>8 DEF BalanceInv, CountInv
<1> QED
  BY <1>5, <1>6, <1>7, <1>9 DEF BalanceInv, ViewInv

\* What a thread does to the balance when it passes its test: at its address it is
\* alone or has met somebody.
LEMMA DecideBalance ==
  ASSUME TypeOK, TypeOK', BalanceInv, NEW t \in Threads, ~Changing(t), Changing(t)',
         la' = la, \A u \in Threads \ {t} : pc'[u] = pc[u],
         la[t] \in Addrs, Decide(t), UNCHANGED <<present, client>>,
         pc'[t] \in {"addSet", "remCount"}, (pc'[t] = "addSet") = (la[t] \notin present)
  PROVE  MeetInv' /\ ViewInv'
<1>1. \A u \in Threads \ {t} : Changing(u)' = Changing(u)
  BY DEF Changing
<1>2. /\ t \notin alone /\ alone \subseteq Threads /\ alone' \subseteq Threads
      /\ \A u \in alone : Changing(u) /\ Met(u) = {}
  BY DEF BalanceInv, MeetInv, TypeOK
<1>3. Met(t)' = Met(t)
  BY <1>1 DEF Met
<1>4. ASSUME NEW u \in Threads \ {t}, la[u] # la[t] PROVE Met(u)' = Met(u)
  BY <1>1, <1>4 DEF Met
<1>5. ASSUME NEW u \in alone', u # t PROVE u \in alone /\ la[u] # la[t]
  <2>1. u \in alone /\ u \notin Met(t)
    BY <1>5 DEF Decide
  <2> QED
    BY <1>2, <1>5, <2>1 DEF Met
<1>6. t \in alone' => Met(t) = {}
  BY <1>2 DEF Decide
<1>7. MeetInv'
  <2>1. \A u \in Threads : Changing(u)' => la'[u] \in Addrs
    BY <1>1 DEF BalanceInv, MeetInv
  <2>2. \A u \in alone' : Changing(u)' /\ Met(u)' = {}
    BY <1>1, <1>2, <1>3, <1>4, <1>5, <1>6
  <2>3. ASSUME NEW u \in Threads \ alone', Changing(u)' PROVE la'[u] \in raced'
    <3>1. CASE u = t
      BY <2>3, <3>1 DEF Decide
    <3>2. CASE u # t /\ u \notin alone
      <4>1. la[u] \in raced
        BY <1>1, <2>3, <3>2 DEF BalanceInv, MeetInv
      <4> QED
        BY <4>1 DEF Decide
    <3>3. CASE u # t /\ u \in alone
      <4>1. u \in Met(t) /\ Met(t) # {}
        BY <2>3, <3>3 DEF Decide
      <4> QED
        BY <4>1 DEF Decide, Met
    <3> QED
      BY <3>1, <3>2, <3>3
  <2> QED
    BY <2>1, <2>2, <2>3 DEF MeetInv
<1>8. ASSUME NEW u \in alone' PROVE Stage(u)'
  <2>1. CASE u # t
    <3>1. /\ u \in Threads \ {t} /\ u \in alone /\ la[u] # la[t] /\ Stage(u)
      BY <1>2, <1>5, <2>1 DEF BalanceInv, ViewInv
    <3>2. pc'[u] = pc[u] /\ la[u] \in raced' <=> la[u] \in raced
      BY <3>1 DEF Decide
    <3>3. pc'[u] = pc[u]
      BY <3>1
    <3> QED
      BY <3>1, <3>2, <3>3 DEF Stage, Decide
  <2>2. CASE u = t
    <3>1. Met(t) = {} /\ raced' = raced
      BY <1>6, <1>8, <2>2 DEF Decide
    <3>2. ChangedBy(la[t]) = {}
      BY <3>1 DEF Met, ChangedBy
    <3>3. la[t] \notin raced => (la[t] \in client) = (la[t] \in present)
      BY <3>2 DEF BalanceInv, ViewInv, ClientViewMatches
    <3> QED
      BY <2>2, <3>1, <3>3 DEF Stage, AddSteps
  <2> QED
    BY <2>1, <2>2
<1>9. ClientViewMatches'
  <2> SUFFICES ASSUME NEW a \in Addrs, a \notin raced', ChangedBy(a)' = {}
               PROVE  (a \in client) = (a \in present)
    BY DEF ClientViewMatches
  <2>1. a # la[t]
    BY DEF ChangedBy
  <2>2. a \notin raced /\ ChangedBy(a) = {}
    BY <1>1, <2>1 DEF Decide, ChangedBy
  <2> QED
    BY <2>2 DEF BalanceInv, ViewInv, ClientViewMatches
<1> QED
  BY <1>7, <1>8, <1>9 DEF ViewInv

\* A thread that goes from one stage of its change to the next keeps what holds
\* where it meets somebody, and at every other address.
LEMMA StageBalance ==
  ASSUME TypeOK, TypeOK', BalanceInv, NEW t \in Threads, Changing(t), Changing(t)',
         la' = la, \A u \in Threads \ {t} : pc'[u] = pc[u],
         UNCHANGED <<client, raced, alone>>, t \in alone => Stage(t)',
         \A a \in Addrs \ {la[t]} : (a \in present') = (a \in present)
  PROVE  MeetInv' /\ ViewInv'
<1>1. \A u \in Threads : Changing(u)' = Changing(u)
  BY DEF Changing
<1>2. alone \subseteq Threads /\ la[t] \in Addrs
  BY DEF BalanceInv, MeetInv, TypeOK
<1>3. \A u \in Threads : Met(u)' = Met(u)
  BY <1>1 DEF Met
<1>4. MeetInv'
  BY <1>1, <1>2, <1>3 DEF BalanceInv, MeetInv
<1>5. ASSUME NEW u \in alone PROVE Stage(u)'
  <2>1. CASE u # t
    <3>1. la[u] # la[t] /\ Stage(u) /\ la[u] \in Addrs
      BY <1>2, <2>1 DEF BalanceInv, MeetInv, ViewInv, Met
    <3>2. pc'[u] = pc[u] /\ (la[u] \in present') = (la[u] \in present)
      BY <1>2, <2>1, <3>1
    <3> QED
      BY <3>1, <3>2 DEF Stage
  <2> QED
    BY <2>1
<1>6. ClientViewMatches'
  <2> SUFFICES ASSUME NEW a \in Addrs, a \notin raced, ChangedBy(a)' = {}
               PROVE  (a \in client) = (a \in present')
    BY DEF ClientViewMatches
  <2>1. a # la[t]
    BY DEF ChangedBy
  <2>2. ChangedBy(a) = {}
    BY <1>1 DEF ChangedBy
  <2> QED
    BY <2>1, <2>2 DEF BalanceInv, ViewInv, ClientViewMatches
<1> QED
  BY <1>4, <1>5, <1>6 DEF ViewInv

\* A thread that has told the clients makes them right, unless it met somebody.
LEMMA ToldBalance ==
  ASSUME TypeOK, TypeOK', BalanceInv, NEW t \in Threads, Changing(t), ~Changing(t)',
         la' = la, \A u \in Threads \ {t} : pc'[u] = pc[u],
         UNCHANGED present, Told(t),
         t \in alone => (la[t] \in client') = (la[t] \in present),
         \A a \in Addrs \ {la[t]} : (a \in client') = (a \in client)
  PROVE  MeetInv' /\ ViewInv'
<1>1. \A u \in Threads \ {t} : Changing(u)' = Changing(u)
  BY DEF Changing
<1>2. alone \subseteq Threads /\ la[t] \in Addrs
  BY DEF BalanceInv, MeetInv, TypeOK
<1>3. \A u \in Threads \ {t} : Met(u)' \subseteq Met(u)
  BY <1>1 DEF Met
<1>4. ASSUME NEW u \in Threads \ {t}, Changing(u), t \in alone PROVE la[u] # la[t]
  BY <1>4 DEF BalanceInv, MeetInv, Met
<1>5. MeetInv'
  <2>1. \A u \in Threads : Changing(u)' => la'[u] \in Addrs
    BY <1>1 DEF BalanceInv, MeetInv
  <2>2. \A u \in alone' : Changing(u)' /\ Met(u)' = {}
    BY <1>1, <1>2, <1>3 DEF BalanceInv, MeetInv, Told
  <2>3. ASSUME NEW u \in Threads \ alone', Changing(u)' PROVE la'[u] \in raced'
    <3>1. u # t /\ u \notin alone /\ Changing(u)
      BY <1>1, <2>3 DEF Told
    <3>2. la[u] \in raced
      BY <3>1 DEF BalanceInv, MeetInv
    <3> QED
      BY <1>4, <3>1, <3>2 DEF Told
  <2> QED
    BY <2>1, <2>2, <2>3 DEF MeetInv
<1>6. ASSUME NEW u \in alone' PROVE Stage(u)'
  <2>1. u \in alone /\ u # t /\ u \in Threads
    BY <1>2, <1>6 DEF Told
  <2>2. la[u] # la[t] /\ la[u] \in Addrs /\ Stage(u)
    BY <1>2, <2>1 DEF BalanceInv, MeetInv, ViewInv, Met
  <2>3. /\ pc'[u] = pc[u] /\ (la[u] \in client') = (la[u] \in client)
        /\ (la[u] \in raced') = (la[u] \in raced)
    BY <2>1, <2>2 DEF Told
  <2> QED
    BY <2>2, <2>3 DEF Stage
<1>7. ClientViewMatches'
  <2> SUFFICES ASSUME NEW a \in Addrs, a \notin raced', ChangedBy(a)' = {}
               PROVE  (a \in client') = (a \in present)
    BY DEF ClientViewMatches
  <2>1. CASE a = la[t]
    <3>1. t \in alone
      BY <2>1 DEF BalanceInv, MeetInv, Told
    <3> QED
      BY <2>1, <3>1
  <2>2. CASE a # la[t]
    <3>1. a \notin raced /\ ChangedBy(a) = {}
      BY <1>1, <2>2 DEF Told, ChangedBy
    <3> QED
      BY <2>2, <3>1 DEF BalanceInv, ViewInv, ClientViewMatches
  <2> QED
    BY <2>1, <2>2
<1> QED
  BY <1>5, <1>6, <1>7 DEF ViewInv

\* Passing the test counts nothing yet.
LEMMA DecideCount ==
  ASSUME TypeOK, TypeOK', BalanceInv, NEW t \in Threads, ~Changing(t), Changing(t)',
         la' = la, \A u \in Threads \ {t} : pc'[u] = pc[u] /\ tmp'[u] = tmp[u],
         Decide(t), UNCHANGED <<present, m_numberOfDevices>>,
         \/ pc'[t] = "addSet" /\ crowded' = (crowded \/ Met(t) # {})
         \/ /\ pc'[t] = "remCount" /\ tmp'[t] = m_numberOfDevices
            /\ crowded' = (crowded \/ Met(t) # {} \/ \E u \in Threads : Counting(u))
  PROVE  CountInv'
<1> SUFFICES ASSUME ~crowded' PROVE ~crowded' => CountInv'
  BY DEF CountInv
<1>1. /\ \A u \in Threads \ {t} : Changing(u)' = Changing(u) /\ Counting(u)' = Counting(u)
      /\ ~Counting(t) /\ pc[t] \notin {"addCount", "remClear"}
  BY DEF Changing, Counting
<1>2. ~crowded /\ Met(t) = {} /\ alone' = alone \cup {t}
  BY DEF Decide
<1>3. Counted' = Counted
  BY <1>1 DEF Counted
<1>4. \A u \in Threads : Changing(u)' => u \in alone'
  BY <1>1, <1>2 DEF BalanceInv, CountInv
<1>5. /\ \A u, v \in Threads : Counting(u)' /\ Counting(v)' => u = v
      /\ \A u \in Threads : Counting(u)' => tmp'[u] = m_numberOfDevices'
  <2>1. CASE pc'[t] = "addSet"
    <3>1. ~Counting(t)'
      BY <2>1 DEF Counting
    <3> QED
      BY <1>1, <1>2, <3>1 DEF BalanceInv, CountInv
  <2>2. CASE pc'[t] # "addSet"
    <3>1. tmp'[t] = m_numberOfDevices /\ \A u \in Threads : ~Counting(u)
      BY <2>2
    <3> QED
      BY <1>1, <3>1
  <2> QED
    BY <2>1, <2>2
<1> QED
  BY <1>2, <1>3, <1>4, <1>5 DEF BalanceInv, CountInv

\* A step that moves one thread that is counted right, or not counting.
LEMMA StageCount ==
  ASSUME TypeOK, TypeOK', BalanceInv, NEW t \in Threads, la' = la,
         \A u \in Threads \ {t} : pc'[u] = pc[u] /\ tmp'[u] = tmp[u],
         alone' = IF Changing(t)' THEN alone ELSE alone \ {t},
         ~crowded, ~crowded', Changing(t),
         \/ /\ ~Counting(t)' /\ Counted' = Counted /\ m_numberOfDevices' = m_numberOfDevices
         \/ /\ ~Counting(t)' /\ Counting(t) /\ m_numberOfDevices' = Cardinality(Counted')
         \/ /\ \A u \in Threads : ~Counting(u)
            /\ tmp'[t] = m_numberOfDevices /\ Counted' = Counted
            /\ m_numberOfDevices' = m_numberOfDevices
  PROVE  CountInv'
<1>1. \A u \in Threads \ {t} : Changing(u)' = Changing(u) /\ Counting(u)' = Counting(u)
  BY DEF Changing, Counting
<1>2. \A u \in Threads : Changing(u)' => u \in alone'
  BY <1>1 DEF BalanceInv, CountInv
<1>3. m_numberOfDevices' = Cardinality(Counted')
  BY DEF BalanceInv, CountInv
<1>4. /\ \A u, v \in Threads : Counting(u) /\ Counting(v) => u = v
      /\ \A u \in Threads : Counting(u) => tmp[u] = m_numberOfDevices
  BY DEF BalanceInv, CountInv
<1>5. /\ \A u, v \in Threads : Counting(u)' /\ Counting(v)' => u = v
      /\ \A u \in Threads : Counting(u)' => tmp'[u] = m_numberOfDevices'
  <2>1. CASE ~Counting(t)' /\ m_numberOfDevices' = m_numberOfDevices
    BY <1>1, <1>4, <2>1
  <2>2. CASE ~Counting(t)' /\ Counting(t)
    BY <1>1, <1>4, <2>2
  <2>3. CASE /\ \A u \in Threads : ~Counting(u)
             /\ tmp'[t] = m_numberOfDevices /\ m_numberOfDevices' = m_numberOfDevices
    BY <1>1, <2>3
  <2> QED
    BY <2>1, <2>2, <2>3
<1> QED
  BY <1>2, <1>3, <1>5 DEF CountInv

\* Every step inside addDevice and removeDevice keeps the balance.
LEMMA TableBalance ==
  ASSUME TypeOK, TypeOK', AddrInv, BalanceInv, NEW t \in Threads, TableStep(t)
  PROVE  BalanceInv'
<1>1. /\ pc \in [Threads -> Steps] /\ tmp \in [Threads -> Int] /\ la[t] \in AllAddrs
      /\ m_numberOfDevices \in Int /\ present \subseteq Addrs
  BY DEF TypeOK
<1>2. la' = la /\ \A u \in Threads \ {t} : pc'[u] = pc[u]
  BY TableMoves
<1>3. IsFiniteSet(Counted) /\ Cardinality(Counted) \in Nat
  BY PresentFinite
<1>4. /\ t \in alone => Stage(t) /\ \A u \in Threads \ {t} : Changing(u) => la[u] # la[t]
      /\ Changing(t) /\ t \notin alone => crowded
  BY DEF BalanceInv, MeetInv, ViewInv, CountInv, Met
<1>5. CASE AddCheck(t)
  <2>1. CASE pc'[t] = "addSet"
    <3>1. /\ ~Changing(t) /\ Changing(t)' /\ la[t] \notin present
          /\ la[t] < UNREGISTERED /\ Decide(t)
          /\ crowded' = (crowded \/ Met(t) # {})
          /\ UNCHANGED <<present, m_numberOfDevices, client, tmp>>
      BY <1>1, <1>5, <2>1 DEF AddCheck, Go, Changing, table, local
    <3>2. la[t] \in Addrs
      BY <1>1, <3>1, AddressAssumption DEF Addrs, AllAddrs
    <3>3. MeetInv' /\ ViewInv'
      BY <1>2, <2>1, <3>1, <3>2, DecideBalance
    <3>4. CountInv'
      BY <1>2, <2>1, <3>1, DecideCount
    <3> QED
      BY <3>3, <3>4 DEF BalanceInv
  <2>2. CASE pc'[t] # "addSet"
    <3>1. /\ ~Changing(t) /\ ~Changing(t)'
          /\ UNCHANGED <<present, m_numberOfDevices, client, raced, alone, crowded, tmp>>
      BY <1>1, <1>5, <2>2 DEF AddCheck, Go, Changing, table, local
    <3> QED
      BY <1>2, <3>1, OutsideBalance
  <2> QED
    BY <2>1, <2>2
<1>6. CASE AddSet(t)
  <2>1. /\ pc[t] = "addSet" /\ pc'[t] = "addCount" /\ present' = present \cup {la[t]}
        /\ tmp'[t] = m_numberOfDevices /\ \A u \in Threads \ {t} : tmp'[u] = tmp[u]
        /\ crowded' = (crowded \/ \E u \in Threads : Counting(u))
        /\ UNCHANGED <<m_numberOfDevices, client, raced, alone>>
    BY <1>1, <1>6 DEF AddSet, Go
  <2>2. Changing(t) /\ Changing(t)'
    BY <2>1 DEF Changing
  <2>3. t \in alone => Stage(t)'
    BY <1>2, <1>4, <2>1 DEF Stage, AddSteps
  <2>4. MeetInv' /\ ViewInv'
    BY <1>2, <2>1, <2>2, <2>3, StageBalance
  <2>5. ASSUME ~crowded' PROVE CountInv'
    <3>1. ~crowded /\ (\A u \in Threads : ~Counting(u)) /\ la[t] \notin present
      BY <1>4, <2>1, <2>2, <2>5 DEF Stage
    <3>2. Counted' = Counted
      BY <1>2, <2>1, <3>1 DEF Counted
    <3> QED
      BY <1>2, <2>1, <2>2, <2>5, <3>1, <3>2, StageCount
  <2> QED
    BY <2>4, <2>5 DEF BalanceInv, CountInv
<1>7. CASE AddCount(t)
  <2>1. /\ pc[t] = "addCount" /\ pc'[t] = "addTell" /\ m_numberOfDevices' = tmp[t] + 1
        /\ UNCHANGED <<present, client, raced, alone, crowded, tmp>>
    BY <1>1, <1>7 DEF AddCount, Go, local, views
  <2>2. Changing(t) /\ Changing(t)' /\ Counting(t) /\ ~Counting(t)'
    BY <2>1 DEF Changing, Counting
  <2>3. t \in alone => Stage(t)'
    BY <1>2, <1>4, <2>1 DEF Stage, AddSteps
  <2>4. MeetInv' /\ ViewInv'
    BY <1>2, <2>1, <2>2, <2>3, StageBalance
  <2>5. ASSUME ~crowded' PROVE CountInv'
    <3>1. t \in alone /\ la[t] \in present /\ tmp[t] = m_numberOfDevices
          /\ m_numberOfDevices = Cardinality(Counted) /\ ~crowded
      BY <1>4, <2>1, <2>2, <2>5 DEF Stage, BalanceInv, CountInv
    <3>2. \A u \in Threads \ {t} : pc[u] \in {"addCount", "remClear"} => la[u] # la[t]
      BY <1>4, <3>1 DEF Changing
    <3>3. Counted' = Counted \cup {la[t]} /\ la[t] \notin Counted
      BY <1>2, <2>1, <3>1, <3>2 DEF Counted
    <3>4. Cardinality(Counted') = Cardinality(Counted) + 1
      BY <1>3, <3>3, FS_AddElement
    <3>5. m_numberOfDevices' = Cardinality(Counted')
      BY <2>1, <3>1, <3>4
    <3> QED
      BY <1>2, <2>1, <2>2, <2>5, <3>1, <3>5, StageCount
  <2> QED
    BY <2>4, <2>5 DEF BalanceInv, CountInv
<1>8. CASE AddTell(t)
  <2>1. /\ pc[t] = "addTell" /\ pc'[t] = "ask" /\ client' = client \cup {la[t]} /\ Told(t)
        /\ UNCHANGED <<present, m_numberOfDevices, crowded, tmp>>
    BY <1>1, <1>8 DEF AddTell, Go, local, table
  <2>2. Changing(t) /\ ~Changing(t)' /\ ~Counting(t)'
    BY <2>1 DEF Changing, Counting
  <2>3. t \in alone => (la[t] \in client') = (la[t] \in present)
    BY <1>4, <2>1 DEF Stage
  <2>4. MeetInv' /\ ViewInv'
    BY <1>2, <2>1, <2>2, <2>3, ToldBalance
  <2>5. ASSUME ~crowded' PROVE CountInv'
    <3>1. Counted' = Counted
      BY <1>2, <2>1 DEF Counted
    <3> QED
      BY <1>2, <2>1, <2>2, <2>5, <3>1, StageCount DEF Told
  <2> QED
    BY <2>4, <2>5 DEF BalanceInv, CountInv
<1>9. CASE Ask(t)
  <2>1. /\ ~Changing(t) /\ ~Changing(t)'
        /\ UNCHANGED <<present, m_numberOfDevices, client, raced, alone, crowded, tmp>>
    BY <1>1, <1>9 DEF Ask, Go, Changing, table, local, views
  <2> QED
    BY <1>2, <2>1, OutsideBalance
<1>10. CASE RemCheck(t)
  <2>1. CASE pc'[t] = "remCount"
    <3>1. /\ ~Changing(t) /\ Changing(t)' /\ la[t] \in present /\ Decide(t)
          /\ tmp'[t] = m_numberOfDevices /\ \A u \in Threads \ {t} : tmp'[u] = tmp[u]
          /\ crowded' = (crowded \/ Met(t) # {} \/ \E u \in Threads : Counting(u))
          /\ UNCHANGED <<present, m_numberOfDevices, client>>
      BY <1>1, <1>10, <2>1 DEF RemCheck, Go, Changing, table
    <3>2. la[t] \in Addrs
      BY <1>1, <3>1
    <3>3. MeetInv' /\ ViewInv'
      BY <1>2, <2>1, <3>1, <3>2, DecideBalance
    <3>4. CountInv'
      BY <1>2, <2>1, <3>1, DecideCount
    <3> QED
      BY <3>3, <3>4 DEF BalanceInv
  <2>2. CASE pc'[t] # "remCount"
    <3>1. /\ ~Changing(t) /\ ~Changing(t)'
          /\ UNCHANGED <<present, m_numberOfDevices, client, raced, alone, crowded, tmp>>
      BY <1>1, <1>10, <2>2 DEF RemCheck, Go, Changing, table
    <3> QED
      BY <1>2, <3>1, OutsideBalance
  <2> QED
    BY <2>1, <2>2
<1>11. CASE RemCount(t)
  <2>1. /\ pc[t] = "remCount" /\ pc'[t] = "remClear" /\ m_numberOfDevices' = tmp[t] - 1
        /\ UNCHANGED <<present, client, raced, alone, crowded, tmp>>
    BY <1>1, <1>11 DEF RemCount, Go, local, views
  <2>2. Changing(t) /\ Changing(t)' /\ Counting(t) /\ ~Counting(t)'
    BY <2>1 DEF Changing, Counting
  <2>3. t \in alone => Stage(t)'
    BY <1>2, <1>4, <2>1 DEF Stage, AddSteps
  <2>4. MeetInv' /\ ViewInv'
    BY <1>2, <2>1, <2>2, <2>3, StageBalance
  <2>5. ASSUME ~crowded' PROVE CountInv'
    <3>1. t \in alone /\ la[t] \in present /\ tmp[t] = m_numberOfDevices
          /\ m_numberOfDevices = Cardinality(Counted) /\ ~crowded
      BY <1>4, <2>1, <2>2, <2>5 DEF Stage, BalanceInv, CountInv
    <3>2. \A u \in Threads \ {t} : pc[u] \in {"addCount", "remClear"} => la[u] # la[t]
      BY <1>4, <3>1 DEF Changing
    <3>3. Counted' = Counted \ {la[t]} /\ la[t] \in Counted
      BY <1>2, <2>1, <3>1, <3>2 DEF Counted
    <3>4. Cardinality(Counted') = Cardinality(Counted) - 1
      BY <1>3, <3>3, FS_RemoveElement
    <3>5. m_numberOfDevices' = Cardinality(Counted')
      BY <2>1, <3>1, <3>4
    <3> QED
      BY <1>2, <2>1, <2>2, <2>5, <3>1, <3>5, StageCount
  <2> QED
    BY <2>4, <2>5 DEF BalanceInv, CountInv
<1>12. CASE RemClear(t)
  <2>1. /\ pc[t] = "remClear" /\ pc'[t] = "remTell" /\ present' = present \ {la[t]}
        /\ UNCHANGED <<m_numberOfDevices, client, raced, alone, crowded, tmp>>
    BY <1>1, <1>12 DEF RemClear, Go, local, views
  <2>2. Changing(t) /\ Changing(t)' /\ ~Counting(t)'
    BY <2>1 DEF Changing, Counting
  <2>3. t \in alone => Stage(t)'
    BY <1>2, <1>4, <2>1 DEF Stage, AddSteps
  <2>4. MeetInv' /\ ViewInv'
    BY <1>2, <2>1, <2>2, <2>3, StageBalance
  <2>5. ASSUME ~crowded' PROVE CountInv'
    <3>1. Counted' = Counted
      BY <1>2, <2>1 DEF Counted
    <3> QED
      BY <1>2, <2>1, <2>2, <2>5, <3>1, StageCount
  <2> QED
    BY <2>4, <2>5 DEF BalanceInv, CountInv
<1>13. CASE RemTell(t)
  <2>1. /\ pc[t] = "remTell" /\ pc'[t] = "end" /\ client' = client \ {la[t]} /\ Told(t)
        /\ UNCHANGED <<present, m_numberOfDevices, crowded, tmp>>
    BY <1>1, <1>13 DEF RemTell, Go, local, table
  <2>2. Changing(t) /\ ~Changing(t)' /\ ~Counting(t)'
    BY <2>1 DEF Changing, Counting
  <2>3. t \in alone => (la[t] \in client') = (la[t] \in present)
    BY <1>4, <2>1 DEF Stage
  <2>4. MeetInv' /\ ViewInv'
    BY <1>2, <2>1, <2>2, <2>3, ToldBalance
  <2>5. ASSUME ~crowded' PROVE CountInv'
    <3>1. Counted' = Counted
      BY <1>2, <2>1 DEF Counted
    <3> QED
      BY <1>2, <2>1, <2>2, <2>5, <3>1, StageCount DEF Told
  <2> QED
    BY <2>4, <2>5 DEF BalanceInv, CountInv
<1> QED
  BY <1>5, <1>6, <1>7, <1>8, <1>9, <1>10, <1>11, <1>12, <1>13 DEF TableStep

\* The reset of CECEnable finds the table empty and nobody in it.
LEMMA ResetBalance ==
  ASSUME TypeOK, TypeOK', SessionInv, ClearedInv, BalanceInv, OpenConnection \/ OpenFails
  PROVE  BalanceInv'
<1>0. /\ "poll" \in Threads /\ "frame" \in Threads /\ "ctl" \in Threads
      /\ pc \in [Threads -> Steps] /\ la \in [Threads -> AllAddrs]
  BY DEF Threads, TypeOK
<1>1. /\ pc["ctl"] = "end" /\ pc["frame"] = "idle" /\ pc["poll"] = "none"
      /\ pc'["ctl"] = "idle" /\ \A t \in Threads \ {"ctl"} : pc'[t] = pc[t]
      /\ m_numberOfDevices' = 0 /\ UNCHANGED <<present, client, raced, alone, la>>
  BY <1>0 DEF OpenConnection, OpenFails, RemovedAll, SessionInv, Go, local
<1>2. \A t \in Threads : ~Changing(t) /\ ~Changing(t)' /\ ~Counting(t)'
  BY <1>1 DEF Changing, Counting, Threads
<1>3. present = {}
  <2>1. \A a \in present : a > la["ctl"] /\ a \in 0 .. UNREGISTERED - 1
    BY <1>1 DEF OpenConnection, OpenFails, ClearedInv, TypeOK, Addrs
  <2>2. la["ctl"] \in Nat /\ la["ctl"] + 1 >= UNREGISTERED /\ UNREGISTERED \in Nat
    BY <1>0, AddressAssumption DEF OpenConnection, OpenFails, RemovedAll, AllAddrs
  <2> QED
    BY <2>1, <2>2
<1>4. alone = {}
  BY <1>2 DEF BalanceInv, MeetInv, TypeOK
<1>5. MeetInv'
  BY <1>1, <1>2, <1>4 DEF MeetInv
<1>6. ViewInv'
  <2>1. \A a \in Addrs : ChangedBy(a) = {}
    BY <1>2 DEF ChangedBy
  <2> QED
    BY <1>1, <1>4, <2>1 DEF BalanceInv, ViewInv, ClientViewMatches
<1>7. CountInv'
  <2>1. Counted' = {} /\ Cardinality({}) = 0
    BY <1>1, <1>3, FS_EmptySet DEF Counted
  <2> QED
    BY <1>1, <1>2, <2>1 DEF CountInv
<1> QED
  BY <1>5, <1>6, <1>7 DEF BalanceInv

\* However the threads overlap, every step keeps the balance.
LEMMA StepBalance ==
  ASSUME TypeOK, TypeOK', AddrInv, SessionInv, ClearedInv, BalanceInv, [Next]_vars
  PROVE  BalanceInv'
<1>0. /\ "poll" \in Threads /\ "frame" \in Threads /\ "ctl" \in Threads
      /\ pc \in [Threads -> Steps] /\ la \in [Threads -> AllAddrs]
  BY DEF Threads, TypeOK
<1>2. ASSUME NEW t \in Threads, TableStep(t) PROVE BalanceInv'
  BY <1>2, TableBalance
<1>3. CASE UNCHANGED vars
  BY <1>3, OutsideBalance DEF vars, table, local, views
<1>4. CASE Environment \/ UpdateThread
  <2>1. UNCHANGED <<present, m_numberOfDevices, client, raced, alone, crowded, tmp, pc, la>>
    BY <1>4 DEF Environment, UpdateThread, Plug, Speak, GetLogicalAddress, UpdateCheck,
       table, local, views
  <2> QED
    BY <2>1, OutsideBalance
<1>5. CASE \/ Trigger \/ PingSkipped \/ PollNext \/ PingAck \/ PingNoAck
           \/ PingIOException \/ PingException
  <2>1. UNCHANGED <<present, m_numberOfDevices, client, raced, alone, crowded, tmp>>
    BY <1>5 DEF Trigger, PingSkipped, PollNext, Pinged, PingAck, PingNoAck,
       PingIOException, PingException, table, local, views
  <2>2. ~Changing("poll") /\ ~Changing("poll")'
    BY <1>0, <1>5 DEF Trigger, PingSkipped, PollNext, Pinged, PingAck, PingNoAck,
       PingIOException, PingException, Go, Changing
  <2>3. \A t \in Threads \ {"poll"} : pc'[t] = pc[t] /\ la'[t] = la[t]
    BY <1>0, <1>5 DEF Trigger, PingSkipped, PollNext, Pinged, PingAck, PingNoAck,
       PingIOException, PingException, Go, At, local
  <2> QED
    BY <2>1, <2>2, <2>3, OutsideBalance
<1>6. CASE HandleAnnounce \/ HandleDetail \/ FrameDone
  <2>1. UNCHANGED <<present, m_numberOfDevices, client, raced, alone, crowded, tmp>>
    BY <1>6 DEF HandleAnnounce, HandleDetail, FrameDone, table, local, views
  <2>2. pc'["frame"] = pc["frame"] \/ pc'["frame"] \in {"addCheck", "idle"}
    BY <1>0, <1>6 DEF HandleAnnounce, HandleDetail, FrameDone, Go
  <2>3. ~Changing("frame") /\ ~Changing("frame")'
    BY <1>0, <1>6, <2>2 DEF HandleAnnounce, HandleDetail, FrameDone, Go, Changing
  <2>4. \A t \in Threads \ {"frame"} : pc'[t] = pc[t] /\ la'[t] = la[t]
    BY <1>0, <1>6 DEF HandleAnnounce, HandleDetail, FrameDone, Go, At, local
  <2> QED
    BY <2>1, <2>3, <2>4, OutsideBalance
<1>7. CASE OpenConnection \/ OpenFails
  BY <1>7, ResetBalance
<1>8. CASE \/ CECEnable \/ RemoveNext \/ SetEnableStatus \/ StartPolling \/ GreetFails
           \/ Terminate \/ CECDisable \/ JoinPoll \/ CloseConnection
  <2>1. UNCHANGED <<present, m_numberOfDevices, client, raced, alone, crowded, tmp>>
    BY <1>8 DEF CECEnable, RemoveNext, SetEnableStatus, StartPolling, GreetFails, Terminate,
       CECDisable, JoinPoll, CloseConnection, table, local, views
  <2>2. \A t \in Threads : \/ pc'[t] = pc[t] /\ la'[t] = la[t]
                           \/ ~Changing(t) /\ ~Changing(t)'
    <3>1. CASE CECEnable \/ RemoveNext \/ CloseConnection
      BY <1>0, <3>1 DEF CECEnable, RemoveNext, CloseConnection, RemovedAll, SessionInv, Go,
         At, Changing, local
    <3>2. CASE SetEnableStatus \/ GreetFails \/ Terminate \/ CECDisable
      BY <3>2 DEF SetEnableStatus, GreetFails, Terminate, CECDisable, local
    <3>3. CASE StartPolling \/ JoinPoll
      BY <1>0, <3>3 DEF StartPolling, JoinPoll, SessionInv, At, Changing
    <3> QED
      BY <1>8, <3>1, <3>2, <3>3
  <2> QED
    BY <2>1, <2>2, OutsideBalance
<1> QED
  BY <1>0, <1>2, <1>3, <1>4, <1>5, <1>6, <1>7, <1>8
     DEF Next, PollThread, FrameThread, Controller

\* The balance always holds.
LEMMA BalanceHolds == Spec => [](TypeOK /\ AddrInv /\ BalanceInv)
<1>1. Init => TypeOK /\ AddrInv /\ SessionInv /\ ClearedInv /\ BalanceInv
  BY InitTypes, InitSession, InitBalance
<1>2. TypeOK /\ AddrInv /\ SessionInv /\ ClearedInv /\ BalanceInv /\ [Next]_vars
         => (TypeOK /\ AddrInv /\ SessionInv /\ ClearedInv /\ BalanceInv)'
  BY StepTypes, StepSession, StepCleared, StepBalance
<1> QED
  BY <1>1, <1>2, PTL DEF Spec

\* However the threads overlap, m_numberOfDevices is the number of devices whenever
\* no thread is in the table, unless two threads have counted or changed one address
\* at the same time since CECEnable reset it: the split increments and decrements,
\* the early returns, the rollback and the reset never leave them apart.
THEOREM CountIsRight == Spec => []CountMatches
<1>1. ASSUME BalanceInv PROVE CountMatches
  <2> SUFFICES ASSUME AtRest, ~crowded PROVE m_numberOfDevices = Cardinality(present)
    BY DEF CountMatches
  <2>1. Counted = present
    BY DEF AtRest, InTable, TableSteps, Counted
  <2> QED
    BY <1>1, <2>1 DEF BalanceInv, CountInv
<1> QED
  BY <1>1, BalanceHolds, PTL

\* A client that follows the notifications knows of every address what GetDeviceList
\* reports, however the threads overlap elsewhere; a race of two threads at one
\* address is made good by the next change that meets nobody there.
THEOREM ClientsAgree == Spec => []ClientViewMatches
<1>1. BalanceInv => ClientViewMatches
  BY DEF BalanceInv, ViewInv
<1> QED
  BY <1>1, BalanceHolds, PTL

\* No client gets OnDeviceAdded twice for a device, or OnDeviceRemoved for a device
\* it was never told of, unless two threads have raced at its address.
THEOREM NoEventTwice == Spec => []NotificationsAlternate
<1>1. ASSUME BalanceInv PROVE NotificationsAlternate
  <2> SUFFICES ASSUME NEW t \in Threads, la[t] \notin raced
               PROVE  /\ pc[t] = "addTell" => la[t] \notin client
                      /\ pc[t] = "remTell" => la[t] \in client
    BY DEF NotificationsAlternate
  <2>1. pc[t] \in {"addTell", "remTell"} => Stage(t)
    BY <1>1 DEF BalanceInv, MeetInv, ViewInv, Changing
  <2> QED
    BY <2>1 DEF Stage, AddSteps
<1> QED
  BY <1>1, BalanceHolds, PTL

\* Together: what goes wrong in the device state goes wrong only where two threads
\* have really met; the documentation's claim of thread safety would be this without
\* the exception.
THEOREM TableSafe == Spec => []WrongOnlyIfRaced
<1>1. CountMatches /\ ClientViewMatches /\ NotificationsAlternate => WrongOnlyIfRaced
  BY DEF WrongOnlyIfRaced
<1> QED
  BY <1>1, CountIsRight, ClientsAgree, NoEventTwice, PTL

\* With every overlap of the threads the table implements DeviceTable: a change at
\* an address is told before the next one is made there, except while two threads
\* race at it, and the first change that meets nobody ends the exception.
THEOREM TableRefinement == Spec => ImplementsTable
<1>1. Init => Table!Init
  BY DEF Init, Table!Init
<1>2. ASSUME TypeOK, TypeOK', AddrInv, BalanceInv, [Next]_vars
      PROVE  [Table!Next]_<<present, client, raced>>
  <2>1. ASSUME NEW t \in Threads, TableStep(t)
        PROVE  [Table!Next]_<<present, client, raced>>
    <3>0. /\ Changing(t) => /\ la[t] \in Addrs /\ (t \notin alone => la[t] \in raced)
                            /\ (t \in alone => Stage(t))
          /\ pc \in [Threads -> Steps]
      BY <1>2 DEF BalanceInv, MeetInv, ViewInv, TypeOK
    <3>1. CASE AddCheck(t) \/ RemCheck(t)
      <4>1. UNCHANGED <<present, client>>
        BY <3>1 DEF AddCheck, RemCheck, table
      <4>2. \/ raced' = raced
            \/ Decide(t) /\ (la[t] < UNREGISTERED \/ la[t] \in present)
        BY <3>1 DEF AddCheck, RemCheck
      <4>3. la[t] < UNREGISTERED \/ la[t] \in present => la[t] \in Addrs
        BY <1>2, AddressAssumption DEF TypeOK, Addrs, AllAddrs
      <4>4. raced' = raced \/ (Table!Race(la[t]) /\ la[t] \in Addrs)
        BY <4>1, <4>2, <4>3 DEF Decide, Table!Race
      <4> QED
        BY <4>1, <4>4 DEF Table!Next
    <3>2. CASE AddSet(t)
      <4>1. la[t] \in Addrs /\ (la[t] \in raced \/ Table!Agree(la[t]))
        BY <3>0, <3>2 DEF AddSet, Changing, Stage, AddSteps, Table!Agree
      <4>2. Table!Change(la[t])
        BY <3>2, <4>1 DEF AddSet, Table!Change
      <4> QED
        BY <4>1, <4>2 DEF Table!Next
    <3>3. CASE AddTell(t)
      <4>1. PICK a : a = la[t]
        OBVIOUS
      <4>2. Changing(t) /\ UNCHANGED present /\ Told(t)
        BY <3>3 DEF AddTell, Changing, table
      <4>3. a \in Addrs /\ (a \in raced' \/ Table!Agree(a)')
        BY <3>0, <3>3, <4>1, <4>2 DEF AddTell, Stage, Told, Table!Agree
      <4>4. Table!Tell(a)
        BY <3>3, <4>1, <4>2, <4>3 DEF AddTell, Told, Table!Tell
      <4> QED
        BY <4>3, <4>4 DEF Table!Next
    <3>4. CASE RemClear(t)
      <4>1. la[t] \in Addrs /\ (la[t] \in raced \/ Table!Agree(la[t]))
        BY <3>0, <3>4 DEF RemClear, Changing, Stage, AddSteps, Table!Agree
      <4>2. Table!Change(la[t])
        BY <3>4, <4>1 DEF RemClear, views, Table!Change
      <4> QED
        BY <4>1, <4>2 DEF Table!Next
    <3>5. CASE RemTell(t)
      <4>1. PICK a : a = la[t]
        OBVIOUS
      <4>2. Changing(t) /\ UNCHANGED present /\ Told(t)
        BY <3>5 DEF RemTell, Changing, table
      <4>3. a \in Addrs /\ (a \in raced' \/ Table!Agree(a)')
        BY <3>0, <3>5, <4>1, <4>2 DEF RemTell, Stage, Told, Table!Agree
      <4>4. Table!Tell(a)
        BY <3>5, <4>1, <4>2, <4>3 DEF RemTell, Told, Table!Tell
      <4> QED
        BY <4>3, <4>4 DEF Table!Next
    <3>6. CASE AddCount(t) \/ Ask(t) \/ RemCount(t)
      BY <3>6 DEF AddCount, Ask, RemCount, table, views
    <3> QED
      BY <2>1, <3>1, <3>2, <3>3, <3>4, <3>5, <3>6 DEF TableStep
  <2>2. CASE UNCHANGED vars
    BY <2>2 DEF vars, table, views
  <2>3. CASE \/ Environment \/ UpdateThread \/ Trigger \/ PingSkipped \/ PollNext
             \/ PingAck \/ PingNoAck \/ PingIOException \/ PingException
             \/ HandleAnnounce \/ HandleDetail \/ FrameDone
    BY <2>3 DEF Environment, Plug, Speak, GetLogicalAddress, UpdateThread, UpdateCheck,
                Trigger, PingSkipped, PollNext, Pinged, PingAck, PingNoAck, PingIOException,
                PingException, HandleAnnounce, HandleDetail, FrameDone, table, views
  <2>4. CASE \/ CECEnable \/ RemoveNext \/ OpenConnection \/ OpenFails \/ SetEnableStatus
             \/ StartPolling \/ GreetFails \/ Terminate \/ CECDisable \/ JoinPoll
             \/ CloseConnection
    BY <2>4 DEF CECEnable, RemoveNext, OpenConnection, OpenFails, SetEnableStatus,
                StartPolling, GreetFails, Terminate, CECDisable, JoinPoll, CloseConnection,
                table, views
  <2>5. "poll" \in Threads /\ "frame" \in Threads /\ "ctl" \in Threads
    BY DEF Threads
  <2> QED
    BY <1>2, <2>1, <2>2, <2>3, <2>4, <2>5 DEF Next, PollThread, FrameThread, Controller
<1> QED
  BY <1>1, <1>2, BalanceHolds, PTL DEF Spec, ImplementsTable, Table!Spec

-------------------------------------------------------------------------------
\* Frames that are not announcements of an absent device.
TimelyFrames ==
    {f \in FrameSet : f.kind = "announce" => f.from \in Occupied \cup {UNREGISTERED}}

\* What Calm says of the frames that wait, as a type.
LEMMA CalmFrames ==
  ASSUME NEW fs \in Seq(FrameSet)
  PROVE  (\A i \in DOMAIN fs :
            fs[i].kind = "announce" => fs[i].from \in Occupied \cup {UNREGISTERED})
            <=> fs \in Seq(TimelyFrames)
<1>1. \A i \in DOMAIN fs : fs[i] \in FrameSet
  OBVIOUS
<1>2. ASSUME \A i \in DOMAIN fs :
               fs[i].kind = "announce" => fs[i].from \in Occupied \cup {UNREGISTERED}
      PROVE  fs \in Seq(TimelyFrames)
  <2>1. \A i \in 1 .. Len(fs) : fs[i] \in TimelyFrames
    BY <1>1, <1>2 DEF TimelyFrames
  <2> QED
    BY <2>1, IsASeq
<1>3. ASSUME fs \in Seq(TimelyFrames), NEW i \in DOMAIN fs
      PROVE  fs[i].kind = "announce" => fs[i].from \in Occupied \cup {UNREGISTERED}
  <2>1. fs[i] \in TimelyFrames
    BY <1>3
  <2> QED
    BY <2>1 DEF TimelyFrames
<1> QED
  BY <1>2, <1>3

\* An answer is no announcement.
LEMMA AnswerTimely ==
  ASSUME TypeOK, NEW a \in AllAddrs, NEW D \in SUBSET Details, frames \in Seq(TimelyFrames)
  PROVE  Answer(a, D) \in Seq(TimelyFrames)
<1> DEFINE F == {Frame(d, a) : d \in D}
<1>1. IsFiniteSet(F)
  <2> DEFINE f == [d \in D |-> Frame(d, a)]
  <2>1. f \in Surjection(D, F)
    BY DEF Surjection
  <2> QED
    BY <2>1, FS_Subset, DetailAssumption, FS_Surjection
<1>2. F \subseteq TimelyFrames
  <2> SUFFICES ASSUME NEW d \in D PROVE Frame(d, a) \in TimelyFrames
    OBVIOUS
  <2>1. Frame(d, a) \in FrameSet
    BY FrameType
  <2>2. Frame(d, a).kind # "announce"
    BY DetailAssumption DEF Frame
  <2> QED
    BY <2>1, <2>2 DEF TimelyFrames
<1>3. SetToSeq(F) \in Seq(TimelyFrames)
  BY <1>1, <1>2, SetToSeqType
<1>4. frames \o SetToSeq(F) \in Seq(TimelyFrames)
  BY <1>3
<1>5. Clip(frames \o SetToSeq(F)) \in Seq(TimelyFrames)
  BY <1>4, ClipType
<1> QED
  BY <1>5 DEF Answer

\* What can happen while SetEnabled and the bus are quiet.
LEMMA QuietSteps ==
  ASSUME TypeOK, SessionInv, Calm, [Next]_vars, UNCHANGED <<phase, events>>
  PROVE  /\ \/ \E t \in Threads : TableStep(t)
            \/ Trigger \/ PingSkipped \/ PingAck \/ PingNoAck \/ PollNext
            \/ HandleAnnounce \/ HandleDetail \/ FrameDone
            \/ UpdateThread \/ UNCHANGED vars
         /\ bus' = bus /\ logicalAddress' = logicalAddress
<1>1. phase = "idle" /\ pc["ctl"] = "idle" /\ events \in Nat
  BY DEF Calm, SessionInv, TypeOK
<1>2. ~Event
  BY <1>1 DEF Event
<1>3. ~Environment /\ ~PingIOException /\ ~PingException
  BY <1>2 DEF Environment, Plug, Speak, GetLogicalAddress, PingIOException, PingException
<1>4. /\ ~CECEnable /\ ~CECDisable /\ ~RemoveNext /\ ~OpenConnection /\ ~OpenFails
      /\ ~SetEnableStatus /\ ~StartPolling /\ ~GreetFails /\ ~Terminate /\ ~JoinPoll
      /\ ~CloseConnection
  BY <1>1 DEF CECEnable, CECDisable, RemoveNext, OpenConnection, OpenFails, SetEnableStatus,
     StartPolling, GreetFails, Terminate, JoinPoll, CloseConnection, RemovedAll
<1>5. \/ \E t \in Threads : TableStep(t)
      \/ Trigger \/ PingSkipped \/ PingAck \/ PingNoAck \/ PollNext
      \/ HandleAnnounce \/ HandleDetail \/ FrameDone
      \/ UpdateThread \/ UNCHANGED vars
  <2>1. "poll" \in Threads /\ "frame" \in Threads /\ "ctl" \in Threads
    BY DEF Threads
  <2> QED
    BY <1>3, <1>4, <2>1 DEF Next, PollThread, FrameThread, Controller
<1>6. \A t \in Threads : TableStep(t) => bus' = bus /\ logicalAddress' = logicalAddress
  BY DEF TableStep, AddCheck, AddSet, AddCount, AddTell, Ask, RemCheck, RemCount, RemClear,
     RemTell, world, session
<1>7. bus' = bus /\ logicalAddress' = logicalAddress
  BY <1>5, <1>6 DEF Trigger, PingSkipped, Pinged, PingAck, PingNoAck, PollNext,
     HandleAnnounce, HandleDetail, FrameDone, UpdateThread, UpdateCheck, vars, world, session
<1> QED
  BY <1>5, <1>7

\* The table changes only in AddSet and RemClear.
LEMMA QuietTable ==
  ASSUME TypeOK, SessionInv, Calm, [Next]_vars, UNCHANGED <<phase, events>>
  PROVE  present' = present \/ \E t \in Threads : AddSet(t) \/ RemClear(t)
<1>1. \A t \in Threads : TableStep(t) => present' = present \/ AddSet(t) \/ RemClear(t)
  BY DEF TableStep, AddCheck, AddCount, AddTell, Ask, RemCheck, RemCount, RemTell, table
<1>2. Trigger \/ PingSkipped \/ PingAck \/ PingNoAck \/ PollNext \/ HandleAnnounce
         \/ HandleDetail \/ FrameDone \/ UpdateThread \/ UNCHANGED vars
         => present' = present
  BY DEF Trigger, PingSkipped, Pinged, PingAck, PingNoAck, PollNext, HandleAnnounce,
     HandleDetail, FrameDone, UpdateThread, UpdateCheck, vars, table
<1> QED
  BY <1>1, <1>2, QuietSteps

\* A thread that acts in time makes the table right where it acts.
LEMMA QuietWrong ==
  ASSUME TypeOK, AddrInv, SessionInv, Calm, [Next]_vars, UNCHANGED <<phase, events>>
  PROVE  Wrong' \subseteq Wrong
<1>1. Occupied' = Occupied /\ logicalAddress' = logicalAddress
  BY QuietSteps DEF Occupied
<1>2. ASSUME NEW t \in Threads, AddSet(t) PROVE Wrong' \subseteq Wrong
  <2>1. la[t] \in Occupied
    BY <1>2, AddressAssumption DEF AddSet, AddrInv, Calm, Timely, Addrs
  <2> QED
    BY <1>1, <1>2, <2>1 DEF AddSet, Wrong
<1>3. ASSUME NEW t \in Threads, RemClear(t) PROVE Wrong' \subseteq Wrong
  <2>1. la[t] \notin Occupied
    BY <1>3 DEF RemClear, Calm, Timely
  <2> QED
    BY <1>1, <1>3, <2>1 DEF RemClear, Wrong
<1>4. CASE present' = present
  BY <1>1, <1>4 DEF Wrong
<1> QED
  BY <1>2, <1>3, <1>4, QuietTable

\* No decision that was in time is overtaken, and none is made on old news.
LEMMA QuietCalm ==
  ASSUME TypeOK, TypeOK', SessionInv, Calm, [Next]_vars, UNCHANGED <<phase, events>>
  PROVE  Calm'
<1>0. /\ "poll" \in Threads /\ "frame" \in Threads
      /\ pc \in [Threads -> Steps] /\ la \in [Threads -> AllAddrs]
      /\ frames \in Seq(TimelyFrames)
  <2>1. frames \in Seq(FrameSet)
    BY DEF TypeOK, FrameSet
  <2> QED
    BY <2>1, CalmFrames DEF TypeOK, Threads, Calm
<1>1. Occupied' = Occupied /\ TimelyFrames' = TimelyFrames
  BY QuietSteps DEF Occupied, TimelyFrames, FrameSet
<1>2. frames' \in Seq(TimelyFrames)
  <2>1. \A t \in Threads : TableStep(t) => frames' = frames \/ frames' = Answer(la[t], Details)
    BY DEF TableStep, AddCheck, AddSet, AddCount, AddTell, Ask, RemCheck, RemCount,
       RemClear, RemTell, world
  <2>2. ASSUME NEW a \in Addrs, NEW d \in Details, UpdateCheck(a, d)
        PROVE  frames' \in Seq(TimelyFrames)
    <3>1. a \in AllAddrs
      BY AddressAssumption DEF Addrs, AllAddrs
    <3> QED
      BY <1>0, <2>2, <3>1, AnswerTimely DEF UpdateCheck
  <2>3. frames # <<>> => Tail(frames) \in Seq(TimelyFrames)
    BY <1>0
  <2>4. Trigger \/ PingSkipped \/ PingAck \/ PingNoAck \/ PollNext \/ FrameDone
           \/ UNCHANGED vars => frames' = frames
    BY DEF Trigger, PingSkipped, Pinged, PingAck, PingNoAck, PollNext, FrameDone, vars,
       world
  <2>5. HandleAnnounce \/ HandleDetail => frames # <<>> /\ frames' = Tail(frames)
    BY DEF HandleAnnounce, HandleDetail
  <2>6. \A t \in Threads : Answer(la[t], Details) \in Seq(TimelyFrames)
    BY <1>0, AnswerTimely
  <2> QED
    BY <1>0, <2>1, <2>2, <2>3, <2>4, <2>5, <2>6, QuietSteps DEF UpdateThread
<1>3. ASSUME NEW t \in Threads, TableStep(t) PROVE \A u \in Threads : Timely(u)'
  <2>1. la' = la /\ \A u \in Threads \ {t} : pc'[u] = pc[u]
    BY <1>3, TableMoves
  <2>2. /\ pc'[t] \in {"addCheck", "addSet"} => pc[t] = "addCheck"
        /\ pc'[t] \in {"remCheck", "remCount", "remClear"} => pc[t] \in {"remCheck", "remCount"}
    BY <1>0, <1>3 DEF TableStep, AddCheck, AddSet, AddCount, AddTell, Ask, RemCheck, RemCount,
       RemClear, RemTell, Go
  <2> QED
    BY <1>1, <2>1, <2>2 DEF Calm, Timely
<1>4. ASSUME Trigger \/ PingSkipped \/ PingAck \/ PingNoAck \/ PollNext
      PROVE  \A u \in Threads : Timely(u)'
  <2>1. \A u \in Threads \ {"poll"} : pc'[u] = pc[u] /\ la'[u] = la[u]
    BY <1>0, <1>4 DEF Trigger, PingSkipped, Pinged, PingAck, PingNoAck, PollNext, Go, At,
       local
  <2>2. Timely("poll")'
    <3>1. CASE Trigger \/ PingSkipped \/ PollNext
      BY <1>0, <3>1 DEF Trigger, PingSkipped, PollNext, Go, Timely
    <3>2. CASE PingAck \/ PingNoAck
      BY <1>0, <1>1, <3>2 DEF Pinged, PingAck, PingNoAck, Go, local, Timely
    <3> QED
      BY <1>4, <3>1, <3>2
  <2> QED
    BY <1>1, <2>1, <2>2 DEF Calm, Timely
<1>5. ASSUME HandleAnnounce PROVE \A u \in Threads : Timely(u)'
  <2>1. Head(frames) \in TimelyFrames /\ Head(frames).kind = "announce"
    BY <1>0, <1>5 DEF HandleAnnounce
  <2>2. /\ pc'["frame"] = "addCheck" /\ la'["frame"] = Head(frames).from
        /\ \A u \in Threads \ {"frame"} : pc'[u] = pc[u] /\ la'[u] = la[u]
    BY <1>0, <1>5 DEF HandleAnnounce, Go, At
  <2>3. Timely("frame")'
    BY <1>1, <2>1, <2>2 DEF TimelyFrames, Timely
  <2> QED
    BY <1>1, <2>2, <2>3 DEF Calm, Timely
<1>6. ASSUME FrameDone PROVE \A u \in Threads : Timely(u)'
  BY <1>0, <1>1, <1>6 DEF FrameDone, Go, local, Calm, Timely
<1>7. ASSUME HandleDetail \/ UpdateThread \/ UNCHANGED vars
      PROVE  \A u \in Threads : Timely(u)'
  <2>1. pc' = pc /\ la' = la
    BY <1>7 DEF HandleDetail, UpdateThread, UpdateCheck, vars, local
  <2> QED
    BY <1>1, <2>1 DEF Calm, Timely
<1>8. \A u \in Threads : Timely(u)'
  BY <1>3, <1>4, <1>5, <1>6, <1>7, QuietSteps
<1>9. frames' \in Seq(FrameSet)
  BY DEF TypeOK, FrameSet
<1>10. \A i \in DOMAIN frames' :
          frames'[i].kind = "announce" => frames'[i].from \in Occupied \cup {UNREGISTERED}
  BY <1>2, <1>9, CalmFrames
<1> QED
  BY <1>1, <1>8, <1>10 DEF Calm

\* What the scan has dealt with stays right.
LEMMA QuietSwept ==
  ASSUME TypeOK, AddrInv, SessionInv, Calm, [Next]_vars, UNCHANGED <<phase, events>>, Swept
  PROVE  Swept'
<1>0. /\ "poll" \in Threads /\ pc \in [Threads -> Steps] /\ la \in [Threads -> AllAddrs]
      /\ Wrong' \subseteq Wrong /\ Passed \cap Wrong = {} /\ logicalAddress # UNREGISTERED
      /\ logicalAddress' = logicalAddress
  BY QuietWrong, QuietSteps DEF TypeOK, Threads, Swept
<1>1. SUFFICES Passed' \cap Wrong' = {}
  BY <1>0 DEF Swept
<1>2. Occupied' = Occupied
  BY QuietSteps DEF Occupied
<1>3. ASSUME pc'["poll"] = pc["poll"], la'["poll"] = la["poll"]
      PROVE  Passed' \cap Wrong' = {}
  BY <1>0, <1>3 DEF Passed
<1>4. ASSUME la'["poll"] = la["poll"], la["poll"] \notin Wrong'
      PROVE  Passed' \cap Wrong' = {}
  BY <1>0, <1>4 DEF Passed
<1>5. ASSUME NEW t \in Threads, TableStep(t) PROVE Passed' \cap Wrong' = {}
  <2>0. la' = la /\ (t # "poll" => pc'["poll"] = pc["poll"])
    BY <1>0, <1>5, TableMoves
  <2>1. CASE t # "poll"
    BY <1>3, <2>0, <2>1
  <2>2. CASE t = "poll"
    <3>1. CASE AddCount(t) \/ AddTell(t) \/ Ask(t) \/ RemTell(t)
      BY <1>0, <2>0, <2>2, <3>1 DEF AddCount, AddTell, Ask, RemTell, Go, Passed
    <3>2. CASE AddCheck(t)
      <4>1. CASE la[t] \in present
        <5>1. la[t] \in Addrs /\ present' = present
          BY <3>2, <4>1 DEF AddCheck, table, TypeOK
        <5>2. la[t] \in Occupied
          BY <3>2, <5>1, AddressAssumption DEF AddCheck, Calm, Timely, Addrs
        <5>3. la[t] \notin Wrong'
          BY <1>2, <4>1, <5>1, <5>2 DEF Wrong
        <5> QED
          BY <1>4, <2>0, <2>2, <5>3
      <4>2. CASE la[t] \notin present /\ la[t] < UNREGISTERED
        <5>1. ~(la[t] >= UNREGISTERED)
          BY <1>0, <4>2, AddressAssumption DEF AllAddrs
        <5>2. pc'["poll"] = "addSet" /\ pc["poll"] = "addCheck"
          BY <1>0, <2>2, <3>2, <4>2, <5>1 DEF AddCheck, Go
        <5> QED
          BY <1>0, <2>0, <5>2 DEF Passed
      <4>3. CASE la[t] >= UNREGISTERED
        BY <1>0, <1>4, <2>0, <2>2, <4>3, AddressAssumption DEF Wrong, Addrs, AllAddrs
      <4> QED
        BY <1>0, <4>1, <4>2, <4>3, AddressAssumption DEF AllAddrs
    <3>3. CASE AddSet(t)
      <4>1. la[t] \in present' /\ la[t] \in Occupied
        BY <1>0, <2>2, <3>3, AddressAssumption DEF AddSet, AddrInv, Calm, Timely, Addrs
      <4> QED
        BY <1>2, <1>4, <2>0, <2>2, <4>1 DEF Wrong
    <3>4. CASE RemCheck(t)
      <4>1. CASE la[t] \in present
        BY <1>0, <2>0, <2>2, <3>4, <4>1 DEF RemCheck, Go, Passed
      <4>2. CASE la[t] \notin present
        BY <1>2, <1>4, <2>0, <2>2, <3>4, <4>2 DEF RemCheck, Calm, Timely, Wrong, table
      <4> QED
        BY <4>1, <4>2
    <3>5. CASE RemCount(t)
      BY <1>0, <2>0, <2>2, <3>5 DEF RemCount, Go, Passed
    <3>6. CASE RemClear(t)
      BY <1>2, <1>4, <2>0, <2>2, <3>6 DEF RemClear, Calm, Timely, Wrong
    <3> QED
      BY <1>5, <3>1, <3>2, <3>3, <3>4, <3>5, <3>6 DEF TableStep
  <2> QED
    BY <2>1, <2>2
<1>6. ASSUME Trigger PROVE Passed' \cap Wrong' = {}
  <2>1. la'["poll"] = 0 /\ pc'["poll"] = "ping"
    BY <1>0, <1>6 DEF Trigger, Go, At
  <2> QED
    BY <2>1 DEF Passed, Addrs
<1>7. ASSUME PingSkipped PROVE Passed' \cap Wrong' = {}
  BY <1>0, <1>4, <1>7 DEF PingSkipped, Wrong, local
<1>8. ASSUME PingAck PROVE Passed' \cap Wrong' = {}
  <2>1. la' = la /\ present' = present /\ la["poll"] \in Occupied
    BY <1>8 DEF PingAck, Pinged, local, table
  <2>2. CASE la["poll"] \in present
    BY <1>2, <1>4, <2>1, <2>2 DEF Wrong
  <2>3. CASE la["poll"] \notin present
    BY <1>0, <1>8, <2>1, <2>3 DEF PingAck, Go, Passed
  <2> QED
    BY <2>2, <2>3
<1>9. ASSUME PingNoAck PROVE Passed' \cap Wrong' = {}
  <2>1. la' = la /\ present' = present /\ la["poll"] \notin Occupied
    BY <1>9 DEF PingNoAck, Pinged, local, table
  <2>2. CASE la["poll"] \notin present
    BY <1>2, <1>4, <2>1, <2>2 DEF Wrong
  <2>3. CASE la["poll"] \in present
    BY <1>0, <1>9, <2>1, <2>3 DEF PingNoAck, Go, Passed
  <2> QED
    BY <2>2, <2>3
<1>10. ASSUME PollNext PROVE Passed' \cap Wrong' = {}
  <2>1. CASE pc'["poll"] = "idle" /\ la' = la
    BY <1>0, <1>10, <2>1 DEF PollNext, Passed
  <2>2. CASE pc'["poll"] = "ping" /\ la'["poll"] = la["poll"] + 1
    <3>1. Passed' \subseteq Passed
      BY <1>0, <1>10, <2>2, AddressAssumption DEF PollNext, Passed, Addrs, AllAddrs
    <3> QED
      BY <1>0, <3>1
  <2> QED
    BY <1>0, <1>10, <2>1, <2>2 DEF PollNext, Go, At
<1>11. ASSUME HandleAnnounce \/ HandleDetail \/ FrameDone \/ UpdateThread \/ UNCHANGED vars
       PROVE  Passed' \cap Wrong' = {}
  <2>1. pc'["poll"] = pc["poll"] /\ la'["poll"] = la["poll"]
    BY <1>0, <1>11 DEF HandleAnnounce, HandleDetail, FrameDone, UpdateThread, UpdateCheck,
       Go, At, vars, local
  <2> QED
    BY <1>3, <2>1
<1> QED
  BY <1>5, <1>6, <1>7, <1>8, <1>9, <1>10, <1>11, QuietSteps

\* However the threads overlap, no step of theirs makes the table wrong at another
\* address once the bus is quiet and nothing outdated is on its way, and a scan
\* leaves it right wherever it has passed: at its end the table is what answers
\* on the bus. SelfHealing is what follows when scans go on.
THEOREM ScansRepair == Spec => ScanHeals
<1> DEFINE Inv == TypeOK /\ AddrInv /\ SessionInv
<1>1. Init => Inv
  BY InitTypes, InitSession
<1>2. Inv /\ [Next]_vars => Inv'
  BY StepTypes, StepSession
<1>3. ASSUME Inv, Inv', [Next]_vars, Calm, UNCHANGED <<phase, events>>
      PROVE  /\ Calm' /\ Wrong' \subseteq Wrong
             /\ Swept \/ (Trigger /\ logicalAddress # UNREGISTERED) => Swept'
             /\ Swept /\ pc["poll"] = "end" /\ pc'["poll"] = "idle" => Wrong' = {}
  <2>1. Calm' /\ Wrong' \subseteq Wrong /\ (Swept => Swept')
    BY <1>3, QuietCalm, QuietWrong, QuietSwept
  <2>2. ASSUME Trigger, logicalAddress # UNREGISTERED PROVE Swept'
    <3>1. la'["poll"] = 0 /\ pc'["poll"] = "ping" /\ logicalAddress' = logicalAddress
      BY <1>3, <2>2 DEF Trigger, Go, At, session, TypeOK, Threads
    <3> QED
      BY <2>2, <3>1 DEF Swept, Passed, Addrs
  <2>3. ASSUME Swept, pc["poll"] = "end", pc'["poll"] = "idle" PROVE Wrong' = {}
    <3>1. PollNext
      <4>1. \A t \in Threads : TableStep(t) => pc'["poll"] = pc["poll"]
        BY <1>3, <2>3, TableMoves DEF TableSteps, Threads
      <4>2. Trigger \/ PingSkipped \/ PingAck \/ PingNoAck => FALSE
        BY <2>3 DEF Trigger, PingSkipped, PingAck, PingNoAck, Pinged
      <4>3. HandleAnnounce \/ HandleDetail \/ FrameDone \/ UpdateThread \/ UNCHANGED vars
               => pc'["poll"] = pc["poll"]
        BY <1>3 DEF HandleAnnounce, HandleDetail, FrameDone, UpdateThread, UpdateCheck, Go,
           vars, TypeOK, Threads
      <4> QED
        BY <1>3, <2>3, <4>1, <4>2, <4>3, QuietSteps
    <3>2. la["poll"] + 1 >= UNREGISTERED /\ la["poll"] \in AllAddrs
      BY <1>3, <2>3, <3>1, AddressAssumption DEF PollNext, Go, Calm, TypeOK, Threads, AllAddrs
    <3>3. Addrs \subseteq Passed
      BY <2>3, <3>2, AddressAssumption DEF Passed, Addrs, AllAddrs
    <3> QED
      BY <2>1, <2>3, <3>3 DEF Swept, Wrong
  <2> QED
    BY <2>1, <2>2, <2>3
<1> QED
  BY <1>1, <1>2, <1>3, PTL DEF Spec, ScanHeals
===============================================================================

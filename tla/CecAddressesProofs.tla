--------------------------- MODULE CecAddressesProofs ---------------------------
(***************************************************************************)
(* Proofs about CecAddresses, for every set of displays, addresses and     *)
(* hot-plug threads, any number of events and any number of actors at work *)
(* at once: each property that the run checks.                             *)
(***************************************************************************)
EXTENDS CecAddresses, SequenceTheorems, TLAPS

Steps == {"idle", "physical", "logical", "source", "edid", "test", "report",
          "vendor", "mode", "power", "create", "publish", "processor"}
Own == Logical \cup {Unset}
Reports == (Physical \cup {NoAddress}) \X Own

\* TypeOK in three parts, with the domains of the functions.
StepInv ==
    /\ step \in [Actors -> Steps] /\ DOMAIN text = Actors
    /\ step["reader"] \in {"idle", "report", "vendor"}

FlagInv ==
    /\ mode \in BOOLEAN /\ isLGTvConnected \in BOOLEAN /\ powerState \in BOOLEAN
    /\ cecEnableStatus \in BOOLEAN /\ crossed \in BOOLEAN /\ moved \in BOOLEAN
    /\ overtaken \in BOOLEAN /\ unread \in BOOLEAN /\ raced \in BOOLEAN

ValueInv ==
    /\ driver \in Answers /\ modes \in Seq(BOOLEAN) /\ events \in 0 .. MaxEvents
    /\ physical_addr \in Physical \cup {NoAddress} /\ logicalAddress \in Own
    /\ source \in Own \cup {None} /\ conn \in Own \cup {None}
    /\ heard = Nothing \/ heard \in Reports
    /\ vendor = Nothing \/ \E b \in BOOLEAN : vendor = <<b>>

TypeInv == StepInv /\ FlagInv /\ ValueInv

\* Which steps an actor takes, and the message that it holds there.
TextInv ==
    \A a \in Actors :
        /\ step[a] \in {"mode", "power", "create", "publish", "processor"} => a = "api"
        /\ step[a] \in {"test", "report"} => a # "api"
        /\ step[a] = "edid" => a # "power"
        /\ step[a] = "report" => text[a] \in Reports
        /\ step[a] = "vendor" => \E b \in BOOLEAN : text[a] = <<b>>
        /\ step[a] = "publish" => \E l \in Own : text[a] = <<l>>
        /\ step[a] = "power" => text[a] = Nothing \/ \E b \in BOOLEAN : text[a] = <<b>>
        /\ a = "api" /\ step[a] \in {"edid", "mode"} => text[a] = Nothing

Unconnected == {"edid", "mode", "power", "physical", "logical", "source", "create", "publish"}

\* There is a connection from Publish on, and CEC is on while the API is done with it;
\* nothing has been heard over a connection that is not there.
LinkInv ==
    /\ step["api"] \in Unconnected => source = None
    /\ step["api"] \in {"processor", "vendor"} => source # None
    /\ cecEnableStatus => step["api"] \in {"vendor", "idle"}
    /\ ~cecEnableStatus /\ step["api"] # "processor" => source = None
    /\ source = None => conn = None /\ heard = Nothing /\ vendor = Nothing

\* The initiator is the own address but for a change that is on its way to it.
OwnInv ==
    /\ (\A a \in Actors : step[a] # "source") /\ source # None /\ ~overtaken
          => source = logicalAddress
    /\ ~moved /\ source # None => source = logicalAddress
    /\ ~moved /\ conn # None => conn = logicalAddress
    /\ step["api"] = "publish" /\ (~moved \/ ~overtaken) => text["api"] = <<logicalAddress>>

\* The last change of the mode is the mode; and the mode that Configure holds, or
\* powerState later on, is right when no change is on its way.
PowerInv ==
    /\ modes # <<>> => modes[Len(modes)] = mode
    /\ modes = <<>> /\ ~raced =>
          IF step["api"] = "power" THEN text["api"] = <<mode>>
          ELSE step["api"] \notin {"edid", "mode"} => powerState = mode

\* In a session that nothing has crossed at most one actor is at work ...
Undisturbed == ~crossed /\ (source # None \/ step["api"] # "idle")
At(S) == \E a \in Actors : step[a] \in S
WakeUp == \E i \in 1 .. Len(modes) : modes[i] = TRUE

AloneInv == Undisturbed =>
    \A a, b \in Actors : step[a] # "idle" /\ step[b] # "idle" => a = b

\* ... the addresses are those of the driver unless their fetch is to come ...
FetchInv == Undisturbed =>
    /\ ~At({"mode", "power", "physical"}) /\ step["api"] # "edid"
          => physical_addr = driver.display.physical
    /\ ~At({"mode", "power", "physical", "logical"}) /\ step["api"] # "edid" /\ ~WakeUp
          => logicalAddress = driver.logical

\* ... and the bus knows them unless an announcement is to come.
HeardInv == Undisturbed =>
    /\ \/ At({"physical", "logical", "source", "edid", "test", "report"})
       \/ heard = Nothing \/ logicalAddress = UNREGISTERED \/ heard = Report
    /\ \A a \in Actors : step[a] = "report" => text[a] = Report

\* The same of the vendor ID, which only a hot-plug thread or Configure changes.
VendorInv ==
    /\ ~unread /\ driver.display.lg => isLGTvConnected
    /\ Undisturbed =>
          /\ \/ \E h \in HotPlugs : step[h] # "idle"
             \/ vendor = Nothing \/ vendor = VendorID
          /\ \A a \in Actors : step[a] = "vendor" => text[a] = VendorID

-------------------------------------------------------------------------------
\* Where an actor goes on when it has fetched the address.
LEMMA FetchedFacts ==
  ASSUME NEW a \in Actors, a # "reader"
  PROVE  /\ Fetched(a) \in {"edid", "test", "create"}
         /\ Fetched(a) = "edid" <=> a \in HotPlugs
         /\ Fetched(a) = "test" <=> a = "power"
         /\ Fetched(a) = "create" <=> a = "api"
<1>1. CASE a \in HotPlugs
  BY <1>1, AddressAssumption DEF Fetched
<1>2. CASE a = "power"
  BY <1>2, AddressAssumption DEF Fetched
<1>3. CASE a = "api"
  BY <1>3, AddressAssumption DEF Fetched
<1> QED
  BY <1>1, <1>2, <1>3 DEF Actors

\* A handler starts from rest, and undisturbed only when nobody is at work.
LEMMA StartFacts ==
  ASSUME StepInv, FlagInv, NEW a \in Actors, NEW t \in Steps, NEW renews \in BOOLEAN,
         Start(a, t, renews)
  PROVE  /\ step[a] = "idle" /\ step' = [step EXCEPT ![a] = t]
         /\ crossed' \in BOOLEAN
         /\ ~crossed' => (\A b \in Actors : step[b] = "idle") /\ (renews \/ ~crossed)
<1>1. step[a] = "idle" /\ step' = [step EXCEPT ![a] = t]
  BY DEF Start, Go
<1>2. crossed' = (Busy # {} \/ (crossed /\ ~renews))
  BY DEF Start
<1>3. Busy = {} => \A b \in Actors : step[b] = "idle"
  BY DEF Busy
<1> QED
  BY <1>1, <1>2, <1>3 DEF FlagInv

\* A display that is plugged in starts a thread, or nothing without CEC.
LEMMA PlugFacts ==
  ASSUME TypeInv, Plug
  PROVE  /\ unread' /\ UNCHANGED <<source, heard, vendor, isLGTvConnected, text>>
         /\ \/ /\ ~cecEnableStatus /\ UNCHANGED step
               /\ ~crossed' => ~crossed /\ step["api"] = "idle"
            \/ /\ cecEnableStatus
               /\ \E h \in HotPlugs : /\ step[h] = "idle"
                                      /\ step' = [step EXCEPT ![h] = "physical"]
               /\ ~crossed' => \A b \in Actors : step[b] = "idle"
<1>1. unread' /\ UNCHANGED <<source, heard, vendor, isLGTvConnected, text>>
  BY DEF Plug, connection, bus
<1>2. CASE cecEnableStatus
  <2>1. PICK h \in HotPlugs : Start(h, "physical", TRUE)
    BY <1>2 DEF Plug
  <2>2. StepInv /\ FlagInv /\ h \in Actors /\ "physical" \in Steps /\ TRUE \in BOOLEAN
    BY DEF TypeInv, Actors, Steps
  <2>3. /\ step[h] = "idle" /\ step' = [step EXCEPT ![h] = "physical"]
        /\ ~crossed' => \A b \in Actors : step[b] = "idle"
    BY <2>1, <2>2, StartFacts
  <2> QED
    BY <1>1, <1>2, <2>3
<1>3. CASE ~cecEnableStatus
  BY <1>1, <1>3 DEF Plug
<1> QED
  BY <1>2, <1>3 DEF TypeInv, FlagInv

\* SetEnabled starts with the physical address.
LEMMA EnableFacts ==
  ASSUME TypeInv, CECEnable
  PROVE  /\ step["api"] = "idle" /\ step' = [step EXCEPT !["api"] = "physical"]
         /\ ~crossed' => \A b \in Actors : step[b] = "idle"
<1>1. StepInv /\ FlagInv /\ "api" \in Actors /\ "physical" \in Steps /\ TRUE \in BOOLEAN
  BY DEF TypeInv, Actors, Steps
<1> QED
  BY <1>1, StartFacts DEF CECEnable

\* The message processor starts an answer.
LEMMA QueryFacts ==
  ASSUME TypeInv, Query
  PROVE  /\ \E t \in {"report", "vendor"} : step' = [step EXCEPT !["reader"] = t]
         /\ ~crossed' => \A b \in Actors : step[b] = "idle"
<1>1. StepInv /\ FlagInv /\ "reader" \in Actors /\ FALSE \in BOOLEAN
  BY DEF TypeInv, Actors
<1>2. PICK t \in {"report", "vendor"} : Start("reader", t, FALSE)
  BY DEF Query
<1>3. t \in Steps
  BY DEF Steps
<1> QED
  BY <1>1, <1>2, <1>3, StartFacts

\* The callback takes the first change of the mode, and goes on if that is ON.
LEMMA CallbackFacts ==
  ASSUME TypeInv, OnPowerModeChanged
  PROVE  /\ Head(modes) \in BOOLEAN /\ powerState' = Head(modes)
         /\ modes # <<>> /\ modes' = Tail(modes) /\ modes' \in Seq(BOOLEAN)
         /\ step["power"] = "idle"
         /\ \/ step' = [step EXCEPT !["power"] = "logical"] /\ Head(modes)
            \/ step' = [step EXCEPT !["power"] = "idle"] /\ ~Head(modes)
         /\ ~crossed' => (\A b \in Actors : step[b] = "idle") /\ ~crossed
         /\ UNCHANGED <<driver, mode, events, addresses, isLGTvConnected, connection, text,
                        bus, moved, overtaken, unread>>
<1>1. modes \in Seq(BOOLEAN) /\ modes # <<>>
  BY DEF OnPowerModeChanged, TypeInv, ValueInv
<1>2. Head(modes) \in BOOLEAN /\ Tail(modes) \in Seq(BOOLEAN)
  BY <1>1
<1>3. PICK t \in {"logical", "idle"} : Start("power", t, FALSE) /\ (t = "logical" <=> Head(modes))
  <2>1. CASE Head(modes)
    BY <1>2, <2>1 DEF OnPowerModeChanged
  <2>2. CASE ~Head(modes)
    BY <1>2, <2>2 DEF OnPowerModeChanged
  <2> QED
    BY <2>1, <2>2
<1>4. /\ step["power"] = "idle" /\ step' = [step EXCEPT !["power"] = t]
      /\ ~crossed' => (\A b \in Actors : step[b] = "idle") /\ ~crossed
  <2>1. StepInv /\ FlagInv /\ "power" \in Actors /\ t \in Steps
    BY DEF TypeInv, Actors, Steps
  <2> QED
    BY <1>3, <2>1, StartFacts
<1>5. /\ powerState' = Head(modes) /\ modes' = Tail(modes)
      /\ UNCHANGED <<driver, mode, events, addresses, isLGTvConnected, connection, text,
                     bus, moved, overtaken, unread>>
  BY DEF OnPowerModeChanged
<1>6. \/ step' = [step EXCEPT !["power"] = "logical"] /\ Head(modes)
      \/ step' = [step EXCEPT !["power"] = "idle"] /\ ~Head(modes)
  BY <1>2, <1>3, <1>4
<1> QED
  BY <1>1, <1>2, <1>4, <1>5, <1>6

\* What is left of a queue when its head is taken.
LEMMA QueueFacts ==
  ASSUME NEW q \in Seq(BOOLEAN), q # <<>>
  PROVE  /\ Head(q) = q[1] /\ Len(q) \in Nat \ {0} /\ Len(Tail(q)) = Len(q) - 1
         /\ \A k \in 1 .. Len(q) - 1 : Tail(q)[k] = q[k + 1]
         /\ Tail(q) \in Seq(BOOLEAN)
  BY HeadTailProperties

\* An index that is not the first has one before it.
LEMMA IndexBefore ==
  ASSUME NEW n \in Nat, NEW i \in 1 .. n, i # 1
  PROVE  i - 1 \in 1 .. n - 1 /\ (i - 1) + 1 = i
  OBVIOUS

\* Taking OFF from the queue leaves a wake-up in it.
LEMMA TailFacts ==
  ASSUME NEW q \in Seq(BOOLEAN), q # <<>>, NEW i \in 1 .. Len(q), q[i] = TRUE, Head(q) = FALSE
  PROVE  \E j \in 1 .. Len(Tail(q)) : Tail(q)[j] = TRUE
<1>1. i # 1 /\ Len(q) \in Nat \ {0}
  BY QueueFacts
<1>2. i - 1 \in 1 .. Len(q) - 1 /\ (i - 1) + 1 = i
  BY <1>1, IndexBefore
<1>3. Tail(q)[i - 1] = q[i]
  BY <1>2, QueueFacts
<1> QED
  BY <1>2, <1>3, QueueFacts

\* The last change is at the head of the queue, or stays behind.
LEMMA LastFacts ==
  ASSUME NEW q \in Seq(BOOLEAN), q # <<>>
  PROVE  IF Tail(q) = <<>> THEN Head(q) = q[Len(q)]
                           ELSE Tail(q)[Len(Tail(q))] = q[Len(q)]
<1>1. Tail(q) = <<>> <=> Len(q) = 1
  <2>1. Tail(q) = <<>> <=> Len(Tail(q)) = 0
    BY QueueFacts, EmptySeq
  <2> QED
    BY QueueFacts, <2>1
<1> QED
  BY <1>1, QueueFacts

\* Every step keeps the actors at their steps.
LEMMA KeepsStep ==
  ASSUME TypeInv, Next
  PROVE  StepInv'
<1> USE AddressAssumption DEF TypeInv, StepInv, Steps, Actors, environment, addresses,
    connection, bus, history
<1>1. CASE Plug
  BY <1>1 DEF Plug, Event, Start, Go
<1>2. CASE ChangeMode
  BY <1>2 DEF ChangeMode, Event
<1>3. CASE OnPowerModeChanged
  <2>1. /\ modes' \in Seq(BOOLEAN) /\ step["power"] = "idle"
        /\ step' = [step EXCEPT !["power"] = "logical"] \/ step' = [step EXCEPT !["power"] = "idle"]
        /\ ~crossed' => (\A b \in Actors : step[b] = "idle") /\ ~crossed
        /\ UNCHANGED <<driver, mode, events, addresses, isLGTvConnected, connection, text, bus,
                       moved, overtaken, unread>>
    BY <1>3, CallbackFacts
  <2> QED
    BY <2>1
<1>4. CASE Query
  BY <1>4 DEF Query, Start, Go, Make, Report, VendorID
<1>5. ASSUME NEW a \in Actors, GetPhysicalAddress(a) PROVE StepInv'
  BY <1>5 DEF GetPhysicalAddress, Go, Failed
<1>6. ASSUME NEW a \in Actors, GetLogicalAddress(a) PROVE StepInv'
  <2>1. a # "reader"
    BY <1>6 DEF GetLogicalAddress, TypeInv, StepInv
  <2> QED
    BY <1>6, <2>1, FetchedFacts DEF GetLogicalAddress, Go, Failed
<1>7. ASSUME NEW a \in Actors, SetSource(a) PROVE StepInv'
  <2>1. a # "reader"
    BY <1>7 DEF SetSource, TypeInv, StepInv
  <2> QED
    BY <1>7, <2>1, FetchedFacts DEF SetSource, Go
<1>8. ASSUME NEW a \in Actors, ReadEDID(a) PROVE StepInv'
  BY <1>8 DEF ReadEDID, Go
<1>9. ASSUME NEW a \in Actors, Announce(a) PROVE StepInv'
  BY <1>9 DEF Announce, Go, Make, MayAnnounce, Report
<1>10. ASSUME NEW a \in Actors, SendReport(a) PROVE StepInv'
  BY <1>10 DEF SendReport, Go, Make, Failed, VendorID
<1>11. ASSUME NEW a \in Actors, SendVendorID(a) PROVE StepInv'
  BY <1>11 DEF SendVendorID, Go, Make, Failed
<1>12. CASE GetPowerState
  BY <1>12 DEF GetPowerState, Go, Make
<1>13. CASE Configured
  BY <1>13 DEF Configured, Go, Make
<1>14. CASE CECEnable
  BY <1>14 DEF CECEnable, Start, Go
<1>15. CASE NewConnection
  BY <1>15 DEF NewConnection, Go, Make
<1>16. CASE Publish
  BY <1>16 DEF Publish, Go, Make
<1>17. CASE OpenConnection
  BY <1>17 DEF OpenConnection, Go, Make, NoSession, VendorID
<1>18. CASE GreetBus
  BY <1>18 DEF GreetBus, Go, Make, NoSession
<1>19. CASE CECDisable
  BY <1>19 DEF CECDisable, NoSession
<1> HIDE DEF StepInv
<1> QED
  BY <1>1, <1>2, <1>3, <1>4, <1>5, <1>6, <1>7, <1>8, <1>9, <1>10, <1>11,
     <1>12, <1>13, <1>14, <1>15, <1>16, <1>17, <1>18, <1>19 DEF Next, API, Act

\* Every step keeps the flags.
LEMMA KeepsFlag ==
  ASSUME TypeInv, TextInv, Next
  PROVE  FlagInv'
<1> USE AddressAssumption DEF TypeInv, StepInv, FlagInv, TextInv, Nothing, Actors,
    environment, addresses, connection, bus, history
<1>1. CASE Plug
  BY <1>1 DEF Plug, Event, Start, Go
<1>2. CASE ChangeMode
  BY <1>2 DEF ChangeMode, Event
<1>3. CASE OnPowerModeChanged
  BY <1>3, CallbackFacts DEF OnPowerModeChanged, Start
<1>4. CASE Query
  BY <1>4 DEF Query, Start, Go, Make, Report, VendorID
<1>5. ASSUME NEW a \in Actors, GetPhysicalAddress(a) PROVE FlagInv'
  BY <1>5 DEF GetPhysicalAddress, Go, Failed
<1>6. ASSUME NEW a \in Actors, GetLogicalAddress(a) PROVE FlagInv'
  BY <1>6 DEF GetLogicalAddress, Go, Failed
<1>7. ASSUME NEW a \in Actors, SetSource(a) PROVE FlagInv'
  BY <1>7 DEF SetSource, Go
<1>8. ASSUME NEW a \in Actors, ReadEDID(a) PROVE FlagInv'
  BY <1>8 DEF ReadEDID, Go
<1>9. ASSUME NEW a \in Actors, Announce(a) PROVE FlagInv'
  BY <1>9 DEF Announce, Go, Make, MayAnnounce, Report
<1>10. ASSUME NEW a \in Actors, SendReport(a) PROVE FlagInv'
  BY <1>10 DEF SendReport, Go, Make, Failed, VendorID
<1>11. ASSUME NEW a \in Actors, SendVendorID(a) PROVE FlagInv'
  BY <1>11 DEF SendVendorID, Go, Make, Failed
<1>12. CASE GetPowerState
  BY <1>12 DEF GetPowerState, Go, Make
<1>13. CASE Configured
  <2>1. text["api"] # Nothing => text["api"][1] \in BOOLEAN
    BY <1>13 DEF Configured
  <2> QED
    BY <1>13, <2>1 DEF Configured, Go, Make
<1>14. CASE CECEnable
  BY <1>14 DEF CECEnable, Start, Go
<1>15. CASE NewConnection
  BY <1>15 DEF NewConnection, Go, Make
<1>16. CASE Publish
  BY <1>16 DEF Publish, Go, Make
<1>17. CASE OpenConnection
  BY <1>17 DEF OpenConnection, Go, Make, NoSession, VendorID
<1>18. CASE GreetBus
  BY <1>18 DEF GreetBus, Go, Make, NoSession
<1>19. CASE CECDisable
  BY <1>19 DEF CECDisable, NoSession
<1> HIDE DEF FlagInv
<1> QED
  BY <1>1, <1>2, <1>3, <1>4, <1>5, <1>6, <1>7, <1>8, <1>9, <1>10, <1>11,
     <1>12, <1>13, <1>14, <1>15, <1>16, <1>17, <1>18, <1>19 DEF Next, API, Act

\* Every step keeps the values.
LEMMA KeepsValue ==
  ASSUME TypeInv, TextInv, Next
  PROVE  ValueInv'
<1> USE AddressAssumption DEF TypeInv, StepInv, FlagInv, ValueInv, TextInv, Actors, Steps,
    Own, Reports, Answers, Physical, Nothing, UNREGISTERED, Unset, None, environment,
    addresses, connection, bus, history
<1>1. CASE Plug
  BY <1>1 DEF Plug, Event, Start, Go
<1>2. CASE ChangeMode
  <2>1. driver' \in Answers
    BY <1>2 DEF ChangeMode, Event
  <2>2. modes' \in Seq(BOOLEAN) /\ events' \in 0 .. MaxEvents
    BY <1>2 DEF ChangeMode, Event
  <2> QED
    BY <1>2, <2>1, <2>2 DEF ChangeMode, Event
<1>3. CASE OnPowerModeChanged
  <2>1. /\ modes' \in Seq(BOOLEAN) /\ step["power"] = "idle"
        /\ step' = [step EXCEPT !["power"] = "logical"] \/ step' = [step EXCEPT !["power"] = "idle"]
        /\ ~crossed' => (\A b \in Actors : step[b] = "idle") /\ ~crossed
        /\ UNCHANGED <<driver, mode, events, addresses, isLGTvConnected, connection, text, bus,
                       moved, overtaken, unread>>
    BY <1>3, CallbackFacts
  <2> QED
    BY <2>1
<1>4. CASE Query
  BY <1>4 DEF Query, Start, Go, Make, Report, VendorID
<1>5. ASSUME NEW a \in Actors, GetPhysicalAddress(a) PROVE ValueInv'
  BY <1>5 DEF GetPhysicalAddress, Go, Failed
<1>6. ASSUME NEW a \in Actors, GetLogicalAddress(a) PROVE ValueInv'
  BY <1>6 DEF GetLogicalAddress, Go, Failed
<1>7. ASSUME NEW a \in Actors, SetSource(a) PROVE ValueInv'
  BY <1>7 DEF SetSource, Go
<1>8. ASSUME NEW a \in Actors, ReadEDID(a) PROVE ValueInv'
  BY <1>8 DEF ReadEDID, Go
<1>9. ASSUME NEW a \in Actors, Announce(a) PROVE ValueInv'
  BY <1>9 DEF Announce, Go, Make, MayAnnounce, Report
<1>10. ASSUME NEW a \in Actors, SendReport(a) PROVE ValueInv'
  BY <1>10 DEF SendReport, Go, Make, Failed, VendorID
<1>11. ASSUME NEW a \in Actors, SendVendorID(a) PROVE ValueInv'
  <2>1. \E b \in BOOLEAN : text[a] = <<b>>
    BY <1>11 DEF SendVendorID
  <2>2. vendor' = vendor \/ vendor' = text[a]
    BY <1>11 DEF SendVendorID
  <2>3. vendor' = Nothing \/ \E b \in BOOLEAN : vendor' = <<b>>
    BY <2>1, <2>2
  <2> QED
    BY <1>11, <2>3 DEF SendVendorID, Go, Make, Failed
<1>12. CASE GetPowerState
  BY <1>12 DEF GetPowerState, Go, Make
<1>13. CASE Configured
  BY <1>13 DEF Configured, Go, Make
<1>14. CASE CECEnable
  BY <1>14 DEF CECEnable, Start, Go
<1>15. CASE NewConnection
  BY <1>15 DEF NewConnection, Go, Make
<1>16. CASE Publish
  BY <1>16 DEF Publish, Go, Make
<1>17. CASE OpenConnection
  BY <1>17 DEF OpenConnection, Go, Make, NoSession, VendorID
<1>18. CASE GreetBus
  <2>1. \E b \in BOOLEAN : text["api"] = <<b>>
    BY <1>18 DEF GreetBus
  <2>2. vendor' = Nothing \/ vendor' = text["api"]
    BY <1>18 DEF GreetBus, NoSession
  <2>3. vendor' = Nothing \/ \E b \in BOOLEAN : vendor' = <<b>>
    BY <2>1, <2>2
  <2> QED
    BY <1>18, <2>3 DEF GreetBus, Go, Make, NoSession
<1>19. CASE CECDisable
  BY <1>19 DEF CECDisable, NoSession
<1> HIDE DEF ValueInv
<1> QED
  BY <1>1, <1>2, <1>3, <1>4, <1>5, <1>6, <1>7, <1>8, <1>9, <1>10, <1>11,
     <1>12, <1>13, <1>14, <1>15, <1>16, <1>17, <1>18, <1>19 DEF Next, API, Act

\* Every step keeps what actors hold.
LEMMA KeepsText ==
  ASSUME TypeInv, TextInv, Next
  PROVE  TextInv'
<1> USE AddressAssumption DEF TypeInv, StepInv, FlagInv, ValueInv, Actors, Steps, Own,
    Reports, Answers, Physical, Nothing, UNREGISTERED, Unset, None, TextInv, environment,
    addresses, connection, bus, history
<1>1. CASE Plug
  BY <1>1 DEF Plug, Event, Start, Go
<1>2. CASE ChangeMode
  BY <1>2 DEF ChangeMode, Event
<1>3. CASE OnPowerModeChanged
  <2>1. /\ modes' \in Seq(BOOLEAN) /\ step["power"] = "idle"
        /\ step' = [step EXCEPT !["power"] = "logical"] \/ step' = [step EXCEPT !["power"] = "idle"]
        /\ ~crossed' => (\A b \in Actors : step[b] = "idle") /\ ~crossed
        /\ UNCHANGED <<driver, mode, events, addresses, isLGTvConnected, connection, text, bus,
                       moved, overtaken, unread>>
    BY <1>3, CallbackFacts
  <2> QED
    BY <2>1
<1>4. CASE Query
  <2>1. CASE Start("reader", "report", FALSE) /\ Make("reader", Report)
    <3>1. step' = [step EXCEPT !["reader"] = "report"]
      BY <2>1 DEF Start, Go
    <3>2. text' = [text EXCEPT !["reader"] = Report] /\ Report \in Reports
      BY <2>1 DEF Make, Report
    <3> QED
      BY <3>1, <3>2
  <2>0. \E b \in BOOLEAN : VendorID = <<b>>
    BY DEF VendorID
  <2>2. CASE Start("reader", "vendor", FALSE) /\ Make("reader", VendorID)
    <3>1. step' = [step EXCEPT !["reader"] = "vendor"]
      BY <2>2 DEF Start, Go
    <3>2. text' = [text EXCEPT !["reader"] = VendorID]
      BY <2>2 DEF Make
    <3> QED
      BY <2>0, <3>1, <3>2
  <2> QED
    BY <1>4, <2>1, <2>2 DEF Query
<1>5. ASSUME NEW a \in Actors, GetPhysicalAddress(a) PROVE TextInv'
  BY <1>5 DEF GetPhysicalAddress, Go, Failed
<1>6. ASSUME NEW a \in Actors, GetLogicalAddress(a) PROVE TextInv'
  <2>1. a # "reader"
    BY <1>6 DEF GetLogicalAddress, TypeInv, StepInv
  <2> QED
    BY <1>6, <2>1, FetchedFacts DEF GetLogicalAddress, Go, Failed
<1>7. ASSUME NEW a \in Actors, SetSource(a) PROVE TextInv'
  <2>1. a # "reader"
    BY <1>7 DEF SetSource, TypeInv, StepInv
  <2> QED
    BY <1>7, <2>1, FetchedFacts DEF SetSource, Go
<1>8. ASSUME NEW a \in Actors, ReadEDID(a) PROVE TextInv'
  <2>1. CASE a = "api"
    <3>1. step' = [step EXCEPT !["api"] = "mode"] /\ step["api"] = "edid" /\ UNCHANGED text
      BY <1>8, <2>1 DEF ReadEDID, Go
    <3> QED
      BY <3>1
  <2>2. CASE a # "api"
    BY <1>8, <2>2 DEF ReadEDID, Go
  <2> QED
    BY <2>1, <2>2
<1>9. ASSUME NEW a \in Actors, Announce(a) PROVE TextInv'
  BY <1>9 DEF Announce, Go, Make, MayAnnounce, Report
<1>10. ASSUME NEW a \in Actors, SendReport(a) PROVE TextInv'
  BY <1>10 DEF SendReport, Go, Make, Failed, VendorID
<1>11. ASSUME NEW a \in Actors, SendVendorID(a) PROVE TextInv'
  BY <1>11 DEF SendVendorID, Go, Make, Failed
<1>12. CASE GetPowerState
  BY <1>12 DEF GetPowerState, Go, Make
<1>13. CASE Configured
  BY <1>13 DEF Configured, Go, Make
<1>14. CASE CECEnable
  BY <1>14 DEF CECEnable, Start, Go
<1>15. CASE NewConnection
  BY <1>15 DEF NewConnection, Go, Make
<1>16. CASE Publish
  BY <1>16 DEF Publish, Go, Make
<1>17. CASE OpenConnection
  BY <1>17 DEF OpenConnection, Go, Make, NoSession, VendorID
<1>18. CASE GreetBus
  BY <1>18 DEF GreetBus, Go, Make, NoSession
<1>19. CASE CECDisable
  BY <1>19 DEF CECDisable, NoSession
<1> HIDE DEF TextInv
<1> QED
  BY <1>1, <1>2, <1>3, <1>4, <1>5, <1>6, <1>7, <1>8, <1>9, <1>10, <1>11,
     <1>12, <1>13, <1>14, <1>15, <1>16, <1>17, <1>18, <1>19 DEF Next, API, Act

\* Every step keeps the state of the connection.
LEMMA KeepsLink ==
  ASSUME TypeInv, TextInv, LinkInv, Next
  PROVE  LinkInv'
<1> USE AddressAssumption DEF TypeInv, StepInv, FlagInv, ValueInv, Actors, Steps, Own,
    Reports, Answers, Physical, Nothing, UNREGISTERED, Unset, None, TextInv, LinkInv,
    Unconnected, environment, addresses, connection, bus, history
<1>1. CASE Plug
  BY <1>1 DEF Plug, Event, Start, Go
<1>2. CASE ChangeMode
  BY <1>2 DEF ChangeMode, Event
<1>3. CASE OnPowerModeChanged
  <2>1. /\ modes' \in Seq(BOOLEAN) /\ step["power"] = "idle"
        /\ step' = [step EXCEPT !["power"] = "logical"] \/ step' = [step EXCEPT !["power"] = "idle"]
        /\ ~crossed' => (\A b \in Actors : step[b] = "idle") /\ ~crossed
        /\ UNCHANGED <<driver, mode, events, addresses, isLGTvConnected, connection, text, bus,
                       moved, overtaken, unread>>
    BY <1>3, CallbackFacts
  <2> QED
    BY <2>1
<1>4. CASE Query
  BY <1>4 DEF Query, Start, Go, Make, Report, VendorID
<1>5. ASSUME NEW a \in Actors, GetPhysicalAddress(a) PROVE LinkInv'
  BY <1>5 DEF GetPhysicalAddress, Go, Failed
<1>6. ASSUME NEW a \in Actors, GetLogicalAddress(a) PROVE LinkInv'
  <2>1. a # "reader"
    BY <1>6 DEF GetLogicalAddress, TypeInv, StepInv
  <2> QED
    BY <1>6, <2>1, FetchedFacts DEF GetLogicalAddress, Go, Failed
<1>7. ASSUME NEW a \in Actors, SetSource(a) PROVE LinkInv'
  <2>1. a # "reader"
    BY <1>7 DEF SetSource, TypeInv, StepInv
  <2> QED
    BY <1>7, <2>1, FetchedFacts DEF SetSource, Go
<1>8. ASSUME NEW a \in Actors, ReadEDID(a) PROVE LinkInv'
  BY <1>8 DEF ReadEDID, Go
<1>9. ASSUME NEW a \in Actors, Announce(a) PROVE LinkInv'
  BY <1>9 DEF Announce, Go, Make, MayAnnounce, Report
<1>10. ASSUME NEW a \in Actors, SendReport(a) PROVE LinkInv'
  BY <1>10 DEF SendReport, Go, Make, Failed, VendorID
<1>11. ASSUME NEW a \in Actors, SendVendorID(a) PROVE LinkInv'
  BY <1>11 DEF SendVendorID, Go, Make, Failed
<1>12. CASE GetPowerState
  BY <1>12 DEF GetPowerState, Go, Make
<1>13. CASE Configured
  BY <1>13 DEF Configured, Go, Make
<1>14. CASE CECEnable
  BY <1>14 DEF CECEnable, Start, Go
<1>15. CASE NewConnection
  BY <1>15 DEF NewConnection, Go, Make
<1>16. CASE Publish
  BY <1>16 DEF Publish, Go, Make
<1>17. CASE OpenConnection
  BY <1>17 DEF OpenConnection, Go, Make, NoSession, VendorID
<1>18. CASE GreetBus
  <2>1. /\ step["api"] = "vendor" /\ step' = [step EXCEPT !["api"] = "idle"]
        /\ vendor' = Nothing \/ vendor' = text["api"]
    BY <1>18 DEF GreetBus, Go, NoSession
  <2>2. CASE UNCHANGED <<connection, heard>>
    <3>1. step'["api"] = "idle" /\ source # None
      BY <2>1, <2>2
    <3> QED
      BY <2>1, <2>2, <3>1
  <2>3. CASE NoSession
    BY <2>1, <2>3 DEF NoSession
  <2> QED
    BY <1>18, <2>2, <2>3 DEF GreetBus
<1>19. CASE CECDisable
  BY <1>19 DEF CECDisable, NoSession
<1> HIDE DEF LinkInv
<1> QED
  BY <1>1, <1>2, <1>3, <1>4, <1>5, <1>6, <1>7, <1>8, <1>9, <1>10, <1>11,
     <1>12, <1>13, <1>14, <1>15, <1>16, <1>17, <1>18, <1>19 DEF Next, API, Act

\* Every step keeps the initiators.
LEMMA KeepsOwn ==
  ASSUME TypeInv, TextInv, LinkInv, OwnInv, Next
  PROVE  OwnInv'
<1> USE AddressAssumption DEF TypeInv, StepInv, FlagInv, ValueInv, Actors, Steps, Own,
    Reports, Answers, Physical, Nothing, UNREGISTERED, Unset, None, TextInv, LinkInv,
    OwnInv, Unconnected, environment, addresses, connection, bus, history
<1>1. CASE Plug
  BY <1>1 DEF Plug, Event, Start, Go
<1>2. CASE ChangeMode
  BY <1>2 DEF ChangeMode, Event
<1>3. CASE OnPowerModeChanged
  <2>1. /\ step["power"] = "idle"
        /\ step' = [step EXCEPT !["power"] = "logical"] \/ step' = [step EXCEPT !["power"] = "idle"]
    BY <1>3, CallbackFacts
  <2>2. UNCHANGED <<logicalAddress, source, conn, text, moved, overtaken>>
    BY <1>3, CallbackFacts
  <2>3. /\ \A b \in Actors : step'[b] = "source" <=> step[b] = "source"
        /\ step'["api"] = step["api"]
    BY <2>1
  <2> QED
    BY <2>2, <2>3
<1>4. CASE Query
  BY <1>4 DEF Query, Start, Go, Make, Report, VendorID
<1>5. ASSUME NEW a \in Actors, GetPhysicalAddress(a) PROVE OwnInv'
  BY <1>5 DEF GetPhysicalAddress, Go, Failed
<1>6. ASSUME NEW a \in Actors, GetLogicalAddress(a) PROVE OwnInv'
  <2>1. UNCHANGED <<source, conn, text>> /\ step[a] = "logical"
    BY <1>6 DEF GetLogicalAddress
  <2>2. CASE logicalAddress' # logicalAddress
    <3>1. /\ moved' = (source # None \/ step["api"] = "publish")
          /\ overtaken' = (overtaken \/ step["api"] = "publish")
          /\ step' = [step EXCEPT ![a] = "source"]
      BY <1>6, <2>2 DEF GetLogicalAddress, Go
    <3>2. step'[a] = "source" /\ (step'["api"] = "publish" => step["api"] = "publish")
      BY <2>1, <3>1
    <3> QED
      BY <2>1, <3>1, <3>2
  <2>3. CASE UNCHANGED logicalAddress
    <3>1. step' = [step EXCEPT ![a] = Fetched(a)] /\ UNCHANGED <<moved, overtaken>>
      BY <1>6, <2>3 DEF GetLogicalAddress, Go
    <3>2. a # "reader"
      BY <2>1
    <3>3. \A b \in Actors : /\ step'[b] = "source" <=> step[b] = "source"
                            /\ step'[b] = "publish" <=> step[b] = "publish"
      BY <2>1, <3>1, <3>2, FetchedFacts
    <3> QED
      BY <2>1, <2>3, <3>1, <3>3
  <2> QED
    BY <2>2, <2>3
<1>7. ASSUME NEW a \in Actors, SetSource(a) PROVE OwnInv'
  <2>1. a # "reader"
    BY <1>7 DEF SetSource, TypeInv, StepInv
  <2> QED
    BY <1>7, <2>1, FetchedFacts DEF SetSource, Go
<1>8. ASSUME NEW a \in Actors, ReadEDID(a) PROVE OwnInv'
  BY <1>8 DEF ReadEDID, Go
<1>9. ASSUME NEW a \in Actors, Announce(a) PROVE OwnInv'
  BY <1>9 DEF Announce, Go, Make, MayAnnounce, Report
<1>10. ASSUME NEW a \in Actors, SendReport(a) PROVE OwnInv'
  BY <1>10 DEF SendReport, Go, Make, Failed, VendorID
<1>11. ASSUME NEW a \in Actors, SendVendorID(a) PROVE OwnInv'
  BY <1>11 DEF SendVendorID, Go, Make, Failed
<1>12. CASE GetPowerState
  BY <1>12 DEF GetPowerState, Go, Make
<1>13. CASE Configured
  BY <1>13 DEF Configured, Go, Make
<1>14. CASE CECEnable
  BY <1>14 DEF CECEnable, Start, Go
<1>15. CASE NewConnection
  BY <1>15 DEF NewConnection, Go, Make
<1>16. CASE Publish
  BY <1>16 DEF Publish, Go, Make
<1>17. CASE OpenConnection
  BY <1>17 DEF OpenConnection, Go, Make, NoSession, VendorID
<1>18. CASE GreetBus
  BY <1>18 DEF GreetBus, Go, Make, NoSession
<1>19. CASE CECDisable
  BY <1>19 DEF CECDisable, NoSession
<1> HIDE DEF OwnInv
<1> QED
  BY <1>1, <1>2, <1>3, <1>4, <1>5, <1>6, <1>7, <1>8, <1>9, <1>10, <1>11,
     <1>12, <1>13, <1>14, <1>15, <1>16, <1>17, <1>18, <1>19 DEF Next, API, Act

\* Every step keeps the power status.
LEMMA KeepsPower ==
  ASSUME TypeInv, TextInv, PowerInv, Next
  PROVE  PowerInv'
<1> USE AddressAssumption DEF TypeInv, StepInv, FlagInv, ValueInv, Actors, Steps, Own,
    Reports, Answers, Physical, Nothing, UNREGISTERED, Unset, None, TextInv, PowerInv,
    environment, addresses, connection, bus, history
<1>1. CASE Plug
  BY <1>1 DEF Plug, Event, Start, Go
<1>2. CASE ChangeMode
  BY <1>2 DEF ChangeMode, Event
<1>3. CASE OnPowerModeChanged
  <2>0. step' = [step EXCEPT !["power"] = "logical"] \/ step' = [step EXCEPT !["power"] = "idle"]
    BY <1>3, CallbackFacts
  <2>1. step'["api"] = step["api"]
    BY <2>0
  <2>4. /\ UNCHANGED <<mode, text>>
        /\ powerState' = Head(modes) /\ modes # <<>> /\ modes' = Tail(modes)
    BY <1>3 DEF OnPowerModeChanged
  <2>2. raced' = (step["api"] = "power")
    BY <1>3 DEF OnPowerModeChanged
  <2>3. IF Tail(modes) = <<>> THEN Head(modes) = modes[Len(modes)]
                              ELSE Tail(modes)[Len(Tail(modes))] = modes[Len(modes)]
    BY <2>4, LastFacts
  <2>5. modes[Len(modes)] = mode
    BY <2>4
  <2> HIDE DEF TypeInv, TextInv, Actors, Steps
  <2>6. modes' # <<>> => modes'[Len(modes')] = mode'
    BY <2>3, <2>4, <2>5
  <2>7. modes' = <<>> => powerState' = mode'
    BY <2>3, <2>4, <2>5
  <2> QED
    BY <2>1, <2>2, <2>6, <2>7
<1>4. CASE Query
  BY <1>4 DEF Query, Start, Go, Make, Report, VendorID
<1>5. ASSUME NEW a \in Actors, GetPhysicalAddress(a) PROVE PowerInv'
  BY <1>5 DEF GetPhysicalAddress, Go, Failed
<1>6. ASSUME NEW a \in Actors, GetLogicalAddress(a) PROVE PowerInv'
  <2>1. a # "reader" /\ step[a] = "logical" /\ UNCHANGED <<modes, mode, raced, text, powerState>>
    BY <1>6 DEF GetLogicalAddress
  <2>2. step' = [step EXCEPT ![a] = "source"] \/ step' = [step EXCEPT ![a] = Fetched(a)]
    BY <1>6 DEF GetLogicalAddress, Go
  <2>3. \/ step'["api"] = step["api"]
        \/ /\ step["api"] \notin {"edid", "mode", "power"}
           /\ step'["api"] \notin {"edid", "mode", "power"}
    BY <2>1, <2>2, FetchedFacts
  <2> QED
    BY <2>1, <2>3
<1>7. ASSUME NEW a \in Actors, SetSource(a) PROVE PowerInv'
  <2>1. a # "reader"
    BY <1>7 DEF SetSource, TypeInv, StepInv
  <2> QED
    BY <1>7, <2>1, FetchedFacts DEF SetSource, Go
<1>8. ASSUME NEW a \in Actors, ReadEDID(a) PROVE PowerInv'
  BY <1>8 DEF ReadEDID, Go
<1>9. ASSUME NEW a \in Actors, Announce(a) PROVE PowerInv'
  BY <1>9 DEF Announce, Go, Make, MayAnnounce, Report
<1>10. ASSUME NEW a \in Actors, SendReport(a) PROVE PowerInv'
  BY <1>10 DEF SendReport, Go, Make, Failed, VendorID
<1>11. ASSUME NEW a \in Actors, SendVendorID(a) PROVE PowerInv'
  BY <1>11 DEF SendVendorID, Go, Make, Failed
<1>12. CASE GetPowerState
  BY <1>12 DEF GetPowerState, Go, Make
<1>13. CASE Configured
  <2>1. /\ step["api"] = "power" /\ UNCHANGED <<modes, mode, raced>>
        /\ step'["api"] \in {"physical", "idle"}
    BY <1>13 DEF Configured, Go
  <2>2. text["api"] = <<mode>> => powerState' = mode
    BY <1>13 DEF Configured
  <2> QED
    BY <2>1, <2>2
<1>14. CASE CECEnable
  BY <1>14 DEF CECEnable, Start, Go
<1>15. CASE NewConnection
  BY <1>15 DEF NewConnection, Go, Make
<1>16. CASE Publish
  BY <1>16 DEF Publish, Go, Make
<1>17. CASE OpenConnection
  BY <1>17 DEF OpenConnection, Go, Make, NoSession, VendorID
<1>18. CASE GreetBus
  BY <1>18 DEF GreetBus, Go, Make, NoSession
<1>19. CASE CECDisable
  BY <1>19 DEF CECDisable, NoSession
<1> HIDE DEF PowerInv
<1> QED
  BY <1>1, <1>2, <1>3, <1>4, <1>5, <1>6, <1>7, <1>8, <1>9, <1>10, <1>11,
     <1>12, <1>13, <1>14, <1>15, <1>16, <1>17, <1>18, <1>19 DEF Next, API, Act

\* Every step keeps actors apart, or is counted as crossing.
LEMMA KeepsAlone ==
  ASSUME TypeInv, TextInv, LinkInv, AloneInv, Next
  PROVE  AloneInv'
<1> USE AddressAssumption DEF TypeInv, StepInv, FlagInv, ValueInv, Actors, Steps, Own,
    Reports, Answers, Physical, Nothing, UNREGISTERED, Unset, None, LinkInv, Unconnected,
    AloneInv, Undisturbed, TextInv, environment, addresses, connection, bus, history
<1>1. CASE Plug
  <2> HIDE DEF TypeInv
  <2>1. unread' /\ UNCHANGED <<source, heard, vendor, isLGTvConnected, text>>
    BY <1>1, PlugFacts
  <2>2. ASSUME cecEnableStatus, NEW h \in HotPlugs, step' = [step EXCEPT ![h] = "physical"],
               ~crossed' => \A b \in Actors : step[b] = "idle"
        PROVE  AloneInv'
    <3>1. h \in Actors /\ h # "api" /\ DOMAIN step = Actors
      BY DEF TypeInv
    <3>2. step'[h] = "physical" /\ step'["api"] = step["api"]
      BY <2>2, <3>1
    <3>3. ~crossed' => \A b \in Actors : b # h => step'[b] = "idle"
      BY <2>2, <3>1
    <3> QED
      BY <2>1, <3>1, <3>2, <3>3 DEF TypeInv
  <2>3. ASSUME ~cecEnableStatus, UNCHANGED step, ~crossed' => ~crossed /\ step["api"] = "idle"
        PROVE  AloneInv'
    BY <2>1, <2>3
  <2> HIDE DEF AloneInv
  <2> QED
    BY <1>1, <2>2, <2>3, PlugFacts
<1>2. CASE ChangeMode
  BY <1>2 DEF ChangeMode, Event
<1>3. CASE OnPowerModeChanged
  <2>1. /\ modes' \in Seq(BOOLEAN) /\ step["power"] = "idle"
        /\ step' = [step EXCEPT !["power"] = "logical"] \/ step' = [step EXCEPT !["power"] = "idle"]
        /\ ~crossed' => (\A b \in Actors : step[b] = "idle") /\ ~crossed
        /\ UNCHANGED <<driver, mode, events, addresses, isLGTvConnected, connection, text, bus,
                       moved, overtaken, unread>>
    BY <1>3, CallbackFacts
  <2> QED
    BY <2>1
<1>4. CASE Query
  <2>1. PICK t \in {"report", "vendor"} : step' = [step EXCEPT !["reader"] = t]
    <3> HIDE DEF TypeInv
    <3> QED
      BY <1>4, QueryFacts
  <2>2. ~crossed' => \A b \in Actors : step[b] = "idle"
    <3> HIDE DEF TypeInv
    <3> QED
      BY <1>4, QueryFacts
  <2>3. \A b \in Actors : b # "reader" => step'[b] = step[b]
    BY <2>1
  <2> QED
    BY <2>2, <2>3
<1>5. ASSUME NEW a \in Actors, GetPhysicalAddress(a) PROVE AloneInv'
  BY <1>5 DEF GetPhysicalAddress, Go, Failed
<1>6. ASSUME NEW a \in Actors, GetLogicalAddress(a) PROVE AloneInv'
  <2>1. a # "reader"
    BY <1>6 DEF GetLogicalAddress, TypeInv, StepInv
  <2> QED
    BY <1>6, <2>1, FetchedFacts DEF GetLogicalAddress, Go, Failed
<1>7. ASSUME NEW a \in Actors, SetSource(a) PROVE AloneInv'
  <2>1. a # "reader"
    BY <1>7 DEF SetSource, TypeInv, StepInv
  <2> QED
    BY <1>7, <2>1, FetchedFacts DEF SetSource, Go
<1>8. ASSUME NEW a \in Actors, ReadEDID(a) PROVE AloneInv'
  BY <1>8 DEF ReadEDID, Go
<1>9. ASSUME NEW a \in Actors, Announce(a) PROVE AloneInv'
  BY <1>9 DEF Announce, Go, Make, MayAnnounce, Report
<1>10. ASSUME NEW a \in Actors, SendReport(a) PROVE AloneInv'
  BY <1>10 DEF SendReport, Go, Make, Failed, VendorID
<1>11. ASSUME NEW a \in Actors, SendVendorID(a) PROVE AloneInv'
  BY <1>11 DEF SendVendorID, Go, Make, Failed
<1>12. CASE GetPowerState
  BY <1>12 DEF GetPowerState, Go, Make
<1>13. CASE Configured
  BY <1>13 DEF Configured, Go, Make
<1>14. CASE CECEnable
  <2> HIDE DEF TypeInv
  <2>1. ~cecEnableStatus /\ UNCHANGED <<source, heard, vendor, isLGTvConnected, text, driver, unread>>
    BY <1>14 DEF CECEnable
  <2>2. step["api"] = "idle" /\ step' = [step EXCEPT !["api"] = "physical"]
    BY <1>14, EnableFacts
  <2>3. ~crossed' => \A b \in Actors : step[b] = "idle"
    BY <1>14, EnableFacts
  <2>4. step'["api"] = "physical" /\ (~crossed' => \A b \in Actors : b # "api" => step'[b] = "idle")
    BY <2>2, <2>3 DEF TypeInv
  <2> QED
    BY <2>1, <2>2, <2>4 DEF TypeInv
<1>15. CASE NewConnection
  BY <1>15 DEF NewConnection, Go, Make
<1>16. CASE Publish
  BY <1>16 DEF Publish, Go, Make
<1>17. CASE OpenConnection
  BY <1>17 DEF OpenConnection, Go, Make, NoSession, VendorID
<1>18. CASE GreetBus
  BY <1>18 DEF GreetBus, Go, Make, NoSession
<1>19. CASE CECDisable
  BY <1>19 DEF CECDisable, NoSession
<1> HIDE DEF AloneInv
<1> QED
  BY <1>1, <1>2, <1>3, <1>4, <1>5, <1>6, <1>7, <1>8, <1>9, <1>10, <1>11,
     <1>12, <1>13, <1>14, <1>15, <1>16, <1>17, <1>18, <1>19 DEF Next, API, Act

\* Every step keeps the addresses of an undisturbed session.
LEMMA KeepsFetch ==
  ASSUME TypeInv, TextInv, LinkInv, AloneInv, FetchInv, Next
  PROVE  FetchInv'
<1> USE AddressAssumption DEF TypeInv, StepInv, FlagInv, ValueInv, Actors, Steps, Own,
    Reports, Answers, Physical, Nothing, UNREGISTERED, Unset, None, LinkInv, Unconnected,
    AloneInv, Undisturbed, TextInv, FetchInv, At, WakeUp, environment, addresses,
    connection, bus, history
<1>1. CASE Plug
  <2> HIDE DEF TypeInv
  <2>1. unread' /\ UNCHANGED <<source, heard, vendor, isLGTvConnected, text>>
    BY <1>1, PlugFacts
  <2>2. ASSUME cecEnableStatus, NEW h \in HotPlugs, step' = [step EXCEPT ![h] = "physical"],
               ~crossed' => \A b \in Actors : step[b] = "idle"
        PROVE  FetchInv'
    <3>1. h \in Actors /\ h # "api" /\ DOMAIN step = Actors
      BY DEF TypeInv
    <3>2. step'[h] = "physical" /\ step'["api"] = step["api"]
      BY <2>2, <3>1
    <3>3. ~crossed' => \A b \in Actors : b # h => step'[b] = "idle"
      BY <2>2, <3>1
    <3> QED
      BY <2>1, <3>1, <3>2, <3>3 DEF TypeInv
  <2>3. ASSUME ~cecEnableStatus, UNCHANGED step, ~crossed' => ~crossed /\ step["api"] = "idle"
        PROVE  FetchInv'
    BY <2>1, <2>3
  <2> HIDE DEF FetchInv
  <2> QED
    BY <1>1, <2>2, <2>3, PlugFacts
<1>2. CASE ChangeMode
  <2>1. PICK l \in Logical : driver' = [driver EXCEPT !.logical = IF mode THEN @ ELSE l]
    BY <1>2 DEF ChangeMode
  <2>2. modes' = Append(modes, mode') /\ mode' = ~mode
        /\ UNCHANGED <<addresses, step, source, crossed>>
    BY <1>2 DEF ChangeMode
  <2>3. modes'[Len(modes) + 1] = mode' /\ Len(modes') = Len(modes) + 1
        /\ \A i \in 1 .. Len(modes) : modes'[i] = modes[i]
    BY <2>2
  <2>4. WakeUp => WakeUp'
    BY <2>3
  <2>5. ~mode => WakeUp'
    <3>1. ~mode => modes'[Len(modes) + 1] = TRUE
      BY <2>2, <2>3
    <3>2. Len(modes) + 1 \in 1 .. Len(modes')
      BY <2>3
    <3> QED
      BY <3>1, <3>2
  <2>6. driver'.display = driver.display /\ (mode => driver'.logical = driver.logical)
    BY <2>1
  <2> HIDE DEF WakeUp
  <2> QED
    BY <2>2, <2>4, <2>5, <2>6
<1>3. CASE OnPowerModeChanged
  <2>1. /\ modes \in Seq(BOOLEAN) /\ modes # <<>> /\ modes' = Tail(modes) /\ Head(modes) \in BOOLEAN
        /\ step["power"] = "idle"
        /\ \/ step' = [step EXCEPT !["power"] = "logical"] /\ Head(modes)
           \/ step' = [step EXCEPT !["power"] = "idle"] /\ ~Head(modes)
        /\ ~crossed' => (\A b \in Actors : step[b] = "idle") /\ ~crossed
        /\ UNCHANGED <<driver, addresses, source>>
    BY <1>3, CallbackFacts
  <2>2. CASE step' = [step EXCEPT !["power"] = "logical"]
    <3>1. step'["power"] = "logical" /\ step'["api"] = step["api"]
      BY <2>1, <2>2
    <3>5. Undisturbed' => Undisturbed
      BY <2>1, <3>1
    <3>2. Undisturbed' => Undisturbed /\ ~At({"mode", "power", "physical"}) /\ step["api"] # "edid"
      <4>1. Undisturbed' => \A b \in Actors : step[b] = "idle"
        BY <2>1
      <4> QED
        BY <3>5, <4>1
    <3>3. Undisturbed' => physical_addr = driver.display.physical
      BY <3>2
    <3>4. At({"mode", "power", "physical", "logical"})'
      BY <3>1
    <3> QED
      BY <2>1, <3>3, <3>4
  <2>3. CASE step' = [step EXCEPT !["power"] = "idle"] /\ ~Head(modes)
    <3>1. WakeUp => WakeUp'
      <4>1. Head(modes) = FALSE
        BY <2>1, <2>3
      <4> QED
        BY <2>1, <4>1, TailFacts
    <3>2. \A b \in Actors : step'[b] = step[b]
      BY <2>1, <2>3
    <3>3. Undisturbed' => Undisturbed
      BY <2>1, <3>2
    <3>4. \A S : At(S)' <=> At(S)
      BY <3>2
    <3>5. step'["api"] = step["api"]
      BY <3>2
    <3> HIDE DEF WakeUp, At, Undisturbed
    <3> QED
      BY <2>1, <3>1, <3>3, <3>4, <3>5
  <2> QED
    BY <2>1, <2>2, <2>3
<1>4. CASE Query
  BY <1>4 DEF Query, Start, Go, Make, Report, VendorID
<1>5. ASSUME NEW a \in Actors, GetPhysicalAddress(a) PROVE FetchInv'
  BY <1>5 DEF GetPhysicalAddress, Go, Failed
<1>6. ASSUME NEW a \in Actors, GetLogicalAddress(a) PROVE FetchInv'
  <2>1. a # "reader"
    BY <1>6 DEF GetLogicalAddress, TypeInv, StepInv
  <2> QED
    BY <1>6, <2>1, FetchedFacts DEF GetLogicalAddress, Go, Failed
<1>7. ASSUME NEW a \in Actors, SetSource(a) PROVE FetchInv'
  <2>1. a # "reader"
    BY <1>7 DEF SetSource, TypeInv, StepInv
  <2> QED
    BY <1>7, <2>1, FetchedFacts DEF SetSource, Go
<1>8. ASSUME NEW a \in Actors, ReadEDID(a) PROVE FetchInv'
  BY <1>8 DEF ReadEDID, Go
<1>9. ASSUME NEW a \in Actors, Announce(a) PROVE FetchInv'
  BY <1>9 DEF Announce, Go, Make, MayAnnounce, Report
<1>10. ASSUME NEW a \in Actors, SendReport(a) PROVE FetchInv'
  BY <1>10 DEF SendReport, Go, Make, Failed, VendorID
<1>11. ASSUME NEW a \in Actors, SendVendorID(a) PROVE FetchInv'
  BY <1>11 DEF SendVendorID, Go, Make, Failed
<1>12. CASE GetPowerState
  BY <1>12 DEF GetPowerState, Go, Make
<1>13. CASE Configured
  BY <1>13 DEF Configured, Go, Make
<1>14. CASE CECEnable
  <2> HIDE DEF TypeInv
  <2>1. ~cecEnableStatus /\ UNCHANGED <<source, heard, vendor, isLGTvConnected, text, driver, unread>>
    BY <1>14 DEF CECEnable
  <2>2. step["api"] = "idle" /\ step' = [step EXCEPT !["api"] = "physical"]
    BY <1>14, EnableFacts
  <2>3. ~crossed' => \A b \in Actors : step[b] = "idle"
    BY <1>14, EnableFacts
  <2>4. step'["api"] = "physical" /\ (~crossed' => \A b \in Actors : b # "api" => step'[b] = "idle")
    BY <2>2, <2>3 DEF TypeInv
  <2> QED
    BY <2>1, <2>2, <2>4 DEF TypeInv
<1>15. CASE NewConnection
  BY <1>15 DEF NewConnection, Go, Make
<1>16. CASE Publish
  BY <1>16 DEF Publish, Go, Make
<1>17. CASE OpenConnection
  BY <1>17 DEF OpenConnection, Go, Make, NoSession, VendorID
<1>18. CASE GreetBus
  BY <1>18 DEF GreetBus, Go, Make, NoSession
<1>19. CASE CECDisable
  BY <1>19 DEF CECDisable, NoSession
<1> HIDE DEF FetchInv
<1> QED
  BY <1>1, <1>2, <1>3, <1>4, <1>5, <1>6, <1>7, <1>8, <1>9, <1>10, <1>11,
     <1>12, <1>13, <1>14, <1>15, <1>16, <1>17, <1>18, <1>19 DEF Next, API, Act

\* Every step keeps what the bus has heard in an undisturbed session.
LEMMA KeepsHeard ==
  ASSUME TypeInv, TextInv, LinkInv, AloneInv, HeardInv, Next
  PROVE  HeardInv'
<1> USE AddressAssumption DEF TypeInv, StepInv, FlagInv, ValueInv, Actors, Steps, Own,
    Reports, Answers, Physical, Nothing, UNREGISTERED, Unset, None, LinkInv, Unconnected,
    AloneInv, Undisturbed, TextInv, HeardInv, At, Report, environment, addresses,
    connection, bus, history
<1>1. CASE Plug
  <2> HIDE DEF TypeInv
  <2>1. unread' /\ UNCHANGED <<source, heard, vendor, isLGTvConnected, text>>
    BY <1>1, PlugFacts
  <2>2. ASSUME cecEnableStatus, NEW h \in HotPlugs, step' = [step EXCEPT ![h] = "physical"],
               ~crossed' => \A b \in Actors : step[b] = "idle"
        PROVE  HeardInv'
    <3>1. h \in Actors /\ h # "api" /\ DOMAIN step = Actors
      BY DEF TypeInv
    <3>2. step'[h] = "physical" /\ step'["api"] = step["api"]
      BY <2>2, <3>1
    <3>3. ~crossed' => \A b \in Actors : b # h => step'[b] = "idle"
      BY <2>2, <3>1
    <3> QED
      BY <2>1, <3>1, <3>2, <3>3 DEF TypeInv
  <2>3. ASSUME ~cecEnableStatus, UNCHANGED step, ~crossed' => ~crossed /\ step["api"] = "idle"
        PROVE  HeardInv'
    BY <2>1, <2>3
  <2> HIDE DEF HeardInv
  <2> QED
    BY <1>1, <2>2, <2>3, PlugFacts
<1>2. CASE ChangeMode
  BY <1>2 DEF ChangeMode, Event
<1>3. CASE OnPowerModeChanged
  <2>1. /\ modes' \in Seq(BOOLEAN) /\ step["power"] = "idle"
        /\ step' = [step EXCEPT !["power"] = "logical"] \/ step' = [step EXCEPT !["power"] = "idle"]
        /\ ~crossed' => (\A b \in Actors : step[b] = "idle") /\ ~crossed
        /\ UNCHANGED <<driver, mode, events, addresses, isLGTvConnected, connection, text, bus,
                       moved, overtaken, unread>>
    BY <1>3, CallbackFacts
  <2> QED
    BY <2>1
<1>4. CASE Query
  BY <1>4 DEF Query, Start, Go, Make, VendorID
<1>5. ASSUME NEW a \in Actors, GetPhysicalAddress(a) PROVE HeardInv'
  BY <1>5 DEF GetPhysicalAddress, Go, Failed
<1>6. ASSUME NEW a \in Actors, GetLogicalAddress(a) PROVE HeardInv'
  <2>1. a # "reader"
    BY <1>6 DEF GetLogicalAddress, TypeInv, StepInv
  <2> QED
    BY <1>6, <2>1, FetchedFacts DEF GetLogicalAddress, Go, Failed
<1>7. ASSUME NEW a \in Actors, SetSource(a) PROVE HeardInv'
  <2>1. a # "reader"
    BY <1>7 DEF SetSource, TypeInv, StepInv
  <2> QED
    BY <1>7, <2>1, FetchedFacts DEF SetSource, Go
<1>8. ASSUME NEW a \in Actors, ReadEDID(a) PROVE HeardInv'
  BY <1>8 DEF ReadEDID, Go
<1>9. ASSUME NEW a \in Actors, Announce(a) PROVE HeardInv'
  BY <1>9 DEF Announce, Go, Make, MayAnnounce
<1>10. ASSUME NEW a \in Actors, SendReport(a) PROVE HeardInv'
  BY <1>10 DEF SendReport, Go, Make, Failed, VendorID
<1>11. ASSUME NEW a \in Actors, SendVendorID(a) PROVE HeardInv'
  BY <1>11 DEF SendVendorID, Go, Make, Failed
<1>12. CASE GetPowerState
  BY <1>12 DEF GetPowerState, Go, Make
<1>13. CASE Configured
  BY <1>13 DEF Configured, Go, Make
<1>14. CASE CECEnable
  <2> HIDE DEF TypeInv
  <2>1. ~cecEnableStatus /\ UNCHANGED <<source, heard, vendor, isLGTvConnected, text, driver, unread>>
    BY <1>14 DEF CECEnable
  <2>2. step["api"] = "idle" /\ step' = [step EXCEPT !["api"] = "physical"]
    BY <1>14, EnableFacts
  <2>3. ~crossed' => \A b \in Actors : step[b] = "idle"
    BY <1>14, EnableFacts
  <2>4. step'["api"] = "physical" /\ (~crossed' => \A b \in Actors : b # "api" => step'[b] = "idle")
    BY <2>2, <2>3 DEF TypeInv
  <2> QED
    BY <2>1, <2>2, <2>4 DEF TypeInv
<1>15. CASE NewConnection
  BY <1>15 DEF NewConnection, Go, Make
<1>16. CASE Publish
  BY <1>16 DEF Publish, Go, Make
<1>17. CASE OpenConnection
  BY <1>17 DEF OpenConnection, Go, Make, NoSession, VendorID
<1>18. CASE GreetBus
  BY <1>18 DEF GreetBus, Go, Make, NoSession
<1>19. CASE CECDisable
  BY <1>19 DEF CECDisable, NoSession
<1> HIDE DEF HeardInv
<1> QED
  BY <1>1, <1>2, <1>3, <1>4, <1>5, <1>6, <1>7, <1>8, <1>9, <1>10, <1>11,
     <1>12, <1>13, <1>14, <1>15, <1>16, <1>17, <1>18, <1>19 DEF Next, API, Act

\* Every step keeps the vendor ID of an undisturbed session.
LEMMA KeepsVendor ==
  ASSUME TypeInv, TextInv, LinkInv, AloneInv, VendorInv, Next
  PROVE  VendorInv'
<1> USE AddressAssumption DEF TypeInv, StepInv, FlagInv, ValueInv, Actors, Steps, Own,
    Reports, Answers, Physical, Nothing, UNREGISTERED, Unset, None, LinkInv, Unconnected,
    AloneInv, Undisturbed, TextInv, VendorInv, VendorID, environment, addresses,
    connection, bus, history
<1>1. CASE Plug
  <2> HIDE DEF TypeInv
  <2>1. unread' /\ UNCHANGED <<source, heard, vendor, isLGTvConnected, text>>
    BY <1>1, PlugFacts
  <2>2. ASSUME cecEnableStatus, NEW h \in HotPlugs, step' = [step EXCEPT ![h] = "physical"],
               ~crossed' => \A b \in Actors : step[b] = "idle"
        PROVE  VendorInv'
    <3>1. h \in Actors /\ h # "api" /\ DOMAIN step = Actors
      BY DEF TypeInv
    <3>2. step'[h] = "physical" /\ step'["api"] = step["api"]
      BY <2>2, <3>1
    <3>3. ~crossed' => \A b \in Actors : b # h => step'[b] = "idle"
      BY <2>2, <3>1
    <3> QED
      BY <2>1, <3>1, <3>2, <3>3 DEF TypeInv
  <2>3. ASSUME ~cecEnableStatus, UNCHANGED step, ~crossed' => ~crossed /\ step["api"] = "idle"
        PROVE  VendorInv'
    BY <2>1, <2>3
  <2> HIDE DEF VendorInv
  <2> QED
    BY <1>1, <2>2, <2>3, PlugFacts
<1>2. CASE ChangeMode
  BY <1>2 DEF ChangeMode, Event
<1>3. CASE OnPowerModeChanged
  <2>1. /\ modes' \in Seq(BOOLEAN) /\ step["power"] = "idle"
        /\ step' = [step EXCEPT !["power"] = "logical"] \/ step' = [step EXCEPT !["power"] = "idle"]
        /\ ~crossed' => (\A b \in Actors : step[b] = "idle") /\ ~crossed
        /\ UNCHANGED <<driver, mode, events, addresses, isLGTvConnected, connection, text, bus,
                       moved, overtaken, unread>>
    BY <1>3, CallbackFacts
  <2> QED
    BY <2>1
<1>4. CASE Query
  BY <1>4 DEF Query, Start, Go, Make, Report
<1>5. ASSUME NEW a \in Actors, GetPhysicalAddress(a) PROVE VendorInv'
  BY <1>5 DEF GetPhysicalAddress, Go, Failed
<1>6. ASSUME NEW a \in Actors, GetLogicalAddress(a) PROVE VendorInv'
  <2>1. a # "reader"
    BY <1>6 DEF GetLogicalAddress, TypeInv, StepInv
  <2> QED
    BY <1>6, <2>1, FetchedFacts DEF GetLogicalAddress, Go, Failed
<1>7. ASSUME NEW a \in Actors, SetSource(a) PROVE VendorInv'
  <2>1. a # "reader"
    BY <1>7 DEF SetSource, TypeInv, StepInv
  <2> QED
    BY <1>7, <2>1, FetchedFacts DEF SetSource, Go
<1>8. ASSUME NEW a \in Actors, ReadEDID(a) PROVE VendorInv'
  <2>1. /\ step[a] = "edid" /\ UNCHANGED <<source, vendor, text, crossed, driver>>
        /\ step' = [step EXCEPT ![a] = IF a = "api" THEN "mode" ELSE "test"]
    BY <1>8 DEF ReadEDID, Go
  <2>2. /\ isLGTvConnected => isLGTvConnected'
        /\ unread' => unread
        /\ ~unread' => ~unread \/ (driver.display.lg => isLGTvConnected')
    BY <1>8 DEF ReadEDID
  <2>3. a \in HotPlugs \/ a = "api"
    BY <2>1
  <2>4. step'[a] # "idle" /\ (step'["api"] # "idle" <=> step["api"] # "idle")
    BY <2>1
  <2>5. Undisturbed' => Undisturbed /\ \A b \in Actors : step'[b] # "vendor"
    BY <2>1, <2>4
  <2>6. a = "api" => vendor = Nothing
    BY <2>1
  <2> QED
    BY <2>1, <2>2, <2>3, <2>4, <2>5, <2>6
<1>9. ASSUME NEW a \in Actors, Announce(a) PROVE VendorInv'
  BY <1>9 DEF Announce, Go, Make, MayAnnounce, Report
<1>10. ASSUME NEW a \in Actors, SendReport(a) PROVE VendorInv'
  BY <1>10 DEF SendReport, Go, Make, Failed
<1>11. ASSUME NEW a \in Actors, SendVendorID(a) PROVE VendorInv'
  <2>1. /\ step[a] = "vendor" /\ a # "api" /\ step' = [step EXCEPT ![a] = "idle"]
        /\ UNCHANGED <<source, driver, isLGTvConnected, unread>>
    BY <1>11 DEF SendVendorID, Go
  <2>4. \/ crossed'
        \/ UNCHANGED crossed /\ vendor' = (IF source = None THEN vendor ELSE text[a])
    BY <1>11 DEF SendVendorID, Failed
  <2>2. Undisturbed' => Undisturbed /\ step["api"] = "idle" /\ source # None
    BY <2>1, <2>4
  <2>3. Undisturbed' => vendor' = VendorID' /\ \A b \in Actors : step'[b] # "vendor"
    <3>1. Undisturbed' => vendor' = text[a] /\ text[a] = VendorID
      BY <2>1, <2>2, <2>4
    <3>2. Undisturbed' => \A b \in Actors : step'[b] = "idle"
      BY <2>1, <2>2
    <3>3. VendorID' = VendorID
      BY <2>1
    <3> QED
      BY <3>1, <3>2, <3>3
  <2> QED
    BY <2>1, <2>3
<1>12. CASE GetPowerState
  BY <1>12 DEF GetPowerState, Go, Make
<1>13. CASE Configured
  BY <1>13 DEF Configured, Go, Make
<1>14. CASE CECEnable
  <2> HIDE DEF TypeInv
  <2>1. ~cecEnableStatus /\ UNCHANGED <<source, heard, vendor, isLGTvConnected, text, driver, unread>>
    BY <1>14 DEF CECEnable
  <2>2. step["api"] = "idle" /\ step' = [step EXCEPT !["api"] = "physical"]
    BY <1>14, EnableFacts
  <2>3. ~crossed' => \A b \in Actors : step[b] = "idle"
    BY <1>14, EnableFacts
  <2>4. step'["api"] = "physical" /\ (~crossed' => \A b \in Actors : b # "api" => step'[b] = "idle")
    BY <2>2, <2>3 DEF TypeInv
  <2> QED
    BY <2>1, <2>2, <2>4 DEF TypeInv
<1>15. CASE NewConnection
  BY <1>15 DEF NewConnection, Go, Make
<1>16. CASE Publish
  BY <1>16 DEF Publish, Go, Make
<1>17. CASE OpenConnection
  BY <1>17 DEF OpenConnection, Go, Make, NoSession
<1>18. CASE GreetBus
  <2>1. /\ step["api"] = "vendor" /\ step' = [step EXCEPT !["api"] = "idle"]
        /\ UNCHANGED <<driver, isLGTvConnected, unread>>
    BY <1>18 DEF GreetBus, Go
  <2>2. CASE vendor' = text["api"] /\ UNCHANGED <<source, crossed>>
    <3>1. text' = [text EXCEPT !["api"] = Nothing]
      BY <1>18 DEF GreetBus, Make
    <3>2. Undisturbed' => Undisturbed
      BY <2>1, <2>2
    <3>3. Undisturbed' => vendor' = VendorID'
      BY <2>1, <2>2, <3>2
    <3>4. Undisturbed' => \A b \in Actors : step'[b] = "idle"
      BY <2>1, <3>2
    <3> QED
      BY <2>1, <3>3, <3>4
  <2>3. CASE NoSession
    BY <2>1, <2>3 DEF NoSession
  <2> QED
    BY <1>18, <2>2, <2>3 DEF GreetBus
<1>19. CASE CECDisable
  BY <1>19 DEF CECDisable, NoSession
<1> HIDE DEF VendorInv
<1> QED
  BY <1>1, <1>2, <1>3, <1>4, <1>5, <1>6, <1>7, <1>8, <1>9, <1>10, <1>11,
     <1>12, <1>13, <1>14, <1>15, <1>16, <1>17, <1>18, <1>19 DEF Next, API, Act

-------------------------------------------------------------------------------
IInv == /\ TypeInv /\ TextInv /\ LinkInv /\ OwnInv /\ PowerInv
        /\ AloneInv /\ FetchInv /\ HeardInv /\ VendorInv

\* Before Configure nothing has been fetched or heard.
LEMMA InitIInv == Init => IInv
<1> SUFFICES ASSUME Init PROVE IInv
  OBVIOUS
<1> USE AddressAssumption DEF Init, Actors, Steps, Nothing, None, Unset, Own, Unconnected
<1>1. StepInv
  BY DEF StepInv
<1>2. FlagInv
  BY DEF FlagInv
<1>3. ValueInv
  BY DEF ValueInv, Physical
<1>4. TextInv
  BY DEF TextInv
<1>5. LinkInv /\ OwnInv
  BY DEF LinkInv, OwnInv
<1>6. PowerInv
  BY DEF PowerInv
<1>7. AloneInv
  BY DEF AloneInv
<1>8. FetchInv
  BY DEF FetchInv
<1>9. HeardInv
  BY DEF HeardInv
<1>10. VendorInv
  BY DEF VendorInv
<1> QED
  BY <1>1, <1>2, <1>3, <1>4, <1>5, <1>6, <1>7, <1>8, <1>9, <1>10 DEF IInv, TypeInv

\* The inductive invariant.
THEOREM Invariant == Spec => []IInv
<1>1. IInv /\ [Next]_vars => IInv'
  <2> SUFFICES ASSUME IInv, [Next]_vars PROVE IInv'
    OBVIOUS
  <2>1. CASE Next
    <3>1. TypeInv'
      BY <2>1, KeepsStep, KeepsFlag, KeepsValue DEF IInv, TypeInv
    <3>2. TextInv' /\ LinkInv' /\ OwnInv' /\ PowerInv'
      BY <2>1, KeepsText, KeepsLink, KeepsOwn, KeepsPower DEF IInv
    <3>3. AloneInv' /\ FetchInv' /\ HeardInv' /\ VendorInv'
      BY <2>1, KeepsAlone, KeepsFetch, KeepsHeard, KeepsVendor DEF IInv
    <3> QED
      BY <3>1, <3>2, <3>3 DEF IInv
  <2>2. CASE UNCHANGED vars
    <3> USE <2>2 DEF IInv, vars, environment, addresses, connection, bus, history
    <3>1. TypeInv' /\ TextInv'
      BY DEF TypeInv, StepInv, FlagInv, ValueInv, TextInv
    <3>2. LinkInv' /\ OwnInv' /\ PowerInv'
      BY DEF LinkInv, OwnInv, PowerInv
    <3>3. AloneInv' /\ FetchInv' /\ HeardInv' /\ VendorInv'
      BY DEF AloneInv, FetchInv, HeardInv, VendorInv, Undisturbed, At, WakeUp, Report, VendorID
    <3> QED
      BY <3>1, <3>2, <3>3
  <2> QED
    BY <2>1, <2>2
<1> QED
  BY <1>1, InitIInv, PTL DEF Spec

\* Every variable keeps its type.
THEOREM TypeCorrect == Spec => []TypeOK
<1>1. TypeInv => TypeOK
  BY DEF TypeInv, StepInv, FlagInv, ValueInv, TypeOK, Own, Steps, Reports
<1> QED
  BY <1>1, Invariant, PTL DEF IInv

\* The initiator of the connection, and the processor's copy, are the own address
\* under the conditions that InitiatorIsOwn names.
THEOREM OwnInitiator == Spec => []InitiatorIsOwn
<1>1. OwnInv => InitiatorIsOwn
  BY DEF OwnInv, InitiatorIsOwn
<1> QED
  BY <1>1, Invariant, PTL DEF IInv

\* After an undisturbed handler the bus knows the addresses of the driver, and an LG
\* display has been sent the vendor ID it expects.
THEOREM BusKnowsDevice == Spec => []AnnouncedIsCurrent
<1>1. IInv => AnnouncedIsCurrent
  <2> SUFFICES ASSUME IInv, Quiet PROVE AddressFitsDriver /\ VendorFitsDisplay
    BY DEF AnnouncedIsCurrent
  <2>1. \A a \in Actors : step[a] = "idle"
    BY DEF Quiet, Busy
  <2>2. step["api"] = "idle"
    BY <2>1 DEF Actors
  <2>3. AddressFitsDriver
    <3> SUFFICES ASSUME heard # Nothing, logicalAddress # UNREGISTERED
                 PROVE  heard = <<driver.display.physical, driver.logical>>
      BY DEF AddressFitsDriver
    <3>1. Undisturbed
      BY DEF Quiet, IInv, LinkInv, Undisturbed
    <3>2. ~WakeUp
      BY DEF Quiet, WakeUp
    <3>3. \A S : "idle" \notin S => ~At(S)
      BY <2>1 DEF At
    <3>4. heard = Report
      BY <3>1, <3>3 DEF IInv, HeardInv
    <3>5. physical_addr = driver.display.physical /\ logicalAddress = driver.logical
      BY <2>2, <3>1, <3>2, <3>3 DEF IInv, FetchInv
    <3> QED
      BY <3>4, <3>5 DEF Report
  <2>4. VendorFitsDisplay
    <3> SUFFICES ASSUME vendor # Nothing, ~unread, driver.display.lg PROVE vendor = <<TRUE>>
      BY DEF VendorFitsDisplay
    <3>1. Undisturbed
      BY DEF Quiet, IInv, LinkInv, Undisturbed
    <3>2. isLGTvConnected = TRUE
      BY DEF IInv, TypeInv, FlagInv, VendorInv
    <3>3. vendor = VendorID
      BY <2>1, <3>1 DEF IInv, VendorInv, Actors
    <3> QED
      BY <3>2, <3>3 DEF VendorID
  <2> QED
    BY <2>3, <2>4
<1> QED
  BY <1>1, Invariant, PTL

\* GiveDevicePowerStatus is answered with the mode of the power manager.
THEOREM PowerStatusRight == Spec => []PowerStatusIsCurrent
<1>1. PowerInv => PowerStatusIsCurrent
  BY DEF PowerInv, PowerStatusIsCurrent
<1> QED
  BY <1>1, Invariant, PTL DEF IInv
===============================================================================

--------------------------- MODULE CecSettingsProofs ---------------------------
(***************************************************************************)
(* Proofs about CecSettings, for every set of callers, names and vendor    *)
(* IDs: each property that the run checks.                                 *)
(***************************************************************************)
EXTENDS CecSettings, TLAPS

Value == BOOLEAN \cup OSDNames \cup VendorIds
HeldValues(k) == IF k = "cecVendorId" THEN 0 .. VendorLimit - 1 ELSE Values(k)
Partial(f) == DOMAIN f \subseteq Keys /\ \A k \in DOMAIN f : f[k] \in Values(k)
Steps == {"none", "persist", "store", "switch", "return"}
Lives == {"down", "destroy", "create", "write", "configure", "up"}

\* TypeOK in two parts.
DataInv ==
    /\ exists \in BOOLEAN /\ cecEnableStatus \in BOOLEAN /\ life \in Lives
    /\ Partial(file) /\ Partial(parameters) /\ Partial(owed)
    /\ DOMAIN mem = Keys /\ \A k \in Keys : mem[k] \in HeldValues(k)
    /\ clash \subseteq Keys /\ unread \subseteq Keys

CallInv ==
    /\ call \in [Callers -> [key : Keys, value : Value, step : Steps]]
    /\ \A c \in Callers : /\ call[c].value \in Values(call[c].key)
                          /\ call[c].step = "switch" => call[c].key = "cecEnabled"

\* What each place in the object's life says of the file and of memory.
LifeInv ==
    /\ ~exists => life \in {"down", "create", "up"} /\ DOMAIN file = {}
    /\ life \in {"down", "up"} /\ ~exists
          => \/ mem["cecVendorId"] = defaultVendorId
             \/ \E c \in Callers : Working(c, "cecVendorId") /\ call[c].step = "persist"
    /\ life = "configure" => exists /\ DOMAIN file = Keys
    /\ life = "configure" => \A k \in Keys : mem[k] = Held(k, file[k])
    /\ life \in {"destroy", "create", "write"} =>
          DOMAIN parameters = Keys /\ \A k \in Keys : mem[k] = Held(k, parameters[k])
    /\ life # "up" => cecEnableStatus = FALSE /\ \A c \in Callers : call[c].step = "none"
    /\ life \notin {"up", "down"} => clash = {}
    /\ life = "down" => Flags \subseteq unread

\* Without a clash a key has one setter at a time, and with one nothing is owed.
AloneInv ==
    /\ \A c, d \in Callers : \A k \in Keys \ clash : Working(c, k) /\ Working(d, k) => c = d
    /\ \A k \in DOMAIN owed : k \notin clash

\* The file has value v for key k.
Has(k, v) == k \in DOMAIN file /\ file[k] = v

\* How far a setter without a clash has come; one that writes makes its key known.
Progress(c, k) ==
    /\ call[c].step \in {"switch", "return"} =>
          (k \in unread \/ Has(k, call[c].value)) /\ mem[k] = Held(k, call[c].value)
    /\ call[c].step = "store" /\ k \in Flags => Has(k, call[c].value)
    /\ call[c].step = "persist" /\ k \notin Flags => mem[k] = Held(k, call[c].value)

StepInv ==
    /\ \A c \in Callers : \A k \in Keys \ clash : Working(c, k) => Progress(c, k)
    /\ \A c \in Callers : call[c].step \in {"persist", "store"} => call[c].key \notin unread

MatchInv ==
    life \in {"down", "up"} => \A k \in Keys \ (clash \cup unread) :
        ~Busy(k) => k \in DOMAIN file /\ mem[k] = Held(k, file[k])

\* What is owed is in the file, or in what loadSettings is going to write.
OwedInv ==
    \A k \in DOMAIN owed :
        /\ life \in {"down", "destroy", "configure", "up"} /\ ~Busy(k)
              => k \in DOMAIN file /\ file[k] = owed[k]
        /\ life \in {"destroy", "create", "write"} => parameters[k] = owed[k]

StatusInv ==
    cecEnableStatus = TRUE /\ "cecEnabled" \notin clash =>
        /\ ~Busy("cecEnabled") => mem["cecEnabled"] = TRUE
        /\ \A c \in Callers : Working(c, "cecEnabled") /\ call[c].step = "return"
              => mem["cecEnabled"] = TRUE

IInv == /\ DataInv /\ CallInv /\ LifeInv /\ AloneInv
        /\ StepInv /\ MatchInv /\ OwedInv /\ StatusInv

-------------------------------------------------------------------------------
\* Only a vendor ID is cut when it is stored.
LEMMA HeldFacts ==
  ASSUME NEW k \in Keys, NEW v \in Values(k)
  PROVE  Held(k, v) \in HeldValues(k) /\ (k # "cecVendorId" => Held(k, v) = v)
<1>1. CASE k = "cecVendorId"
  <2>1. v \in Nat
    BY <1>1, VendorAssumption DEF Values, Flags
  <2>2. v % VendorLimit \in 0 .. VendorLimit - 1
    BY <2>1, VendorAssumption
  <2> QED
    BY <1>1, <2>2 DEF Held, HeldValues
<1>2. CASE k # "cecVendorId"
  BY <1>2 DEF Held, HeldValues
<1> QED
  BY <1>1, <1>2

\* The default vendor ID has three bytes.
LEMMA DefaultHeld == Held("cecVendorId", defaultVendorId) = defaultVendorId
<1>1. defaultVendorId \in 0 .. VendorLimit - 1 /\ VendorLimit \in Nat \ {0}
  BY DefaultAssumption, VendorAssumption
<1>2. defaultVendorId % VendorLimit = defaultVendorId
  BY <1>1
<1> QED
  BY <1>2 DEF Held

\* The values with which a process starts.
LEMMA StaticsFacts ==
  /\ DOMAIN Statics = Keys /\ \A k \in Keys : Statics[k] \in HeldValues(k)
  /\ Statics["cecVendorId"] = defaultVendorId
BY DefaultAssumption DEF Statics, HeldValues, Values, Keys, Flags

\* What loadSettings takes for each key.
LEMMA ReadFacts ==
  ASSUME DataInv
  PROVE  /\ DOMAIN Read = Keys
         /\ \A k \in Keys : /\ Read[k] \in Values(k) /\ Held(k, Read[k]) \in HeldValues(k)
                            /\ k \in DOMAIN file => Read[k] = file[k]
<1>1. ASSUME NEW k \in Keys PROVE Default(k) \in Values(k)
  <2>1. CASE k = "cecOSDName"
    <3>1. mem[k] \in Values(k)
      BY <2>1 DEF DataInv, HeldValues
    <3> QED
      BY <2>1, <3>1 DEF Default, Flags
  <2>2. CASE k # "cecOSDName"
    BY <2>2, DefaultAssumption DEF Default, Values, Keys, Flags
  <2> QED
    BY <2>1, <2>2
<1>2. DOMAIN Read = Keys
  BY DEF Read
<1>3. ASSUME NEW k \in Keys
      PROVE Read[k] \in Values(k) /\ (k \in DOMAIN file => Read[k] = file[k])
  <2>1. Read[k] = IF k \in DOMAIN file THEN file[k] ELSE Default(k)
    BY DEF Read
  <2> QED
    BY <1>1, <2>1 DEF DataInv, Partial
<1> QED
  BY <1>2, <1>3, HeldFacts

\* Nobody is in a setter unless the object is up.
LEMMA IdleFacts ==
  ASSUME LifeInv, life # "up"
  PROVE  \A k : ~Busy(k) /\ \A c \in Callers : ~Working(c, k)
BY DEF LifeInv, Busy, Working

\* The functions on keys.
LEMMA PutFacts ==
  ASSUME NEW f, Partial(f), NEW k \in Keys, NEW v \in Values(k)
  PROVE  /\ Partial(Put(f, k, v)) /\ DOMAIN Put(f, k, v) = DOMAIN f \cup {k}
         /\ Put(f, k, v)[k] = v /\ \A x \in DOMAIN f : x # k => Put(f, k, v)[x] = f[x]
BY DEF Partial, Put

\* A record of one key.
LEMMA OnlyFacts ==
  ASSUME NEW f, Partial(f), NEW S
  PROVE  /\ Partial(Only(f, S)) /\ DOMAIN Only(f, S) = DOMAIN f \cap S
         /\ \A x \in DOMAIN f \cap S : Only(f, S)[x] = f[x]
BY DEF Partial, Only

\* The empty record.
LEMMA NothingFacts == Partial(Nothing) /\ DOMAIN Nothing = {}
BY DEF Partial, Nothing, Only

\* Nothing but the life of the object changes for the setters' invariants.
LEMMA StillIdle ==
  ASSUME UNCHANGED call
  PROVE  /\ \A k : Busy(k)' <=> Busy(k)
         /\ \A c \in Callers : \A k : Working(c, k)' <=> Working(c, k)
BY DEF Busy, Working

-------------------------------------------------------------------------------
\* The invariant holds when the process starts for the first time.
LEMMA InitIInv == Init => IInv
<1> SUFFICES ASSUME Init PROVE IInv
  OBVIOUS
<1>1. PICK labels \in SUBSET Keys, on \in BOOLEAN, otp \in BOOLEAN,
           name \in OSDNames, id \in VendorIds :
         file = [k \in labels |-> CASE k = "cecEnabled" -> on
                                    [] k = "cecOTPEnabled" -> otp
                                    [] k = "cecOSDName" -> name
                                    [] k = "cecVendorId" -> id]
  BY DEF Init
<1>2. Partial(file)
  <2>1. DOMAIN file = labels
    BY <1>1
  <2>2. ASSUME NEW k \in labels PROVE file[k] \in Values(k)
    BY <1>1 DEF Values, Keys, Flags
  <2> QED
    BY <2>1, <2>2 DEF Partial
<1>3. /\ mem = Statics /\ cecEnableStatus = FALSE /\ life = "down" /\ parameters = Nothing
      /\ call = [c \in Callers |-> NoCall] /\ clash = {} /\ owed = file
      /\ exists \in BOOLEAN /\ unread = Keys
  BY DEF Init
<1>4. ~exists => DOMAIN file = {}
  BY NothingFacts DEF Init
<1>5. DataInv
  BY <1>2, <1>3, StaticsFacts, NothingFacts DEF DataInv, Lives
<1>6. CallInv
  BY <1>3 DEF CallInv, NoCall, Value, Values, Steps, Keys, Flags
<1>7. \A c \in Callers : call[c].step = "none"
  BY <1>3 DEF NoCall
<1>8. LifeInv
  BY <1>3, <1>4, <1>7, StaticsFacts DEF LifeInv, Keys
<1>9. \A k : ~Busy(k) /\ \A c \in Callers : ~Working(c, k)
  BY <1>7 DEF Busy, Working
<1>10. AloneInv /\ StepInv /\ MatchInv /\ OwedInv /\ StatusInv
  BY <1>3, <1>7, <1>9 DEF AloneInv, StepInv, MatchInv, OwedInv, StatusInv
<1> QED
  BY <1>5, <1>6, <1>8, <1>10 DEF IInv

-------------------------------------------------------------------------------
\* The setters' part of the invariant while the object is not up.
LEMMA QuietFacts ==
  ASSUME CallInv, LifeInv, life # "up", UNCHANGED call
  PROVE  /\ CallInv' /\ StepInv' /\ \A c \in Callers : call'[c].step = "none"
         /\ \A k : ~Busy(k) /\ ~Busy(k)' /\ \A c \in Callers : ~Working(c, k)'
<1>1. \A c \in Callers : call[c].step = "none"
  BY DEF LifeInv
<1>2. \A k : ~Busy(k) /\ ~Busy(k)' /\ \A c \in Callers : ~Working(c, k)'
  BY <1>1 DEF Busy, Working
<1>3. CallInv'
  BY DEF CallInv
<1>4. StepInv'
  BY <1>1, <1>2 DEF StepInv
<1> QED
  BY <1>1, <1>2, <1>3, <1>4

\* A start with a file.
LEMMA LoadKeeps == IInv /\ Load => IInv'
<1> SUFFICES ASSUME IInv, Load PROVE IInv'
  OBVIOUS
<1>1. /\ life = "down" /\ exists /\ UNCHANGED <<exists, file, cecEnableStatus, call, owed>>
      /\ mem' = [k \in Keys |-> Held(k, Read[k])] /\ clash' = {} /\ unread' = {}
      /\ \/ DOMAIN file = Keys /\ life' = "configure" /\ parameters' = parameters
         \/ life' = "destroy" /\ parameters' = Read
  BY DEF Load, disk
<1>2. /\ CallInv' /\ StepInv' /\ \A c \in Callers : call'[c].step = "none"
      /\ \A k : ~Busy(k) /\ ~Busy(k)' /\ \A c \in Callers : ~Working(c, k)'
  BY <1>1, QuietFacts DEF IInv
<1>3. /\ DOMAIN mem' = Keys /\ \A k \in Keys : mem'[k] = Held(k, Read[k])
      /\ DOMAIN Read = Keys
      /\ \A k \in Keys : /\ Read[k] \in Values(k) /\ Held(k, Read[k]) \in HeldValues(k)
                         /\ k \in DOMAIN file => Read[k] = file[k]
  BY <1>1, ReadFacts DEF IInv
<1>4. DataInv'
  BY <1>1, <1>3 DEF IInv, DataInv, Partial, Lives
<1>5. cecEnableStatus' = FALSE
  BY <1>1 DEF IInv, LifeInv
<1>6. LifeInv'
  BY <1>1, <1>2, <1>3, <1>5 DEF LifeInv
<1>7. AloneInv' /\ MatchInv' /\ StatusInv'
  BY <1>1, <1>2, <1>5 DEF AloneInv, MatchInv, StatusInv
<1>8. OwedInv'
  BY <1>1, <1>2, <1>3 DEF OwedInv, IInv, DataInv, Partial
<1> QED
  BY <1>2, <1>4, <1>6, <1>7, <1>8 DEF IInv

\* A start without one.
LEMMA LoadNothingKeeps == IInv /\ LoadNothing => IInv'
<1> SUFFICES ASSUME IInv, LoadNothing PROVE IInv'
  OBVIOUS
<1>1. /\ life = "down" /\ ~exists /\ UNCHANGED <<exists, file, cecEnableStatus, call, owed>>
      /\ mem' = [k \in Keys |-> IF k \in Flags THEN TRUE ELSE mem[k]] /\ clash' = {} /\ unread' = {}
      /\ life' = "create" /\ parameters' = Read
  BY DEF LoadNothing, disk
<1>2. /\ CallInv' /\ StepInv' /\ \A c \in Callers : call'[c].step = "none"
      /\ \A k : ~Busy(k) /\ ~Busy(k)' /\ \A c \in Callers : ~Working(c, k)'
  BY <1>1, QuietFacts DEF IInv
<1>3. DOMAIN file = {} /\ DOMAIN owed = {} /\ mem["cecVendorId"] = defaultVendorId
  BY <1>1, <1>2 DEF IInv, LifeInv, OwedInv
<1>4. /\ DOMAIN Read = Keys /\ \A k \in Keys : Read[k] \in Values(k)
      /\ \A k \in Keys : Read[k] = IF k \in Flags THEN TRUE ELSE mem[k]
  BY <1>3, ReadFacts DEF IInv, Read, Default, Keys, Flags
<1>5. \A k \in Keys : Read[k] \in HeldValues(k) /\ Read[k] = Held(k, Read[k])
  <2>1. \A k \in Keys : k # "cecVendorId" => Read[k] \in HeldValues(k) /\ Read[k] = Held(k, Read[k])
    BY <1>4, HeldFacts
  <2>2. Read["cecVendorId"] = defaultVendorId
    BY <1>3, <1>4 DEF Keys, Flags
  <2>3. /\ Read["cecVendorId"] \in HeldValues("cecVendorId")
        /\ Read["cecVendorId"] = Held("cecVendorId", Read["cecVendorId"])
    BY <2>2, DefaultHeld, DefaultAssumption DEF HeldValues
  <2> QED
    BY <2>1, <2>3
<1>6. DOMAIN mem' = Keys /\ \A k \in Keys : mem'[k] = Read[k]
  BY <1>1, <1>4
<1>7. DataInv'
  BY <1>1, <1>4, <1>5, <1>6 DEF IInv, DataInv, Partial, Lives
<1>8. cecEnableStatus' = FALSE
  BY <1>1 DEF IInv, LifeInv
<1>9. LifeInv'
  BY <1>1, <1>2, <1>3, <1>4, <1>5, <1>6, <1>8 DEF LifeInv
<1>10. AloneInv' /\ MatchInv' /\ StatusInv' /\ OwedInv'
  BY <1>1, <1>2, <1>3, <1>8 DEF AloneInv, MatchInv, StatusInv, OwedInv
<1> QED
  BY <1>2, <1>7, <1>9, <1>10 DEF IInv

\* The steps of the rewrite.
LEMMA RewriteKeeps == IInv /\ (Destroy \/ Create \/ ToFile) => IInv'
<1> SUFFICES ASSUME IInv, Destroy \/ Create \/ ToFile PROVE IInv'
  OBVIOUS
<1>1. /\ UNCHANGED <<mem, cecEnableStatus, call, clash, unread, owed>>
      /\ \/ /\ life = "destroy" /\ life' = "create" /\ exists' = FALSE /\ file' = Nothing
            /\ UNCHANGED parameters
         \/ /\ life = "create" /\ life' = "write" /\ exists' = TRUE
            /\ UNCHANGED <<file, parameters>>
         \/ /\ life = "write" /\ life' = "configure" /\ file' = parameters
            /\ parameters' = Nothing /\ UNCHANGED exists
  BY DEF Destroy, Create, ToFile, history
<1>2. /\ CallInv' /\ StepInv' /\ \A c \in Callers : call'[c].step = "none"
      /\ \A k : ~Busy(k) /\ ~Busy(k)' /\ \A c \in Callers : ~Working(c, k)'
  BY <1>1, QuietFacts DEF IInv
<1>3. Partial(Nothing) /\ DOMAIN Nothing = {}
  BY NothingFacts
<1>4. /\ cecEnableStatus = FALSE /\ clash = {} /\ DOMAIN parameters = Keys
      /\ \A k \in Keys : mem[k] = Held(k, parameters[k])
      /\ life = "write" => exists
  BY <1>1 DEF IInv, LifeInv
<1>5. DataInv'
  <2>1. exists' \in BOOLEAN /\ life' \in Lives /\ Partial(file') /\ Partial(parameters')
    BY <1>1, <1>3 DEF IInv, DataInv, Lives
  <2>2. Partial(file)' /\ Partial(parameters)' /\ Partial(owed)'
    BY <1>1, <2>1 DEF Partial, IInv, DataInv
  <2> QED
    BY <1>1, <2>1, <2>2 DEF IInv, DataInv
<1>6. LifeInv'
  BY <1>1, <1>2, <1>3, <1>4 DEF LifeInv
<1>7. AloneInv' /\ MatchInv' /\ StatusInv'
  BY <1>1, <1>2, <1>4 DEF AloneInv, MatchInv, StatusInv
<1>8. OwedInv'
  BY <1>1, <1>2, <1>4 DEF OwedInv, IInv, DataInv, Partial
<1> QED
  BY <1>2, <1>5, <1>6, <1>7, <1>8 DEF IInv

\* Configure switches CEC on if the setting says so.
LEMMA ConfigureKeeps == IInv /\ Configure => IInv'
<1> SUFFICES ASSUME IInv, Configure PROVE IInv'
  OBVIOUS
<1>1. /\ life = "configure" /\ life' = "up"
      /\ UNCHANGED <<exists, file, mem, parameters, call, clash, unread, owed>>
      /\ cecEnableStatus' = TRUE => mem["cecEnabled"] = TRUE \/ cecEnableStatus = TRUE
      /\ cecEnableStatus' \in {TRUE, cecEnableStatus}
  <2>1. mem["cecEnabled"] \in BOOLEAN
    BY DEF IInv, DataInv, HeldValues, Values, Keys, Flags
  <2> QED
    BY <2>1 DEF Configure, CECEnable, disk, history
<1>2. /\ CallInv' /\ StepInv' /\ \A c \in Callers : call'[c].step = "none"
      /\ \A k : ~Busy(k) /\ ~Busy(k)' /\ \A c \in Callers : ~Working(c, k)'
  BY <1>1, QuietFacts DEF IInv
<1>3. /\ cecEnableStatus = FALSE /\ clash = {} /\ exists /\ DOMAIN file = Keys
      /\ \A k \in Keys : mem[k] = Held(k, file[k])
  BY <1>1 DEF IInv, LifeInv
<1>4. DataInv'
  BY <1>1 DEF IInv, DataInv, Partial, Lives
<1>5. LifeInv'
  BY <1>1, <1>3 DEF LifeInv
<1>6. AloneInv' /\ MatchInv' /\ StatusInv'
  BY <1>1, <1>2, <1>3 DEF AloneInv, MatchInv, StatusInv
<1>7. OwedInv'
  BY <1>1, <1>2 DEF IInv, OwedInv
<1> QED
  BY <1>2, <1>4, <1>5, <1>6, <1>7 DEF IInv

\* Without the IARM bus memory keeps what constructor and process have given it.
LEMMA WithoutIARMKeeps == IInv /\ ConfigureWithoutIARM => IInv'
<1> SUFFICES ASSUME IInv, ConfigureWithoutIARM PROVE IInv'
  OBVIOUS
<1>1. /\ life = "down" /\ life' = "up"
      /\ UNCHANGED <<exists, file, mem, cecEnableStatus, parameters, call, clash, unread, owed>>
  BY DEF ConfigureWithoutIARM, disk, history
<1>2. /\ \A k : Busy(k)' <=> Busy(k)
      /\ \A c \in Callers : \A k : Working(c, k)' <=> Working(c, k)
  BY <1>1, StillIdle
<1>3. DataInv' /\ CallInv'
  BY <1>1 DEF IInv, DataInv, CallInv, Partial, Lives
<1>4. LifeInv'
  BY <1>1, <1>2 DEF IInv, LifeInv
<1>5. AloneInv' /\ StepInv' /\ MatchInv' /\ OwedInv' /\ StatusInv'
  <2>1. AloneInv' /\ MatchInv' /\ OwedInv' /\ StatusInv'
    BY <1>1, <1>2 DEF IInv, AloneInv, MatchInv, OwedInv, StatusInv
  <2>2. StepInv'
    BY <1>1, <1>2 DEF IInv, StepInv, Progress, Has
  <2> QED
    BY <2>1, <2>2
<1> QED
  BY <1>3, <1>4, <1>5 DEF IInv

\* The flags go with the object; the file stays.
LEMMA DeactivateKeeps == IInv /\ Deactivate => IInv'
<1> SUFFICES ASSUME IInv, Deactivate PROVE IInv'
  OBVIOUS
<1>1. /\ life = "up" /\ life' = "down" /\ cecEnableStatus' = FALSE
      /\ UNCHANGED <<exists, file, parameters, call, owed>>
      /\ clash' = clash \ Flags /\ unread' = unread \cup Flags
      /\ mem' = [k \in Keys |-> IF k \in Flags THEN FALSE ELSE mem[k]]
      /\ \A c \in Callers : call[c].step = "none"
  BY DEF Deactivate, Idle, disk, history
<1>2. /\ \A k : ~Busy(k) /\ ~Busy(k)' /\ \A c \in Callers : ~Working(c, k)'
      /\ \A c \in Callers : call'[c].step = "none"
  BY <1>1 DEF Busy, Working
<1>3. DataInv'
  <2>1. DOMAIN mem' = Keys /\ \A k \in Keys : mem'[k] \in HeldValues(k)
    BY <1>1 DEF IInv, DataInv, HeldValues, Values, Flags
  <2> QED
    BY <1>1, <2>1 DEF IInv, DataInv, Partial, Lives, Keys
<1>4. CallInv' /\ StepInv'
  BY <1>1, <1>2 DEF IInv, CallInv, StepInv
<1>5. LifeInv'
  <2>1. ~exists => mem'["cecVendorId"] = defaultVendorId
    BY <1>1 DEF IInv, LifeInv, Keys, Flags
  <2> QED
    BY <1>1, <1>2, <2>1 DEF IInv, LifeInv
<1>6. AloneInv' /\ MatchInv' /\ StatusInv' /\ OwedInv'
  BY <1>1, <1>2 DEF IInv, AloneInv, MatchInv, StatusInv, OwedInv
<1> QED
  BY <1>3, <1>4, <1>5, <1>6 DEF IInv

\* A process that ends leaves the file, and what it owed for keys that are in it.
LEMMA ProcessEndsKeeps == IInv /\ ProcessEnds => IInv'
<1> SUFFICES ASSUME IInv, ProcessEnds PROVE IInv'
  OBVIOUS
<1>1. /\ life' = "down" /\ cecEnableStatus' = FALSE /\ clash' = {} /\ parameters' = Nothing
      /\ unread' = Keys
      /\ UNCHANGED <<exists, file>> /\ mem' = Statics
      /\ call' = [c \in Callers |-> NoCall]
      /\ owed' = IF life \in {"create", "write"} THEN Nothing
                 ELSE Only(owed, {k \in Keys : ~Busy(k)})
  BY DEF ProcessEnds, disk
<1>2. /\ \A k : ~Busy(k)' /\ \A c \in Callers : ~Working(c, k)'
      /\ \A c \in Callers : call'[c].step = "none"
  BY <1>1 DEF Busy, Working, NoCall
<1>3. Partial(Nothing) /\ DOMAIN Nothing = {}
  BY NothingFacts
<1>4. /\ Partial(owed)
      /\ Partial(Only(owed, {k \in Keys : ~Busy(k)}))
      /\ DOMAIN Only(owed, {k \in Keys : ~Busy(k)}) = DOMAIN owed \cap {k \in Keys : ~Busy(k)}
      /\ \A x \in DOMAIN owed \cap {k \in Keys : ~Busy(k)} :
            Only(owed, {k \in Keys : ~Busy(k)})[x] = owed[x]
  <2>1. Partial(owed)
    BY DEF IInv, DataInv
  <2> QED
    BY <2>1, OnlyFacts
<1>5. DataInv'
  <2>1. Partial(owed') /\ Partial(parameters')
    BY <1>1, <1>3, <1>4
  <2>2. Partial(file)' /\ Partial(owed)' /\ Partial(parameters)'
    BY <1>1, <2>1 DEF IInv, DataInv, Partial
  <2> QED
    BY <1>1, <2>2, StaticsFacts DEF IInv, DataInv, Lives
<1>6. CallInv' /\ StepInv'
  <2>1. CallInv'
    BY <1>1 DEF CallInv, NoCall, Value, Values, Steps, Keys, Flags
  <2> QED
    BY <1>2, <2>1 DEF StepInv
<1>7. LifeInv'
  <2>1. ~exists => DOMAIN file = {}
    BY DEF IInv, LifeInv
  <2> QED
    BY <1>1, <1>2, <2>1, StaticsFacts DEF LifeInv, Keys
<1>8. AloneInv' /\ MatchInv' /\ StatusInv'
  BY <1>1, <1>2 DEF AloneInv, MatchInv, StatusInv
<1>9. OwedInv'
  <2> SUFFICES ASSUME NEW k \in DOMAIN owed' PROVE k \in DOMAIN file /\ file[k] = owed'[k]
    BY <1>1 DEF OwedInv
  <2>1. /\ life \in {"down", "destroy", "configure", "up"} /\ k \in DOMAIN owed /\ ~Busy(k)
        /\ owed'[k] = owed[k]
    BY <1>1, <1>3, <1>4 DEF IInv, DataInv, Lives
  <2> QED
    BY <2>1 DEF IInv, OwedInv
<1> QED
  BY <1>5, <1>6, <1>7, <1>8, <1>9 DEF IInv

-------------------------------------------------------------------------------
\* A call of a setter: it may be the second one at work on its key.
LEMMA BeginKeeps ==
  ASSUME IInv, NEW c \in Callers, NEW k \in Keys, NEW v \in Values(k), Begin(c, k, v)
  PROVE  IInv'
<1>1. /\ life = "up" /\ call[c].step = "none"
      /\ call' = [call EXCEPT ![c] = [key |-> k, value |-> v, step |-> FirstStep(k, v)]]
      /\ UNCHANGED <<exists, file, mem, cecEnableStatus, life, parameters>>
      /\ clash' = IF Busy(k) THEN clash \cup {k}
                  ELSE IF k \in Flags THEN clash ELSE clash \ {k}
      /\ owed' = IF Busy(k) THEN Only(owed, Keys \ {k}) ELSE owed
      /\ unread' = IF FirstStep(k, v) \in {"switch", "return"} THEN unread ELSE unread \ {k}
  BY DEF Begin, disk
<1>2. /\ FirstStep(k, v) \in Steps \ {"none"}
      /\ FirstStep(k, v) = "switch" => k = "cecEnabled"
      /\ FirstStep(k, v) = "return" => k # "cecEnabled"
      /\ FirstStep(k, v) \in {"switch", "return"} => k \in Flags /\ mem[k] = v
      /\ FirstStep(k, v) = "store" => k \notin Flags
      /\ FirstStep(k, v) = "persist" => k \in Flags
  BY DEF FirstStep, Steps
<1>3. /\ call'[c].key = k /\ call'[c].value = v /\ call'[c].step = FirstStep(k, v)
      /\ \A d \in Callers : d # c => call'[d] = call[d]
  BY <1>1 DEF IInv, CallInv
<1>4. /\ \A d \in Callers : \A x : Working(d, x)' <=> Working(d, x) \/ (d = c /\ x = k)
      /\ \A x : ~Working(c, x)
  BY <1>1, <1>2, <1>3 DEF Working
<1>5. \A x : Busy(x)' <=> Busy(x) \/ x = k
  BY <1>4 DEF Busy
<1>6. Partial(owed) /\ Partial(owed') /\ DOMAIN owed' \subseteq DOMAIN owed
      /\ (\A x \in DOMAIN owed' : owed'[x] = owed[x]) /\ (Busy(k) => k \notin DOMAIN owed')
  <2>1. Partial(owed)
    BY DEF IInv, DataInv
  <2>2. CASE Busy(k)
    <3>1. owed' = Only(owed, Keys \ {k})
      BY <1>1, <2>2
    <3>2. /\ Partial(Only(owed, Keys \ {k}))
          /\ DOMAIN Only(owed, Keys \ {k}) = DOMAIN owed \cap (Keys \ {k})
          /\ \A x \in DOMAIN owed \cap (Keys \ {k}) : Only(owed, Keys \ {k})[x] = owed[x]
      BY <2>1, OnlyFacts
    <3> QED
      BY <2>1, <3>1, <3>2
  <2>3. CASE ~Busy(k)
    BY <1>1, <2>1, <2>3
  <2> QED
    BY <2>1, <2>2, <2>3
<1>7. /\ clash' \subseteq Keys
      /\ Busy(k) => k \in clash'
      /\ \A x : x # k => (x \in clash' <=> x \in clash)
      /\ k \in Flags => (k \in clash => k \in clash')
  BY <1>1 DEF IInv, DataInv
<1>8. DataInv'
  <2>1. Partial(file)' /\ Partial(parameters)' /\ Partial(owed)'
    BY <1>1, <1>6 DEF IInv, DataInv, Partial
  <2> QED
    BY <1>1, <1>7, <2>1 DEF IInv, DataInv
<1>9. CallInv'
  <2>1. v \in Value
    BY DEF Values, Value
  <2>2. call' \in [Callers -> [key : Keys, value : Value, step : Steps]]
    BY <1>1, <1>2, <2>1 DEF IInv, CallInv
  <2> QED
    BY <1>2, <1>3, <2>2 DEF IInv, CallInv
<1>10. LifeInv'
  <2>1. \A d \in Callers : Working(d, "cecVendorId") /\ call[d].step = "persist"
           => Working(d, "cecVendorId")' /\ call'[d].step = "persist"
    BY <1>3, <1>4
  <2> QED
    BY <1>1, <2>1 DEF IInv, LifeInv
<1>11. AloneInv'
  <2>1. ASSUME NEW d \in Callers, NEW e \in Callers, NEW x \in Keys \ clash',
               Working(d, x)', Working(e, x)'
        PROVE  d = e
    <3>1. CASE x = k
      BY <1>4, <1>5, <1>7, <2>1, <3>1 DEF Busy
    <3>2. CASE x # k
      BY <1>4, <1>7, <2>1, <3>2 DEF IInv, AloneInv
    <3> QED
      BY <3>1, <3>2
  <2>2. ASSUME NEW x \in DOMAIN owed' PROVE x \notin clash'
    BY <1>1, <1>6, <2>2 DEF IInv, AloneInv
  <2> QED
    BY <2>1, <2>2 DEF AloneInv
<1>12. StepInv'
  <2>3. \A d \in Callers : call'[d].step \in {"persist", "store"} => call'[d].key \notin unread'
    BY <1>1, <1>3 DEF IInv, StepInv
  <2> SUFFICES ASSUME NEW d \in Callers, NEW x \in Keys \ clash', Working(d, x)'
               PROVE  Progress(d, x)'
    BY <2>3 DEF StepInv
  <2>1. CASE d = c
    <3>1. x = k /\ ~Busy(k)
      BY <1>4, <1>7, <2>1
    <3>2. ASSUME k \in Flags, mem[k] = v
          PROVE  (k \in unread \/ Has(k, v)) /\ mem[k] = Held(k, v)
      <4>1. k \in Keys \ clash /\ k # "cecVendorId"
        BY <1>7, <3>1, <3>2 DEF Flags
      <4>2. k \in unread
            \/ (k \in DOMAIN file /\ mem[k] = Held(k, file[k]) /\ file[k] \in Values(k))
        BY <1>1, <3>1, <4>1 DEF IInv, MatchInv, DataInv, Partial
      <4> QED
        BY <3>2, <4>1, <4>2, HeldFacts DEF Has
    <3>3. k \in Flags /\ mem[k] = v => (k \in unread \/ Has(k, v)) /\ mem[k] = Held(k, v)
      BY <3>2
    <3> QED
      BY <1>1, <1>2, <1>3, <2>1, <3>1, <3>3 DEF Progress, Has
  <2>2. CASE d # c
    <3>1. Working(d, x) /\ call'[d] = call[d]
      BY <1>3, <1>4, <2>2
    <3>2. x # k
      BY <1>7, <3>1 DEF Busy
    <3>3. x \in Keys \ clash
      BY <1>7, <3>2
    <3> QED
      BY <1>1, <3>1, <3>2, <3>3 DEF IInv, StepInv, Progress, Has
  <2> QED
    BY <2>1, <2>2
<1>13. MatchInv'
  BY <1>1, <1>5, <1>7 DEF IInv, MatchInv
<1>14. OwedInv'
  BY <1>1, <1>5, <1>6 DEF IInv, OwedInv
<1>15. StatusInv'
  <2> SUFFICES ASSUME cecEnableStatus = TRUE, "cecEnabled" \notin clash'
               PROVE  /\ ~Busy("cecEnabled")' => mem["cecEnabled"] = TRUE
                      /\ \A d \in Callers :
                            Working(d, "cecEnabled")' /\ call'[d].step = "return"
                                => mem["cecEnabled"] = TRUE
    BY <1>1 DEF StatusInv
  <2>1. "cecEnabled" \notin clash
    BY <1>7 DEF Flags
  <2>2. ASSUME NEW d \in Callers, Working(d, "cecEnabled")', call'[d].step = "return"
        PROVE  Working(d, "cecEnabled") /\ call[d].step = "return"
    BY <1>2, <1>3, <1>4, <2>2
  <2> QED
    BY <1>5, <2>1, <2>2 DEF IInv, StatusInv
<1> QED
  BY <1>8, <1>9, <1>10, <1>11, <1>12, <1>13, <1>14, <1>15 DEF IInv

\* A setter that goes on to another step.
LEMMA StepToFacts ==
  ASSUME CallInv, LifeInv, NEW c \in Callers, NEW s \in Steps \ {"none"},
         s = "switch" => call[c].key = "cecEnabled", call[c].step # "none", StepTo(c, s)
  PROVE  /\ CallInv' /\ life = "up" /\ call[c].key \in Keys
         /\ call[c].value \in Values(call[c].key)
         /\ call'[c].key = call[c].key /\ call'[c].value = call[c].value /\ call'[c].step = s
         /\ \A d \in Callers : d # c => call'[d] = call[d]
         /\ \A d \in Callers : \A x : Working(d, x)' <=> Working(d, x)
         /\ \A x : Busy(x)' <=> Busy(x)
         /\ \A x : Working(c, x) <=> x = call[c].key
<1>1. /\ call' = [call EXCEPT ![c].step = s]
      /\ call \in [Callers -> [key : Keys, value : Value, step : Steps]]
  BY DEF StepTo, CallInv
<1>2. /\ call'[c].key = call[c].key /\ call'[c].value = call[c].value /\ call'[c].step = s
      /\ \A d \in Callers : d # c => call'[d] = call[d]
      /\ call' \in [Callers -> [key : Keys, value : Value, step : Steps]]
  BY <1>1
<1>3. \A d \in Callers : \A x : Working(d, x)' <=> Working(d, x)
  BY <1>2 DEF Working
<1>4. \A x : Busy(x)' <=> Busy(x)
  BY <1>3 DEF Busy
<1>5. CallInv'
  BY <1>2 DEF CallInv
<1>6. /\ life = "up" /\ call[c].key \in Keys /\ call[c].value \in Values(call[c].key)
      /\ \A x : Working(c, x) <=> x = call[c].key
  BY <1>1 DEF LifeInv, CallInv, Working
<1> QED
  BY <1>2, <1>3, <1>4, <1>5, <1>6

\* A setter writes its key to the file.
LEMMA PersistKeeps ==
  ASSUME IInv, NEW c \in Callers, Persist(c)
  PROVE  IInv'
<1> DEFINE k == call[c].key
           v == call[c].value
           s == IF k \in Flags THEN "store" ELSE "return"
<1>1. /\ call[c].step = "persist" /\ file' = Put(file, k, v) /\ exists' = TRUE /\ StepTo(c, s)
      /\ UNCHANGED <<mem, cecEnableStatus, life, parameters, clash, unread, owed>>
  BY DEF Persist, history
<1>2. /\ CallInv' /\ life = "up" /\ k \in Keys /\ v \in Values(k)
      /\ call'[c].key = k /\ call'[c].value = v /\ call'[c].step = s
      /\ \A d \in Callers : d # c => call'[d] = call[d]
      /\ \A d \in Callers : \A x : Working(d, x)' <=> Working(d, x)
      /\ \A x : Busy(x)' <=> Busy(x)
      /\ \A x : Working(c, x) <=> x = k
  <2>1. s \in Steps \ {"none"} /\ s # "switch"
    BY DEF Steps
  <2> HIDE DEF s
  <2> QED
    BY <1>1, <2>1, StepToFacts DEF IInv
<1> HIDE DEF k, v
<1>3. /\ Partial(file') /\ DOMAIN file' = DOMAIN file \cup {k} /\ file'[k] = v
      /\ \A x \in DOMAIN file : x # k => file'[x] = file[x]
  <2>1. Partial(file)
    BY <1>2 DEF IInv, DataInv
  <2>2. /\ Partial(Put(file, k, v)) /\ DOMAIN Put(file, k, v) = DOMAIN file \cup {k}
        /\ Put(file, k, v)[k] = v
        /\ \A x \in DOMAIN file : x # k => Put(file, k, v)[x] = file[x]
    <3>1. k \in Keys /\ v \in Values(k) /\ Partial(file)
      BY <1>2, <2>1
    <3> QED
      BY <3>1, PutFacts
  <2> QED
    BY <1>1, <1>2, <2>1, <2>2
<1>4. Busy(k)
  BY <1>2 DEF Busy
<1>5. DataInv'
  <2>1. Partial(file)' /\ Partial(parameters)' /\ Partial(owed)'
    BY <1>1, <1>3 DEF IInv, DataInv, Partial
  <2> QED
    BY <1>1, <2>1 DEF IInv, DataInv
<1>6. LifeInv'
  BY <1>1, <1>2, <1>3 DEF IInv, LifeInv
<1>7. AloneInv'
  BY <1>1, <1>2 DEF IInv, AloneInv
<1>8. StepInv'
  <2> SUFFICES ASSUME NEW d \in Callers, NEW x \in Keys \ clash, Working(d, x)
               PROVE  Progress(d, x)'
    <3>1. \A d \in Callers : call'[d].step \in {"persist", "store"} => call'[d].key \notin unread
      BY <1>1, <1>2 DEF IInv, StepInv, k
    <3> QED
      BY <1>1, <1>2, <3>1 DEF StepInv
  <2>1. CASE d = c
    <3>1. x = k
      BY <1>2, <2>1
    <3>2. k \notin Flags => mem[k] = Held(k, v)
      BY <1>1, <2>1, <3>1 DEF IInv, StepInv, Progress, v
    <3> QED
      BY <1>1, <1>2, <1>3, <2>1, <3>1, <3>2 DEF Progress, Has
  <2>2. CASE d # c
    <3>1. x # k
      BY <1>2, <2>2 DEF IInv, AloneInv
    <3>2. Progress(d, x) /\ call'[d] = call[d]
      BY <1>2, <2>2 DEF IInv, StepInv
    <3> QED
      BY <1>1, <1>2, <1>3, <3>1, <3>2 DEF Progress, Has
  <2> QED
    BY <2>1, <2>2
<1>9. MatchInv'
  BY <1>1, <1>2, <1>3, <1>4 DEF IInv, MatchInv
<1>10. OwedInv'
  BY <1>1, <1>2, <1>3, <1>4 DEF IInv, OwedInv
<1>11. StatusInv'
  BY <1>1, <1>2 DEF IInv, StatusInv, Flags
<1> QED
  BY <1>2, <1>5, <1>6, <1>7, <1>8, <1>9, <1>10, <1>11 DEF IInv

\* A setter changes memory.
LEMMA StoreKeeps ==
  ASSUME IInv, NEW c \in Callers, Store(c)
  PROVE  IInv'
<1> DEFINE k == call[c].key
           v == call[c].value
           s == IF k \notin Flags THEN "persist"
                ELSE IF k = "cecEnabled" THEN "switch" ELSE "return"
<1>1. /\ call[c].step = "store" /\ mem' = [mem EXCEPT ![k] = Held(k, v)] /\ StepTo(c, s)
      /\ UNCHANGED <<exists, file, cecEnableStatus, life, parameters, clash, unread, owed>>
  BY DEF Store, disk, history
<1>2. /\ CallInv' /\ life = "up" /\ k \in Keys /\ v \in Values(k)
      /\ call'[c].key = k /\ call'[c].value = v /\ call'[c].step = s
      /\ \A d \in Callers : d # c => call'[d] = call[d]
      /\ \A d \in Callers : \A x : Working(d, x)' <=> Working(d, x)
      /\ \A x : Busy(x)' <=> Busy(x)
      /\ \A x : Working(c, x) <=> x = k
  <2>1. s \in Steps \ {"none"} /\ (s = "switch" => k = "cecEnabled")
    BY DEF Steps
  <2> HIDE DEF s
  <2> QED
    BY <1>1, <2>1, StepToFacts DEF IInv
<1> HIDE DEF k, v
<1>3. /\ DOMAIN mem' = Keys /\ mem'[k] = Held(k, v) /\ Held(k, v) \in HeldValues(k)
      /\ \A x \in Keys : x # k => mem'[x] = mem[x]
  <2>1. DOMAIN mem = Keys
    BY DEF IInv, DataInv
  <2>2. Held(k, v) \in HeldValues(k)
    BY <1>2, HeldFacts
  <2> QED
    BY <1>1, <1>2, <2>1, <2>2
<1>4. Busy(k)
  BY <1>2 DEF Busy
<1>5. DataInv'
  <2>1. \A x \in Keys : mem'[x] \in HeldValues(x)
    BY <1>3 DEF IInv, DataInv
  <2> QED
    BY <1>1, <1>3, <2>1 DEF IInv, DataInv, Partial
<1>6. LifeInv'
  <2>1. k = "cecVendorId" => Working(c, "cecVendorId")' /\ call'[c].step = "persist"
    BY <1>2 DEF Flags
  <2>2. \A d \in Callers : Working(d, "cecVendorId") /\ call[d].step = "persist"
           => Working(d, "cecVendorId")' /\ call'[d].step = "persist"
    BY <1>1, <1>2
  <2>3. k # "cecVendorId" => mem'["cecVendorId"] = mem["cecVendorId"]
    BY <1>3 DEF Keys
  <2> QED
    BY <1>1, <1>2, <2>1, <2>2, <2>3 DEF IInv, LifeInv
<1>7. AloneInv'
  BY <1>1, <1>2 DEF IInv, AloneInv
<1>8. StepInv'
  <2> SUFFICES ASSUME NEW d \in Callers, NEW x \in Keys \ clash, Working(d, x)
               PROVE  Progress(d, x)'
    <3>1. \A d \in Callers : call'[d].step \in {"persist", "store"} => call'[d].key \notin unread
      BY <1>1, <1>2 DEF IInv, StepInv, k
    <3> QED
      BY <1>1, <1>2, <3>1 DEF StepInv
  <2>1. CASE d = c
    <3>1. x = k
      BY <1>2, <2>1
    <3>2. k \in Flags => Has(k, v)
      BY <1>1, <2>1, <3>1 DEF IInv, StepInv, Progress, v
    <3> QED
      BY <1>1, <1>2, <1>3, <2>1, <3>1, <3>2 DEF Progress, Has
  <2>2. CASE d # c
    <3>1. x # k
      BY <1>2, <2>2 DEF IInv, AloneInv
    <3>2. Progress(d, x) /\ call'[d] = call[d]
      BY <1>2, <2>2 DEF IInv, StepInv
    <3> QED
      BY <1>1, <1>2, <1>3, <3>1, <3>2 DEF Progress, Has
  <2> QED
    BY <2>1, <2>2
<1>9. MatchInv'
  BY <1>1, <1>2, <1>3, <1>4 DEF IInv, MatchInv
<1>10. OwedInv'
  BY <1>1, <1>2 DEF IInv, OwedInv
<1>11. StatusInv'
  <2> SUFFICES ASSUME cecEnableStatus = TRUE, "cecEnabled" \notin clash
               PROVE  /\ ~Busy("cecEnabled") => mem'["cecEnabled"] = TRUE
                      /\ \A d \in Callers :
                            Working(d, "cecEnabled") /\ call'[d].step = "return"
                                => mem'["cecEnabled"] = TRUE
    BY <1>1, <1>2 DEF StatusInv
  <2>0. "cecEnabled" \in Keys /\ "cecEnabled" \in Flags
    BY DEF Keys, Flags
  <2>1. CASE k = "cecEnabled"
    <3>1. call'[c].step = "switch"
      BY <1>2, <2>0, <2>1
    <3>2. \A d \in Callers : Working(d, "cecEnabled") => d = c
      BY <1>2, <2>0, <2>1 DEF IInv, AloneInv
    <3> QED
      BY <1>4, <2>1, <3>1, <3>2
  <2>2. CASE k # "cecEnabled"
    BY <1>2, <1>3, <2>0, <2>2 DEF IInv, StatusInv
  <2> QED
    BY <2>1, <2>2
<1> QED
  BY <1>2, <1>5, <1>6, <1>7, <1>8, <1>9, <1>10, <1>11 DEF IInv

\* SetEnabled switches CEC.
LEMMA SwitchKeeps ==
  ASSUME IInv, NEW c \in Callers, Switch(c)
  PROVE  IInv'
<1> DEFINE v == call[c].value
<1>1. /\ call[c].step = "switch" /\ StepTo(c, "return") /\ call[c].key = "cecEnabled"
      /\ UNCHANGED <<exists, file, mem, life, parameters, clash, unread, owed>>
      /\ v \in BOOLEAN
      /\ cecEnableStatus' \in BOOLEAN /\ (cecEnableStatus' = TRUE => v = TRUE)
  <2>1. call[c].step = "switch" /\ call[c].key = "cecEnabled"
    BY DEF Switch, IInv, CallInv
  <2>2. v \in BOOLEAN /\ cecEnableStatus \in BOOLEAN
    <3>1. v \in Values("cecEnabled")
      BY <2>1 DEF IInv, CallInv
    <3> QED
      BY <3>1 DEF Values, Flags, IInv, DataInv
  <2>3. IF v THEN cecEnableStatus' \in {TRUE, cecEnableStatus} ELSE cecEnableStatus' = FALSE
    BY DEF Switch, CECEnable
  <2>4. cecEnableStatus' \in BOOLEAN /\ (cecEnableStatus' = TRUE => v = TRUE)
    <3> HIDE DEF v
    <3> QED
      BY <2>2, <2>3
  <2> QED
    BY <2>1, <2>2, <2>4 DEF Switch, disk, history
<1>2. /\ CallInv' /\ life = "up"
      /\ call'[c].key = "cecEnabled" /\ call'[c].value = v /\ call'[c].step = "return"
      /\ \A d \in Callers : d # c => call'[d] = call[d]
      /\ \A d \in Callers : \A x : Working(d, x)' <=> Working(d, x)
      /\ \A x : Busy(x)' <=> Busy(x)
      /\ \A x : Working(c, x) <=> x = "cecEnabled"
  BY <1>1, StepToFacts DEF IInv, Steps
<1>3. DataInv'
  BY <1>1 DEF IInv, DataInv, Partial
<1>4. LifeInv'
  BY <1>1, <1>2 DEF IInv, LifeInv
<1>5. AloneInv'
  BY <1>1, <1>2 DEF IInv, AloneInv
<1>6. StepInv'
  <2> SUFFICES ASSUME NEW d \in Callers, NEW x \in Keys \ clash, Working(d, x)
               PROVE  Progress(d, x)'
    <3>1. \A d \in Callers : call'[d].step \in {"persist", "store"} => call'[d].key \notin unread
      BY <1>1, <1>2 DEF IInv, StepInv
    <3> QED
      BY <1>1, <1>2, <3>1 DEF StepInv
  <2>3. Progress(d, x)
    BY <1>2 DEF IInv, StepInv
  <2>1. CASE d = c
    BY <1>1, <1>2, <2>1, <2>3 DEF Progress, Has
  <2>2. CASE d # c
    BY <1>1, <1>2, <2>2, <2>3 DEF Progress, Has
  <2> QED
    BY <2>1, <2>2
<1>7. MatchInv' /\ OwedInv'
  BY <1>1, <1>2 DEF IInv, MatchInv, OwedInv
<1>8. StatusInv'
  <2> SUFFICES ASSUME cecEnableStatus' = TRUE, "cecEnabled" \notin clash
               PROVE  /\ Busy("cecEnabled")
                      /\ \A d \in Callers :
                            Working(d, "cecEnabled") /\ call'[d].step = "return"
                                => mem["cecEnabled"] = TRUE
    BY <1>1, <1>2 DEF StatusInv
  <2>0. "cecEnabled" \in Keys /\ "cecEnabled" # "cecVendorId" /\ v \in Values("cecEnabled")
    BY <1>1 DEF Keys, Flags, Values
  <2>1. mem["cecEnabled"] = Held("cecEnabled", v)
    BY <1>1, <1>2, <2>0 DEF IInv, StepInv, Progress
  <2>2. Held("cecEnabled", v) = v
    <3> HIDE DEF v
    <3> QED
      BY <2>0, HeldFacts
  <2> QED
    BY <1>1, <1>2, <2>1, <2>2 DEF Busy
<1> QED
  BY <1>2, <1>3, <1>4, <1>5, <1>6, <1>7, <1>8 DEF IInv

\* A setter returns: what it set is owed, unless another was at work on the key.
LEMMA ReturnKeeps ==
  ASSUME IInv, NEW c \in Callers, Return(c)
  PROVE  IInv'
<1> DEFINE k == call[c].key
           v == call[c].value
<1>1. /\ call[c].step = "return" /\ call' = [call EXCEPT ![c] = NoCall]
      /\ owed' = IF k \in clash THEN owed
                 ELSE IF k \in unread THEN Only(owed, Keys \ {k}) ELSE Put(owed, k, v)
      /\ UNCHANGED <<exists, file, mem, cecEnableStatus, life, parameters, clash, unread>>
  BY DEF Return, disk
<1>2. /\ k \in Keys /\ v \in Values(k) /\ life = "up"
      /\ call'[c] = NoCall /\ \A d \in Callers : d # c => call'[d] = call[d]
  BY <1>1 DEF IInv, CallInv, LifeInv
<1>3. /\ \A d \in Callers : \A x : Working(d, x)' <=> Working(d, x) /\ d # c
      /\ \A x : Working(c, x) <=> x = k
  BY <1>1, <1>2 DEF Working, NoCall
<1>4. Busy(k) /\ \A x : x # k => (Busy(x)' <=> Busy(x))
  BY <1>3 DEF Busy
<1>5. CallInv'
  <2>1. NoCall \in [key : Keys, value : Value, step : Steps]
    BY DEF NoCall, Keys, Flags, Value, Steps
  <2>2. call' \in [Callers -> [key : Keys, value : Value, step : Steps]]
    BY <1>1, <2>1 DEF IInv, CallInv
  <2>3. NoCall.value \in Values(NoCall.key) /\ NoCall.step = "none"
    BY DEF NoCall, Values, Flags
  <2> QED
    BY <1>2, <2>2, <2>3 DEF IInv, CallInv
<1>6. k \notin clash => (k \in unread \/ Has(k, v)) /\ mem[k] = Held(k, v)
  BY <1>1, <1>2, <1>3 DEF IInv, StepInv, Progress
<1>7. k = "cecEnabled" /\ k \notin clash /\ cecEnableStatus = TRUE => mem[k] = TRUE
  BY <1>1, <1>3 DEF IInv, StatusInv
<1> HIDE DEF k, v
<1>8. /\ Partial(owed)'
      /\ k \in clash => owed' = owed
      /\ k \notin clash =>
            /\ DOMAIN owed' \subseteq DOMAIN owed \cup {k}
            /\ k \in DOMAIN owed' => k \notin unread /\ owed'[k] = v
            /\ \A x \in DOMAIN owed' : x # k => owed'[x] = owed[x]
  <2>1. Partial(owed)
    BY DEF IInv, DataInv
  <2>2. CASE k \in clash
    BY <1>1, <2>1, <2>2 DEF Partial
  <2>4. CASE k \notin clash /\ k \in unread
    <3>1. owed' = Only(owed, Keys \ {k})
      BY <1>1, <2>4
    <3>2. /\ Partial(Only(owed, Keys \ {k}))
          /\ DOMAIN Only(owed, Keys \ {k}) = DOMAIN owed \cap (Keys \ {k})
          /\ \A x \in DOMAIN owed \cap (Keys \ {k}) : Only(owed, Keys \ {k})[x] = owed[x]
      BY <2>1, OnlyFacts
    <3> QED
      BY <2>4, <3>1, <3>2 DEF Partial
  <2>3. CASE k \notin clash /\ k \notin unread
    <3>1. owed' = Put(owed, k, v)
      BY <1>1, <2>3
    <3>2. /\ Partial(Put(owed, k, v)) /\ DOMAIN Put(owed, k, v) = DOMAIN owed \cup {k}
          /\ Put(owed, k, v)[k] = v
          /\ \A x \in DOMAIN owed : x # k => Put(owed, k, v)[x] = owed[x]
      BY <1>2, <2>1, PutFacts
    <3> QED
      BY <2>3, <3>1, <3>2 DEF Partial
  <2> QED
    BY <2>2, <2>3, <2>4
<1>9. DataInv'
  BY <1>1, <1>8 DEF IInv, DataInv, Partial
<1>10. LifeInv'
  <2>1. \A d \in Callers : Working(d, "cecVendorId") /\ call[d].step = "persist"
           => Working(d, "cecVendorId")' /\ call'[d].step = "persist"
    BY <1>1, <1>2, <1>3
  <2> QED
    BY <1>1, <1>2, <2>1 DEF IInv, LifeInv
<1>11. AloneInv'
  BY <1>1, <1>3, <1>8 DEF IInv, AloneInv
<1>12. StepInv'
  <2>1. \A d \in Callers : call'[d].step \in {"persist", "store"} => call'[d].key \notin unread'
    BY <1>1, <1>2 DEF IInv, StepInv, NoCall
  <2>2. ASSUME NEW d \in Callers, NEW x \in Keys \ clash, Working(d, x)'
        PROVE  Progress(d, x)'
    <3>1. Working(d, x) /\ call'[d] = call[d]
      BY <1>2, <1>3, <2>2
    <3>2. Progress(d, x)
      BY <2>2, <3>1 DEF IInv, StepInv
    <3> QED
      BY <1>1, <3>1, <3>2 DEF Progress, Has
  <2> QED
    BY <1>1, <2>1, <2>2 DEF StepInv
<1>13. MatchInv'
  BY <1>1, <1>2, <1>4, <1>6 DEF IInv, MatchInv, Has
<1>14. OwedInv'
  <2> SUFFICES ASSUME NEW x \in DOMAIN owed', ~Busy(x)'
               PROVE  x \in DOMAIN file /\ file[x] = owed'[x]
    BY <1>1, <1>2 DEF OwedInv
  <2>1. CASE k \in clash
    <3>1. x \in DOMAIN owed /\ owed'[x] = owed[x] /\ x # k
      BY <1>8, <2>1 DEF IInv, AloneInv
    <3> QED
      BY <1>2, <1>4, <3>1 DEF IInv, OwedInv
  <2>2. CASE k \notin clash
    <3>1. CASE x = k
      BY <1>2, <1>6, <1>8, <2>2, <3>1 DEF Has
    <3>2. CASE x # k
      <4>1. x \in DOMAIN owed /\ owed'[x] = owed[x]
        BY <1>8, <2>2, <3>2
      <4> QED
        BY <1>2, <1>4, <3>2, <4>1 DEF IInv, OwedInv
    <3> QED
      BY <3>1, <3>2
  <2> QED
    BY <2>1, <2>2
<1>15. StatusInv'
  BY <1>1, <1>2, <1>3, <1>4, <1>7 DEF IInv, StatusInv
<1> QED
  BY <1>5, <1>9, <1>10, <1>11, <1>12, <1>13, <1>14, <1>15 DEF IInv

-------------------------------------------------------------------------------
\* No overlap of setters and no end of the process leaves the invariant.
THEOREM Invariant == Spec => []IInv
<1>1. IInv /\ [Next]_vars => IInv'
  <2> SUFFICES ASSUME IInv, [Next]_vars PROVE IInv'
    OBVIOUS
  <2>1. CASE Load
    BY <2>1, LoadKeeps
  <2>2. CASE LoadNothing
    BY <2>2, LoadNothingKeeps
  <2>3. CASE Destroy \/ Create \/ ToFile
    BY <2>3, RewriteKeeps
  <2>4. CASE Configure
    BY <2>4, ConfigureKeeps
  <2>5. ASSUME NEW c \in Callers, Setter(c) PROVE IInv'
    <3>1. CASE \E on \in BOOLEAN : SetEnabled(c, on) \/ SetOTPEnabled(c, on)
      <4>1. PICK on \in BOOLEAN : Begin(c, "cecEnabled", on) \/ Begin(c, "cecOTPEnabled", on)
        BY <3>1 DEF SetEnabled, SetOTPEnabled
      <4>2. /\ "cecEnabled" \in Keys /\ on \in Values("cecEnabled")
            /\ "cecOTPEnabled" \in Keys /\ on \in Values("cecOTPEnabled")
        BY DEF Keys, Flags, Values
      <4> QED
        BY <4>1, <4>2, BeginKeeps
    <3>2. CASE \E name \in OSDNames : SetOSDName(c, name)
      <4>1. PICK name \in OSDNames : Begin(c, "cecOSDName", name)
        BY <3>2 DEF SetOSDName
      <4>2. "cecOSDName" \in Keys /\ name \in Values("cecOSDName")
        BY DEF Keys, Flags, Values
      <4> QED
        BY <4>1, <4>2, BeginKeeps
    <3>3. CASE \E v \in VendorIds \cup {Invalid} : SetVendorId(c, v)
      <4>1. PICK v \in VendorIds : Begin(c, "cecVendorId", v)
        BY <3>3, DefaultAssumption DEF SetVendorId, Parse
      <4>2. "cecVendorId" \in Keys /\ v \in Values("cecVendorId")
        BY DEF Keys, Flags, Values
      <4> QED
        BY <4>1, <4>2, BeginKeeps
    <3>4. CASE Persist(c)
      BY <3>4, PersistKeeps
    <3>5. CASE Store(c)
      BY <3>5, StoreKeeps
    <3>6. CASE Switch(c)
      BY <3>6, SwitchKeeps
    <3>7. CASE Return(c)
      BY <3>7, ReturnKeeps
    <3> HIDE DEF IInv
    <3> QED
      BY <2>5, <3>1, <3>2, <3>3, <3>4, <3>5, <3>6, <3>7 DEF Setter
  <2>6. CASE Deactivate
    BY <2>6, DeactivateKeeps
  <2>7. CASE ProcessEnds
    BY <2>7, ProcessEndsKeeps
  <2>9. CASE ConfigureWithoutIARM
    BY <2>9, WithoutIARMKeeps
  <2>8. CASE UNCHANGED vars
    BY <2>8 DEF vars, disk, history, IInv, DataInv, Partial, CallInv, LifeInv, AloneInv, StepInv,
                MatchInv, OwedInv, StatusInv, Busy, Working, Progress, Has
  <2> QED
    BY <2>1, <2>2, <2>3, <2>4, <2>5, <2>6, <2>7, <2>8, <2>9 DEF Next
<1> QED
  BY <1>1, InitIInv, PTL DEF Spec

\* The variables keep their types; a vendor ID in memory has three bytes.
THEOREM TypeCorrect == Spec => []TypeOK
<1>1. IInv => TypeOK
  <2> SUFFICES ASSUME IInv PROVE TypeOK
    OBVIOUS
  <2>1. /\ \A k \in Flags : mem[k] \in BOOLEAN
        /\ mem["cecOSDName"] \in OSDNames /\ mem["cecVendorId"] \in 0 .. VendorLimit - 1
    BY DEF IInv, DataInv, HeldValues, Values, Keys, Flags
  <2>2. /\ \A f \in {file, parameters, owed} :
              DOMAIN f \subseteq Keys /\ \A k \in DOMAIN f : f[k] \in Values(k)
    BY DEF IInv, DataInv, Partial
  <2>3. \A c \in Callers : /\ call[c].key \in Keys /\ call[c].value \in Values(call[c].key)
                           /\ call[c].step \in {"none", "persist", "store", "switch", "return"}
    BY DEF IInv, CallInv, Steps
  <2> QED
    BY <2>1, <2>2, <2>3 DEF IInv, DataInv, Lives, TypeOK
<1> QED
  BY <1>1, Invariant, PTL

\* Without an overlap on a key the file has what memory has, but for what memory has
\* from the constructor alone.
THEOREM FileIsMemory == Spec => []FileMatchesMemory
<1>1. IInv => FileMatchesMemory
  BY DEF IInv, MatchInv, FileMatchesMemory
<1> QED
  BY <1>1, Invariant, PTL

\* What a setter has acknowledged outlives the object and the process, in the file and
\* wherever memory was read.
THEOREM AcknowledgedStays == Spec => []Durable
<1>1. IInv => Durable
  <2> SUFFICES ASSUME IInv, life = "up", NEW k \in DOMAIN owed, ~Busy(k)
               PROVE  /\ k \in DOMAIN file /\ file[k] = owed[k]
                      /\ k \in unread \/ mem[k] = Held(k, owed[k])
    BY DEF Durable
  <2>1. k \in DOMAIN file /\ file[k] = owed[k] /\ k \in Keys \ clash
    BY DEF IInv, OwedInv, AloneInv, DataInv, Partial
  <2> QED
    BY <2>1 DEF IInv, MatchInv
<1> QED
  BY <1>1, Invariant, PTL

\* CEC that is on is on after the next start.
THEOREM OnIsSet == Spec => []OnOnlyIfSet
<1>1. IInv => OnOnlyIfSet
  <2>1. IInv => cecEnableStatus \in BOOLEAN
    BY DEF IInv, DataInv
  <2> QED
    BY <2>1 DEF IInv, StatusInv, OnOnlyIfSet
<1> QED
  BY <1>1, Invariant, PTL
===============================================================================

------------------------------ MODULE CecSettings ------------------------------
(***************************************************************************)
(* The settings, in memory and in the file: loadSettings with its rewrite  *)
(* of an incomplete file, SetEnabled, SetOTPEnabled, SetOSDName and        *)
(* SetVendorId by several callers at once, the destructor, and the end of  *)
(* the process at any point.  The flags are members of the object; the     *)
(* name and the vendor ID are variables of the process, which outlive it.  *)
(*                                                                         *)
(* Utils::persistJsonSettings is not in the repository: it is one step     *)
(* that sets one key of the file.  CECEnable and CECDisable are one step,  *)
(* for CecThreads and KeySender have their parts.  The file is removed     *)
(* only by the code itself.                                                *)
(*                                                                         *)
(* Configure reads the settings only if the IARM bus is there; without it  *)
(* the object comes up all the same, with what its constructor gave it.    *)
(***************************************************************************)
EXTENDS Integers

CONSTANTS
    Callers,        \* clients of the four setters
    OSDNames,       \* the names a client may set
    VendorIds,      \* the numbers a client may pass as vendor ID
    VendorLimit,    \* 2^24 in the code: the three bytes of appVendorId
    defaultOSDName, defaultVendorId,
    Invalid         \* a vendor ID that is not a number

ASSUME VendorAssumption == VendorLimit \in Nat \ {0} /\ VendorIds \subseteq Nat
ASSUME DefaultAssumption == /\ defaultVendorId \in VendorIds \cap 0 .. VendorLimit - 1
                            /\ defaultOSDName \in OSDNames /\ Invalid \notin VendorIds

VARIABLES
    exists, file,           \* is there a file, and the keys and values it has
    mem,                    \* cecSettingEnabled, cecOTPSettingEnabled, osdName, appVendorId
    cecEnableStatus,
    life,                   \* where the object is in its life
    parameters,             \* what loadSettings is going to write
    call,                   \* per caller: the setter in progress
    clash,                  \* history: keys that two setters worked on at once
    unread,                 \* history: keys whose value in memory neither loadSettings
                            \* nor a setter has put there
    owed                    \* history: the keys and values that setters have acknowledged

disk == <<exists, file>>
history == <<clash, unread, owed>>
vars == <<disk, mem, cecEnableStatus, life, parameters, call, history>>

Flags == {"cecEnabled", "cecOTPEnabled"}
Keys == Flags \cup {"cecOSDName", "cecVendorId"}

Values(k) == IF k \in Flags THEN BOOLEAN ELSE IF k = "cecOSDName" THEN OSDNames ELSE VendorIds

\* The object holds three bytes of a vendor ID.
Held(k, v) == IF k = "cecVendorId" THEN v % VendorLimit ELSE v

Statics == [k \in Keys |-> IF k \in Flags THEN FALSE
                           ELSE IF k = "cecOSDName" THEN defaultOSDName ELSE defaultVendorId]

NoCall == [key |-> "cecEnabled", value |-> FALSE, step |-> "none"]

\* A file, or what is owed, is a function on the keys that it has.
Put(f, k, v) == [x \in DOMAIN f \cup {k} |-> IF x = k THEN v ELSE f[x]]
Only(f, S) == [x \in DOMAIN f \cap S |-> f[x]]
Nothing == Only(Statics, {})

Working(c, k) == call[c].step # "none" /\ call[c].key = k
Busy(k) == \E c \in Callers : Working(c, k)

\* The file may be that of an older version, which knows fewer keys.
Init ==
    /\ \E labels \in SUBSET Keys, on, otp \in BOOLEAN, name \in OSDNames, id \in VendorIds :
          file = [k \in labels |-> CASE k = "cecEnabled" -> on
                                     [] k = "cecOTPEnabled" -> otp
                                     [] k = "cecOSDName" -> name
                                     [] k = "cecVendorId" -> id]
    /\ exists = (file # Nothing)
    /\ mem = Statics
    /\ cecEnableStatus = FALSE
    /\ life = "down"
    /\ parameters = Nothing
    /\ call = [c \in Callers |-> NoCall]
    /\ clash = {}
    /\ unread = Keys
    /\ owed = file

-------------------------------------------------------------------------------
(* loadSettings and Configure *)

\* A missing key: the flags are on, the name is that of the process, the vendor
\* ID the default.
Default(k) == IF k \in Flags THEN TRUE
              ELSE IF k = "cecOSDName" THEN mem[k] ELSE defaultVendorId

Read == [k \in Keys |-> IF k \in DOMAIN file THEN file[k] ELSE Default(k)]

\* Seeded fault: a missing key does not set isConfigAdded.
LoadForgetsRewrite ==
    /\ life = "down"
    /\ exists
    /\ mem' = [k \in Keys |-> Held(k, Read[k])]
    /\ parameters' = Nothing
    /\ life' = "configure"
    /\ clash' = {} /\ unread' = {}
    /\ UNCHANGED <<disk, cecEnableStatus, call, owed>>

\* The constructor, and loadSettings with a file.
Load ==
    /\ life = "down"
    /\ exists
    /\ mem' = [k \in Keys |-> Held(k, Read[k])]
    /\ IF DOMAIN file = Keys THEN life' = "configure" /\ UNCHANGED parameters
       ELSE life' = "destroy" /\ parameters' = Read
    /\ clash' = {} /\ unread' = {}
    /\ UNCHANGED <<disk, cecEnableStatus, call, owed>>

\* Without a file appVendorId keeps what it has.
LoadNothing ==
    /\ life = "down"
    /\ ~exists
    /\ mem' = [k \in Keys |-> IF k \in Flags THEN TRUE ELSE mem[k]]
    /\ parameters' = Read
    /\ life' = "create"
    /\ clash' = {} /\ unread' = {}
    /\ UNCHANGED <<disk, cecEnableStatus, call, owed>>

Destroy ==
    /\ life = "destroy"
    /\ exists' = FALSE /\ file' = Nothing
    /\ life' = "create"
    /\ UNCHANGED <<mem, cecEnableStatus, parameters, call, history>>

Create ==
    /\ life = "create"
    /\ exists' = TRUE
    /\ life' = "write"
    /\ UNCHANGED <<file, mem, cecEnableStatus, parameters, call, history>>

ToFile ==
    /\ life = "write"
    /\ file' = parameters
    /\ parameters' = Nothing
    /\ life' = "configure"
    /\ UNCHANGED <<exists, mem, cecEnableStatus, call, history>>

\* Without the IARM bus Configure skips all this and reports success: the flags are
\* off, the name and the vendor ID are what the process has.
ConfigureWithoutIARM ==
    /\ life = "down"
    /\ life' = "up"
    /\ UNCHANGED <<disk, mem, cecEnableStatus, parameters, call, history>>

\* CECEnable may fail; the caller does not look.
CECEnable == cecEnableStatus' \in {TRUE, cecEnableStatus}

\* Seeded fault: CEC is enabled whatever the setting says.
ConfigureAlways ==
    /\ life = "configure"
    /\ CECEnable
    /\ life' = "up"
    /\ UNCHANGED <<disk, mem, parameters, call, history>>

Configure ==
    /\ life = "configure"
    /\ IF mem["cecEnabled"] THEN CECEnable ELSE UNCHANGED cecEnableStatus
    /\ life' = "up"
    /\ UNCHANGED <<disk, mem, parameters, call, history>>

-------------------------------------------------------------------------------
(* The setters, in the steps another caller can come between. *)

\* SetEnabled and SetOTPEnabled write only a value that differs.
FirstStep(k, v) == IF k \notin Flags THEN "store"
                   ELSE IF mem[k] # v THEN "persist"
                   ELSE IF k = "cecEnabled" THEN "switch" ELSE "return"

\* A vendor ID that is no number stands for the default; an empty one is refused.
Parse(v) == IF v = Invalid THEN defaultVendorId ELSE v

\* A setter that writes always repairs what an overlap before it has left.
Begin(c, k, v) ==
    /\ life = "up"
    /\ call[c].step = "none"
    /\ call' = [call EXCEPT ![c] = [key |-> k, value |-> v, step |-> FirstStep(k, v)]]
    /\ clash' = IF Busy(k) THEN clash \cup {k}
                ELSE IF k \in Flags THEN clash ELSE clash \ {k}
    /\ unread' = IF FirstStep(k, v) \in {"switch", "return"} THEN unread ELSE unread \ {k}
    /\ owed' = IF Busy(k) THEN Only(owed, Keys \ {k}) ELSE owed
    /\ UNCHANGED <<disk, mem, cecEnableStatus, life, parameters>>

StepTo(c, s) == call' = [call EXCEPT ![c].step = s]

Persist(c) ==
    /\ call[c].step = "persist"
    /\ LET k == call[c].key IN
          /\ file' = Put(file, k, call[c].value)
          /\ exists' = TRUE
          /\ StepTo(c, IF k \in Flags THEN "store" ELSE "return")
    /\ UNCHANGED <<mem, cecEnableStatus, life, parameters, history>>

\* Seeded fault: the bytes of the vendor ID are not cut to eight bits.
StoreUnmasked(c) ==
    /\ call[c].step = "store"
    /\ LET k == call[c].key IN
          /\ mem' = [mem EXCEPT ![k] = call[c].value]
          /\ StepTo(c, IF k \notin Flags THEN "persist"
                       ELSE IF k = "cecEnabled" THEN "switch" ELSE "return")
    /\ UNCHANGED <<disk, cecEnableStatus, life, parameters, history>>

Store(c) ==
    /\ call[c].step = "store"
    /\ LET k == call[c].key IN
          /\ mem' = [mem EXCEPT ![k] = Held(k, call[c].value)]
          /\ StepTo(c, IF k \notin Flags THEN "persist"
                       ELSE IF k = "cecEnabled" THEN "switch" ELSE "return")
    /\ UNCHANGED <<disk, cecEnableStatus, life, parameters, history>>

\* setEnabledInternal switches CEC whether the setting changed or not.
Switch(c) ==
    /\ call[c].step = "switch"
    /\ IF call[c].value THEN CECEnable ELSE cecEnableStatus' = FALSE
    /\ StepTo(c, "return")
    /\ UNCHANGED <<disk, mem, life, parameters, history>>

\* A value that was already in memory is acknowledged, but nothing is owed for it if
\* memory has it from the constructor: it was not written.
Return(c) ==
    /\ call[c].step = "return"
    /\ call' = [call EXCEPT ![c] = NoCall]
    /\ LET k == call[c].key IN
          owed' = IF k \in clash THEN owed
                  ELSE IF k \in unread THEN Only(owed, Keys \ {k})
                  ELSE Put(owed, k, call[c].value)
    /\ UNCHANGED <<disk, mem, cecEnableStatus, life, parameters, clash, unread>>

SetEnabled(c, on) == Begin(c, "cecEnabled", on)
SetOTPEnabled(c, on) == Begin(c, "cecOTPEnabled", on)
SetOSDName(c, name) == Begin(c, "cecOSDName", name)
SetVendorId(c, v) == Begin(c, "cecVendorId", Parse(v))

Setter(c) == \/ \E on \in BOOLEAN : SetEnabled(c, on) \/ SetOTPEnabled(c, on)
             \/ \E name \in OSDNames : SetOSDName(c, name)
             \/ \E v \in VendorIds \cup {Invalid} : SetVendorId(c, v)
             \/ Persist(c) \/ Store(c) \/ Switch(c) \/ Return(c)

-------------------------------------------------------------------------------
(* The end of the object and of its process. *)

Idle == \A c \in Callers : call[c].step = "none"

\* Seeded fault: the destructor switches CEC off as a client would.
DeactivatePersists ==
    /\ life = "up" /\ Idle
    /\ cecEnableStatus' = FALSE
    /\ IF cecEnableStatus THEN file' = Put(file, "cecEnabled", FALSE)
                          ELSE UNCHANGED file
    /\ mem' = [k \in Keys |-> IF k \in Flags THEN FALSE ELSE mem[k]]
    /\ life' = "down"
    /\ clash' = clash \ Flags /\ unread' = unread \cup Flags
    /\ UNCHANGED <<exists, parameters, call, owed>>

\* The destructor calls setEnabledInternal(false, false); the flags go with the
\* object.
Deactivate ==
    /\ life = "up" /\ Idle
    /\ cecEnableStatus' = FALSE
    /\ mem' = [k \in Keys |-> IF k \in Flags THEN FALSE ELSE mem[k]]
    /\ life' = "down"
    /\ clash' = clash \ Flags /\ unread' = unread \cup Flags
    /\ UNCHANGED <<disk, parameters, call, owed>>

\* The process ends, at any point.  A setter in progress owes nothing; nor does a
\* start that had destroyed the file and not yet written it.
ProcessEnds ==
    /\ mem' = Statics
    /\ cecEnableStatus' = FALSE
    /\ life' = "down"
    /\ parameters' = Nothing
    /\ call' = [c \in Callers |-> NoCall]
    /\ owed' = IF life \in {"create", "write"} THEN Nothing
               ELSE Only(owed, {k \in Keys : ~Busy(k)})
    /\ clash' = {} /\ unread' = Keys
    /\ UNCHANGED disk

Next == \/ Load \/ LoadNothing \/ Destroy \/ Create \/ ToFile \/ Configure
        \/ ConfigureWithoutIARM
        \/ \E c \in Callers : Setter(c)
        \/ Deactivate \/ ProcessEnds

Spec == Init /\ [][Next]_vars

-------------------------------------------------------------------------------
(* Properties. *)

TypeOK ==
    /\ exists \in BOOLEAN
    /\ \A f \in {file, parameters, owed} :
          DOMAIN f \subseteq Keys /\ \A k \in DOMAIN f : f[k] \in Values(k)
    /\ DOMAIN mem = Keys
    /\ \A k \in Flags : mem[k] \in BOOLEAN
    /\ mem["cecOSDName"] \in OSDNames
    /\ mem["cecVendorId"] \in 0 .. VendorLimit - 1
    /\ cecEnableStatus \in BOOLEAN
    /\ life \in {"down", "destroy", "create", "write", "configure", "up"}
    /\ \A c \in Callers : /\ call[c].key \in Keys
                          /\ call[c].value \in Values(call[c].key)
                          /\ call[c].step \in {"none", "persist", "store", "switch", "return"}
    /\ clash \subseteq Keys /\ unread \subseteq Keys

\* While a client sees the object, and no two setters of one key have overlapped,
\* the file has what memory has: a setter persists what it sets, in either order
\* of the two, and loadSettings writes down each default it has taken.  What memory
\* has from the constructor, because the IARM bus was not there, is not in the file.
FileMatchesMemory ==
    life = "up" => \A k \in Keys \ (clash \cup unread) :
                      Busy(k) \/ (k \in DOMAIN file /\ mem[k] = Held(k, file[k]))

\* What a setter has acknowledged stays in the file, over deactivations, starts with
\* and without the IARM bus, ends of the process at any point and the rewrite of an
\* incomplete file, until a setter of the same key is called again or the process
\* ends while the file is destroyed; and it is in force wherever memory was read.
Durable ==
    life = "up" => \A k \in DOMAIN owed :
                      \/ Busy(k)
                      \/ /\ k \in DOMAIN file /\ file[k] = owed[k]
                         /\ k \in unread \/ mem[k] = Held(k, owed[k])

\* CEC is on only if the setting is: no start and no sequence of calls leaves CEC
\* on that the next start would not switch on.
OnOnlyIfSet ==
    /\ ~Busy("cecEnabled") /\ "cecEnabled" \notin clash /\ cecEnableStatus
          => mem["cecEnabled"]
===============================================================================

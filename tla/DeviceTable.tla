------------------------------ MODULE DeviceTable ------------------------------
(***************************************************************************)
(* What the device table promises its clients: a change at an address is   *)
(* told before the next one is made there, so a client that follows        *)
(* OnDeviceAdded and OnDeviceRemoved never misses one and never hears of   *)
(* one that is not.  The promise is suspended at an address where two      *)
(* threads race, until one changes it alone and tells of it.               *)
(***************************************************************************)
CONSTANT Addrs  \* the addresses a device can have

VARIABLES
    table,  \* the devices that are present
    known,  \* the devices clients have been told of
    raced   \* the addresses for which nothing is promised

Init == table = {} /\ known = {} /\ raced = {}

Agree(a) == (a \in known) = (a \in table)

Change(a) ==
    /\ a \in raced \/ Agree(a)
    /\ table' \in {table \cup {a}, table \ {a}}
    /\ UNCHANGED <<known, raced>>

Tell(a) ==
    /\ known' \in {known \cup {a}, known \ {a}}
    /\ raced' \in {raced, raced \ {a}}
    /\ a \in raced' \/ Agree(a)'
    /\ UNCHANGED table

Race(a) ==
    /\ raced' = raced \cup {a}
    /\ UNCHANGED <<table, known>>

Next == \E a \in Addrs : Change(a) \/ Tell(a) \/ Race(a)

Spec == Init /\ [][Next]_<<table, known, raced>>
===============================================================================

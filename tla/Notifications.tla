----------------------------- MODULE Notifications -----------------------------
(***************************************************************************)
(* _hdmiCecSourceNotifications: clients register and unregister under      *)
(* _adminLock, while threads of the plugin tell them of events.  Devices   *)
(* that come and go (addDevice, removeDevice) are told from a copy of the  *)
(* list whose members carry a reference; the five other events walk the    *)
(* list itself, without the lock.                                          *)
(*                                                                         *)
(* What is done under the lock is one step.  The lock is not held during a *)
(* call, so a client may register and unregister from inside one: that is  *)
(* among the steps of the clients.  A client is an object that counts its  *)
(* references; it is gone when nobody holds one.  A walk whose place is    *)
(* erased goes on in freed memory: it is lost, and if it gets out at all   *)
(* nothing is said of whom it has told.  The exception of a client is      *)
(* caught in the loop over a copy; a walk it ends.  It goes on to the      *)
(* caller of the event, which is not modelled: if its thread lives, it may *)
(* send another.                                                           *)
(***************************************************************************)
EXTENDS Integers, Sequences, SequencesExt

CONSTANTS
    Clients,    \* implementations of INotification
    Tellers,    \* threads of the plugin that send events
    List        \* the holder of references that is the list itself

ASSUME HolderAssumption == List \notin Tellers

VARIABLES
    _hdmiCecSourceNotifications,    \* the registered clients, in order
    owned,      \* the clients whose owner keeps a reference
    refs,       \* the references on a client, by holder
    state,      \* per teller: what it is doing
    index,      \* per teller: its place in a walk over the list
    notifyList, \* per teller: its copy of the list, less the clients it is done with
    due,        \* history, per teller: clients registered ever since its event began
    told        \* history, per teller: clients called for its event and registered since

event == <<state, index, notifyList>>
vars == <<_hdmiCecSourceNotifications, owned, refs, event, due, told>>

Registered == Range(_hdmiCecSourceNotifications)
Holders == Tellers \cup {List}
Alive(c) == c \in owned \/ \E h \in Holders : refs[c][h] > 0

AddRef(c, h) == refs' = [refs EXCEPT ![c][h] = @ + 1]
Release(c, h) == refs' = [refs EXCEPT ![c][h] = @ - 1]
Enter(t, s) == state' = [state EXCEPT ![t] = s]

Init ==
    /\ _hdmiCecSourceNotifications = <<>>
    /\ owned = Clients
    /\ refs = [c \in Clients |-> [h \in Holders |-> 0]]
    /\ state = [t \in Tellers |-> "idle"]
    /\ index = [t \in Tellers |-> 1]
    /\ notifyList = [t \in Tellers |-> <<>>]
    /\ due = [t \in Tellers |-> {}]
    /\ told = [t \in Tellers |-> {}]

-------------------------------------------------------------------------------
(* The clients.  A second registration, and an unregistration of a client   *)
(* that is not registered, change nothing.                                  *)

\* Seeded fault: a client that is registered already is registered again.
RegisterAgain(c) ==
    /\ c \in owned
    /\ Len(_hdmiCecSourceNotifications) < 3
    /\ _hdmiCecSourceNotifications' = Append(_hdmiCecSourceNotifications, c)
    /\ AddRef(c, List)
    /\ UNCHANGED <<owned, event, due, told>>

Register(c) ==
    /\ c \in owned
    /\ c \notin Registered
    /\ _hdmiCecSourceNotifications' = Append(_hdmiCecSourceNotifications, c)
    /\ AddRef(c, List)
    /\ UNCHANGED <<owned, event, due, told>>

Walking(t) == state[t] \in {"walk", "inside"}
Place(c) == CHOOSE i \in DOMAIN _hdmiCecSourceNotifications : _hdmiCecSourceNotifications[i] = c
LostBy(t, c) == Walking(t) /\ index[t] = Place(c)

Forget(c) == /\ due' = [t \in Tellers |-> due[t] \ {c}]
             /\ told' = [t \in Tellers |-> told[t] \ {c}]

\* Seeded fault: a place in the list is a number, as in an array.
UnregisterIndexed(c) ==
    /\ c \in owned
    /\ c \in Registered
    /\ _hdmiCecSourceNotifications' = RemoveAt(_hdmiCecSourceNotifications, Place(c))
    /\ Release(c, List)
    /\ Forget(c)
    /\ UNCHANGED <<owned, event>>

\* The list is linked: a walk keeps its place, unless that is what is erased.
Unregister(c) ==
    /\ c \in owned
    /\ c \in Registered
    /\ _hdmiCecSourceNotifications' = RemoveAt(_hdmiCecSourceNotifications, Place(c))
    /\ Release(c, List)
    /\ state' = [t \in Tellers |-> IF LostBy(t, c) THEN "lost" ELSE state[t]]
    /\ index' = [t \in Tellers |-> IF LostBy(t, c) THEN 1
                                   ELSE IF Walking(t) /\ index[t] > Place(c) THEN index[t] - 1
                                   ELSE index[t]]
    /\ Forget(c)
    /\ UNCHANGED <<owned, notifyList>>

\* The owner of a client lets it go, which does not unregister it.
Drop(c) ==
    /\ c \in owned
    /\ owned' = owned \ {c}
    /\ UNCHANGED <<_hdmiCecSourceNotifications, refs, event, due, told>>

\* A new client, perhaps where the last one was.
Make(c) ==
    /\ ~Alive(c)
    /\ owned' = owned \cup {c}
    /\ UNCHANGED <<_hdmiCecSourceNotifications, refs, event, due, told>>

Begin(t, s) ==
    /\ state[t] = "idle"
    /\ Enter(t, s)
    /\ due' = [due EXCEPT ![t] = Registered]
    /\ UNCHANGED told

End(t) ==
    /\ Enter(t, "idle")
    /\ due' = [due EXCEPT ![t] = {}]
    /\ told' = [told EXCEPT ![t] = {}]

-------------------------------------------------------------------------------
(* addDevice and removeDevice *)

\* Seeded fault: the copy carries no references of its own.
CopyOnly(t) ==
    /\ Begin(t, "copied")
    /\ notifyList' = [notifyList EXCEPT ![t] = _hdmiCecSourceNotifications]
    /\ UNCHANGED <<_hdmiCecSourceNotifications, owned, refs, index>>

Copy(t) ==
    /\ Begin(t, "copied")
    /\ notifyList' = [notifyList EXCEPT ![t] = _hdmiCecSourceNotifications]
    /\ refs' = [c \in Clients |-> IF c \in Registered THEN [refs[c] EXCEPT ![t] = @ + 1]
                                  ELSE refs[c]]
    /\ UNCHANGED <<_hdmiCecSourceNotifications, owned, index>>

Call(t) ==
    /\ state[t] = "copied"
    /\ notifyList[t] # <<>>
    /\ told' = [told EXCEPT ![t] = @ \cup {Head(notifyList[t])}]
    /\ Enter(t, "called")
    /\ UNCHANGED <<_hdmiCecSourceNotifications, owned, refs, index, notifyList, due>>

\* Seeded fault: an exception of the call ends the loop.
CallReturnsLast(t) ==
    /\ state[t] = "called"
    /\ Release(Head(notifyList[t]), t)
    /\ notifyList' = [notifyList EXCEPT ![t] = <<>>]
    /\ Enter(t, "copied")
    /\ UNCHANGED <<_hdmiCecSourceNotifications, owned, index, due, told>>

\* An exception of the call is caught: the reference is released all the same.
CallReturns(t) ==
    /\ state[t] = "called"
    /\ Release(Head(notifyList[t]), t)
    /\ notifyList' = [notifyList EXCEPT ![t] = Tail(@)]
    /\ Enter(t, "copied")
    /\ UNCHANGED <<_hdmiCecSourceNotifications, owned, index, due, told>>

CopyDone(t) ==
    /\ state[t] = "copied"
    /\ notifyList[t] = <<>>
    /\ End(t)
    /\ UNCHANGED <<_hdmiCecSourceNotifications, owned, refs, index, notifyList>>

-------------------------------------------------------------------------------
(* sendDeviceUpdateInfo, sendActiveSourceEvent, SendStandbyMsgEvent,        *)
(* SendKeyReleaseMsgEvent and SendKeyPressMsgEvent                          *)

WalkBegin(t) ==
    /\ Begin(t, "walk")
    /\ index' = [index EXCEPT ![t] = 1]
    /\ UNCHANGED <<_hdmiCecSourceNotifications, owned, refs, notifyList>>

WalkCall(t) ==
    /\ state[t] = "walk"
    /\ index[t] \in DOMAIN _hdmiCecSourceNotifications
    /\ told' = [told EXCEPT ![t] = @ \cup {_hdmiCecSourceNotifications[index[t]]}]
    /\ Enter(t, "inside")
    /\ UNCHANGED <<_hdmiCecSourceNotifications, owned, refs, index, notifyList, due>>

WalkReturns(t) ==
    /\ state[t] = "inside"
    /\ index' = [index EXCEPT ![t] = @ + 1]
    /\ Enter(t, "walk")
    /\ UNCHANGED <<_hdmiCecSourceNotifications, owned, refs, notifyList, due, told>>

\* The exception of a client leaves the loop: those behind it are not told.
WalkThrows(t) ==
    /\ state[t] = "inside"
    /\ End(t)
    /\ index' = [index EXCEPT ![t] = 1]
    /\ UNCHANGED <<_hdmiCecSourceNotifications, owned, refs, notifyList>>

WalkDone(t) ==
    /\ state[t] = "walk"
    /\ index[t] \notin DOMAIN _hdmiCecSourceNotifications
    /\ End(t)
    /\ index' = [index EXCEPT ![t] = 1]
    /\ UNCHANGED <<_hdmiCecSourceNotifications, owned, refs, notifyList>>

\* In freed memory a walk may find its way out; whom it tells is not said.
WalkAstray(t) ==
    /\ state[t] = "lost"
    /\ End(t)
    /\ UNCHANGED <<_hdmiCecSourceNotifications, owned, refs, index, notifyList>>

-------------------------------------------------------------------------------
Client(c) == Register(c) \/ Unregister(c) \/ Drop(c) \/ Make(c)

Teller(t) == \/ Copy(t) \/ Call(t) \/ CallReturns(t) \/ CopyDone(t)
             \/ WalkBegin(t) \/ WalkCall(t) \/ WalkReturns(t) \/ WalkThrows(t)
             \/ WalkDone(t) \/ WalkAstray(t)

Next == (\E c \in Clients : Client(c)) \/ (\E t \in Tellers : Teller(t))

Spec == Init /\ [][Next]_vars

-------------------------------------------------------------------------------
(* Properties. *)

States == {"idle", "copied", "called", "walk", "inside", "lost"}

TypeOK ==
    /\ _hdmiCecSourceNotifications \in Seq(Clients)
    /\ owned \subseteq Clients
    /\ refs \in [Clients -> [Holders -> Int]]
    /\ state \in [Tellers -> States]
    /\ index \in [Tellers -> Nat \ {0}]
    /\ \A t \in Tellers : /\ Walking(t) => index[t] <= Len(_hdmiCecSourceNotifications) + 1
                          /\ state[t] = "inside"
                                => index[t] \in DOMAIN _hdmiCecSourceNotifications
    /\ notifyList \in [Tellers -> Seq(Clients)]
    /\ due \in [Tellers -> SUBSET Clients]
    /\ told \in [Tellers -> SUBSET Clients]

\* The list holds one reference on each client that is registered, and a thread
\* one on each client of its copy: however registrations and events overlap, none
\* is lost and none is left over.
ReferencesBalanced ==
    \A c \in Clients :
        /\ refs[c][List] = IF c \in Registered THEN 1 ELSE 0
        /\ \A t \in Tellers : refs[c][t] = IF c \in Range(notifyList[t]) THEN 1 ELSE 0

\* No thread is inside a client that is gone, even if the client unregistered and
\* its owner let it go since the event began; but for the walks that are lost.
CalledAlive ==
    \A t \in Tellers :
        /\ state[t] = "called" => Alive(Head(notifyList[t]))
        /\ state[t] = "inside" => Alive(_hdmiCecSourceNotifications[index[t]])

\* The clients that a walk which is inside one of them has still to tell.
Behind(t) == {_hdmiCecSourceNotifications[i] :
                 i \in {j \in DOMAIN _hdmiCecSourceNotifications : j > index[t]}}

\* An event tells each client that was registered from its beginning to its end
\* once, and none again, whoever registers and unregisters meanwhile.  That holds
\* to the end of every event that is told from a copy, whatever clients throw.  A
\* walk may be lost; or a client throws, which may happen in any call: then those
\* behind that client, and no others, are the ones that were left out.
EveryClientOnce ==
    \A t \in Tellers :
        /\ state[t] = "copied" => /\ notifyList[t] = <<>> => due[t] \subseteq told[t]
                                  /\ notifyList[t] # <<>> => Head(notifyList[t]) \notin told[t]
        /\ state[t] = "walk" =>
              IF index[t] \in DOMAIN _hdmiCecSourceNotifications
              THEN _hdmiCecSourceNotifications[index[t]] \notin told[t]
              ELSE due[t] \subseteq told[t]
        /\ state[t] = "inside" => /\ due[t] \subseteq told[t] \cup Behind(t)
                                  /\ told[t] \cap Behind(t) = {}
===============================================================================

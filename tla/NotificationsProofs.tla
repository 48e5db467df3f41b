--------------------------- MODULE NotificationsProofs ---------------------------
(***************************************************************************)
(* Proofs about Notifications, for every set of clients and threads: each  *)
(* property that the run checks.                                           *)
(***************************************************************************)
EXTENDS Notifications, SequenceTheorems, TLAPS

AllDifferent(s) == \A i, j \in DOMAIN s : s[i] = s[j] => i = j

\* TypeOK in four parts.
DataInv ==
    /\ _hdmiCecSourceNotifications \in Seq(Clients) /\ owned \subseteq Clients
    /\ state \in [Tellers -> States] /\ notifyList \in [Tellers -> Seq(Clients)]

RefsInv == refs \in [Clients -> [Holders -> Int]]

HistoryInv == due \in [Tellers -> SUBSET Clients] /\ told \in [Tellers -> SUBSET Clients]

IndexInv ==
    /\ index \in [Tellers -> Nat \ {0}]
    /\ \A t \in Tellers :
          /\ state[t] = "walk" => index[t] <= Len(_hdmiCecSourceNotifications) + 1
          /\ state[t] = "inside" => index[t] <= Len(_hdmiCecSourceNotifications)

\* No list names a client twice, and a thread has a copy only while it works on it.
ListInv ==
    /\ AllDifferent(_hdmiCecSourceNotifications)
    /\ \A t \in Tellers :
          /\ AllDifferent(notifyList[t])
          /\ state[t] \notin {"copied", "called"} => notifyList[t] = <<>>
          /\ state[t] = "called" => notifyList[t] # <<>>

\* A thread with a copy has told, or will tell from it, all it owes an event, and
\* will tell nobody again; between the call and its return the head is told.
CopyInv ==
    \A t \in Tellers :
        /\ state[t] = "idle" => due[t] = {} /\ told[t] = {}
        /\ state[t] = "copied" =>
              /\ due[t] \subseteq told[t] \cup Range(notifyList[t])
              /\ told[t] \cap Range(notifyList[t]) = {}
        /\ state[t] = "called" =>
              /\ due[t] \subseteq told[t] \cup Range(Tail(notifyList[t]))
              /\ told[t] \cap Range(Tail(notifyList[t])) = {}

\* The same of a walk, for the places from its own on, or behind it in a call.
First(t) == IF state[t] = "walk" THEN index[t] ELSE index[t] + 1
Ahead(t) == {_hdmiCecSourceNotifications[i] :
                i \in {j \in 1 .. Len(_hdmiCecSourceNotifications) : j >= First(t)}}

WalkInv ==
    \A t \in Tellers : Walking(t) =>
        /\ told[t] \subseteq Registered
        /\ due[t] \subseteq told[t] \cup Ahead(t)
        /\ told[t] \cap Ahead(t) = {}

-------------------------------------------------------------------------------
\* A sequence and its range.
LEMMA RangeFacts ==
  ASSUME NEW q \in Seq(Clients)
  PROVE  /\ DOMAIN q = 1 .. Len(q) /\ Len(q) \in Nat
         /\ Range(q) \subseteq Clients
         /\ \A c : c \in Range(q) <=> \E i \in 1 .. Len(q) : q[i] = c
  BY LenProperties, ElementOfSeq DEF Range

\* A client that is appended is the last of the list.
LEMMA AppendFacts ==
  ASSUME NEW q \in Seq(Clients), NEW c \in Clients
  PROVE  /\ Append(q, c) \in Seq(Clients) /\ Len(Append(q, c)) = Len(q) + 1
         /\ Append(q, c)[Len(q) + 1] = c
         /\ \A i \in 1 .. Len(q) : Append(q, c)[i] = q[i]
         /\ \A d : d \in Range(Append(q, c)) <=> d \in Range(q) \/ d = c
<1>1. /\ Append(q, c) \in Seq(Clients) /\ Len(Append(q, c)) = Len(q) + 1
      /\ Append(q, c)[Len(q) + 1] = c
      /\ \A i \in 1 .. Len(q) : Append(q, c)[i] = q[i]
  BY AppendProperties
<1>2. Len(q) \in Nat
  BY LenProperties
<1>3. ASSUME NEW d PROVE d \in Range(Append(q, c)) <=> d \in Range(q) \/ d = c
  <2>1. d \in Range(Append(q, c)) <=> \E i \in 1 .. Len(q) + 1 : Append(q, c)[i] = d
    BY <1>1, RangeFacts
  <2>2. d \in Range(q) <=> \E i \in 1 .. Len(q) : q[i] = d
    BY RangeFacts
  <2> QED
    BY <1>1, <1>2, <2>1, <2>2
<1> QED
  BY <1>1, <1>3

\* A client that is erased leaves the others in their order.
LEMMA EraseFacts ==
  ASSUME NEW q \in Seq(Clients), NEW p \in 1 .. Len(q), AllDifferent(q)
  PROVE  /\ RemoveAt(q, p) \in Seq(Clients) /\ Len(RemoveAt(q, p)) = Len(q) - 1
         /\ \A i \in 1 .. Len(q) - 1 : RemoveAt(q, p)[i] = IF i < p THEN q[i] ELSE q[i + 1]
         /\ \A d : d \in Range(RemoveAt(q, p)) <=> d \in Range(q) /\ d # q[p]
<1> DEFINE a == SubSeq(q, 1, p - 1)
           b == SubSeq(q, p + 1, Len(q))
           r == RemoveAt(q, p)
<1>0. Len(q) \in Nat /\ p \in Nat /\ 1 <= p /\ p <= Len(q)
  BY LenProperties
<1>1. /\ a \in Seq(Clients) /\ Len(a) = p - 1
      /\ \A i \in 1 .. p - 1 : a[i] = q[i]
  BY <1>0, SMT
<1>2. /\ b \in Seq(Clients) /\ Len(b) = Len(q) - p
      /\ \A i \in 1 .. Len(q) - p : b[i] = q[p + i]
  BY <1>0, SMT
<1>3. r = a \o b
  BY DEF RemoveAt
<1>4. r \in Seq(Clients) /\ Len(r) = Len(q) - 1
  <2>1. r \in Seq(Clients) /\ Len(r) = Len(a) + Len(b)
    <3> HIDE DEF a, b, r
    <3> QED
      BY <1>1, <1>2, <1>3, ConcatProperties
  <2> HIDE DEF a, b, r
  <2> QED
    BY <1>0, <1>1, <1>2, <2>1
<1>5. ASSUME NEW i \in 1 .. Len(q) - 1 PROVE r[i] = IF i < p THEN q[i] ELSE q[i + 1]
  <2> HIDE DEF a, b, r
  <2>1. CASE i < p
    <3>1. i \in 1 .. Len(a)
      BY <1>0, <1>1, <2>1
    <3> QED
      BY <1>1, <1>2, <1>3, <2>1, <3>1
  <2>2. CASE ~(i < p)
    <3>1. /\ i \in Len(a) + 1 .. Len(a) + Len(b) /\ i - Len(a) \in 1 .. Len(q) - p
          /\ p + (i - Len(a)) = i + 1
      BY <1>0, <1>1, <1>2, <2>2
    <3>2. \A j \in 1 .. Len(a) + Len(b) :
             (a \o b)[j] = IF j <= Len(a) THEN a[j] ELSE b[j - Len(a)]
      BY <1>1, <1>2, ConcatProperties
    <3>3. r[i] = b[i - Len(a)]
      BY <1>0, <1>1, <1>2, <1>3, <3>1, <3>2
    <3> QED
      BY <1>2, <2>2, <3>1, <3>3
  <2> QED
    BY <2>1, <2>2
<1>6. ASSUME NEW d PROVE d \in Range(r) <=> d \in Range(q) /\ d # q[p]
  <2> HIDE DEF a, b, r
  <2>1. d \in Range(r) <=> \E i \in 1 .. Len(q) - 1 : r[i] = d
    BY <1>4, RangeFacts
  <2>2. d \in Range(q) <=> \E i \in 1 .. Len(q) : q[i] = d
    BY RangeFacts
  <2>3. DOMAIN q = 1 .. Len(q)
    BY LenProperties
  <2>4. ASSUME NEW i \in 1 .. Len(q) - 1, r[i] = d PROVE d \in Range(q) /\ d # q[p]
    <3>1. CASE i < p
      BY <1>0, <1>5, <2>2, <2>3, <2>4, <3>1 DEF AllDifferent
    <3>2. CASE ~(i < p)
      <4>1. i + 1 \in 1 .. Len(q) /\ i + 1 # p /\ q[i + 1] = d
        BY <1>0, <1>5, <2>4, <3>2
      <4> QED
        BY <2>2, <2>3, <4>1 DEF AllDifferent
    <3> QED
      BY <3>1, <3>2
  <2>5. ASSUME NEW i \in 1 .. Len(q), q[i] = d, d # q[p] PROVE \E j \in 1 .. Len(q) - 1 : r[j] = d
    <3>1. CASE i < p
      <4>1. i \in 1 .. Len(q) - 1 /\ r[i] = d
        BY <1>0, <1>5, <2>5, <3>1
      <4> QED
        BY <4>1
    <3>2. CASE ~(i < p)
      <4>1. i - 1 \in 1 .. Len(q) - 1 /\ ~(i - 1 < p) /\ (i - 1) + 1 = i
        <5>1. i # p
          BY <2>5
        <5> QED
          BY <1>0, <3>2, <5>1
      <4>2. r[i - 1] = d
        BY <1>5, <2>5, <4>1
      <4> QED
        BY <4>1, <4>2
    <3> QED
      BY <3>1, <3>2
  <2> QED
    BY <2>1, <2>2, <2>4, <2>5
<1> QED
  BY <1>4, <1>5, <1>6

\* What is left of a copy when its head has been told.
LEMMA TailFacts ==
  ASSUME NEW q \in Seq(Clients), q # <<>>, AllDifferent(q)
  PROVE  /\ Head(q) = q[1] /\ Head(q) \in Clients /\ Len(q) \in Nat \ {0}
         /\ Tail(q) \in Seq(Clients) /\ Len(Tail(q)) = Len(q) - 1
         /\ \A i \in 1 .. Len(q) - 1 : Tail(q)[i] = q[i + 1]
         /\ \A d : d \in Range(q) <=> d \in Range(Tail(q)) \/ d = Head(q)
         /\ Head(q) \notin Range(Tail(q)) /\ AllDifferent(Tail(q))
<1>1. /\ Head(q) = q[1] /\ Head(q) \in Clients /\ Len(q) \in Nat \ {0}
      /\ Tail(q) \in Seq(Clients) /\ Len(Tail(q)) = Len(q) - 1
      /\ \A i \in 1 .. Len(q) - 1 : Tail(q)[i] = q[i + 1]
  BY HeadTailProperties, EmptySeq
<1>2. DOMAIN q = 1 .. Len(q) /\ DOMAIN Tail(q) = 1 .. Len(q) - 1
  BY <1>1, LenProperties
<1>3. \A d : /\ d \in Range(q) <=> \E i \in 1 .. Len(q) : q[i] = d
             /\ d \in Range(Tail(q)) <=> \E i \in 1 .. Len(q) - 1 : Tail(q)[i] = d
  <2>1. \A d : d \in Range(q) <=> \E i \in 1 .. Len(q) : q[i] = d
    BY RangeFacts
  <2>2. \A d : d \in Range(Tail(q)) <=> \E i \in 1 .. Len(Tail(q)) : Tail(q)[i] = d
    BY <1>1, RangeFacts
  <2> QED
    BY <1>1, <2>1, <2>2
<1>4. \A i \in 1 .. Len(q) - 1 : i + 1 \in 1 .. Len(q) /\ i + 1 # 1
  BY <1>1
<1>5. \A i \in 1 .. Len(q) : i # 1 => i - 1 \in 1 .. Len(q) - 1 /\ (i - 1) + 1 = i
  BY <1>1
<1>6. Head(q) \notin Range(Tail(q))
  BY <1>1, <1>2, <1>3, <1>4 DEF AllDifferent
<1>7. AllDifferent(Tail(q))
  <2> SUFFICES ASSUME NEW i \in 1 .. Len(q) - 1, NEW j \in 1 .. Len(q) - 1,
                      Tail(q)[i] = Tail(q)[j]
               PROVE  i = j
    BY <1>2 DEF AllDifferent
  <2>1. i + 1 = j + 1
    BY <1>1, <1>2, <1>4 DEF AllDifferent
  <2> QED
    BY <1>1, <2>1
<1>8. ASSUME NEW d PROVE d \in Range(q) <=> d \in Range(Tail(q)) \/ d = Head(q)
  <2>1. ASSUME NEW i \in 1 .. Len(q), q[i] = d PROVE d \in Range(Tail(q)) \/ d = Head(q)
    BY <1>1, <1>3, <1>5, <2>1
  <2>2. ASSUME NEW i \in 1 .. Len(q) - 1, Tail(q)[i] = d PROVE d \in Range(q)
    BY <1>1, <1>3, <1>4, <2>2
  <2>3. Head(q) \in Range(q)
    BY <1>1, <1>3
  <2> QED
    BY <1>3, <2>1, <2>2, <2>3
<1> QED
  BY <1>1, <1>6, <1>7, <1>8

\* A client that is registered has a place in the list.
LEMMA PlaceFacts ==
  ASSUME DataInv, NEW c \in Registered
  PROVE  /\ Place(c) \in 1 .. Len(_hdmiCecSourceNotifications)
         /\ _hdmiCecSourceNotifications[Place(c)] = c
<1>1. DOMAIN _hdmiCecSourceNotifications = 1 .. Len(_hdmiCecSourceNotifications)
  BY LenProperties DEF DataInv
<1>2. \E i \in DOMAIN _hdmiCecSourceNotifications : _hdmiCecSourceNotifications[i] = c
  BY DEF Registered, Range
<1> QED
  BY <1>1, <1>2 DEF Place

-------------------------------------------------------------------------------
\* One more reference of one holder on one client.
LEMMA AddRefFacts ==
  ASSUME RefsInv, NEW c \in Clients, NEW h \in Holders, AddRef(c, h)
  PROVE  /\ RefsInv' /\ refs'[c][h] = refs[c][h] + 1
         /\ \A d \in Clients : \A k \in Holders : d # c \/ k # h => refs'[d][k] = refs[d][k]
  BY DEF RefsInv, AddRef

\* One reference less.
LEMMA ReleaseFacts ==
  ASSUME RefsInv, NEW c \in Clients, NEW h \in Holders, Release(c, h)
  PROVE  /\ RefsInv' /\ refs'[c][h] = refs[c][h] - 1
         /\ \A d \in Clients : \A k \in Holders : d # c \/ k # h => refs'[d][k] = refs[d][k]
  BY DEF RefsInv, Release

\* A copy takes a reference on each client that is registered.
LEMMA CopyFacts ==
  ASSUME RefsInv, NEW t \in Tellers, Copy(t)
  PROVE  /\ RefsInv'
         /\ \A d \in Clients : refs'[d][t] = refs[d][t] + (IF d \in Registered THEN 1 ELSE 0)
         /\ \A d \in Clients : \A k \in Holders : k # t => refs'[d][k] = refs[d][k]
<1>1. refs' = [d \in Clients |-> IF d \in Registered THEN [refs[d] EXCEPT ![t] = @ + 1]
                                 ELSE refs[d]]
  BY DEF Copy
<1>2. t \in Holders
  BY DEF Holders
<1>3. ASSUME NEW d \in Clients
      PROVE  /\ refs'[d] \in [Holders -> Int]
             /\ refs'[d][t] = refs[d][t] + (IF d \in Registered THEN 1 ELSE 0)
             /\ \A k \in Holders : k # t => refs'[d][k] = refs[d][k]
  <2>1. refs[d] \in [Holders -> Int]
    BY DEF RefsInv
  <2>2. CASE d \in Registered
    <3>1. refs'[d] = [refs[d] EXCEPT ![t] = refs[d][t] + 1]
      BY <1>1, <2>2
    <3> QED
      BY <1>2, <2>1, <2>2, <3>1
  <2>3. CASE d \notin Registered
    <3>1. refs'[d] = refs[d]
      BY <1>1, <2>3
    <3> QED
      BY <1>2, <2>1, <2>3, <3>1
  <2> QED
    BY <2>2, <2>3
<1>4. refs' \in [Clients -> [Holders -> Int]]
  BY <1>1, <1>3
<1> QED
  BY <1>3, <1>4 DEF RefsInv

\* Register adds one client at the end of the list.
LEMMA RegisterFacts ==
  ASSUME DataInv, ListInv, NEW c \in Clients, Register(c)
  PROVE  /\ Len(_hdmiCecSourceNotifications) \in Nat
         /\ Len(_hdmiCecSourceNotifications') = Len(_hdmiCecSourceNotifications) + 1
         /\ _hdmiCecSourceNotifications'[Len(_hdmiCecSourceNotifications) + 1] = c
         /\ \A i \in 1 .. Len(_hdmiCecSourceNotifications) :
               _hdmiCecSourceNotifications'[i] = _hdmiCecSourceNotifications[i]
         /\ \A d : d \in Registered' <=> d \in Registered \/ d = c
         /\ AllDifferent(_hdmiCecSourceNotifications')
<1> DEFINE L == _hdmiCecSourceNotifications
<1>1. L \in Seq(Clients) /\ L' = Append(L, c) /\ c \notin Range(L) /\ AllDifferent(L)
  BY DEF DataInv, ListInv, Register, Registered
<1>2. Len(L) \in Nat /\ DOMAIN L = 1 .. Len(L) /\ DOMAIN L' = 1 .. Len(L) + 1
  BY <1>1, LenProperties, AppendFacts
<1>3. /\ Len(L') = Len(L) + 1 /\ L'[Len(L) + 1] = c
      /\ \A i \in 1 .. Len(L) : L'[i] = L[i]
      /\ \A d : d \in Range(L') <=> d \in Range(L) \/ d = c
  BY <1>1, AppendFacts
<1>4. \A i \in 1 .. Len(L) : L[i] # c
  BY <1>1, RangeFacts
<1>5. AllDifferent(L')
  <2> SUFFICES ASSUME NEW i \in 1 .. Len(L) + 1, NEW j \in 1 .. Len(L) + 1, L'[i] = L'[j]
               PROVE  i = j
    BY <1>2 DEF AllDifferent
  <2>1. \A k \in 1 .. Len(L) + 1 : k \in 1 .. Len(L) \/ k = Len(L) + 1
    BY <1>2
  <2> HIDE DEF L
  <2> QED
    BY <1>1, <1>2, <1>3, <1>4, <2>1 DEF AllDifferent
<1> QED
  BY <1>2, <1>3, <1>5 DEF Registered

\* Unregister takes one client out of the list.
LEMMA UnregisterFacts ==
  ASSUME DataInv, ListInv, NEW c \in Clients, Unregister(c)
  PROVE  /\ Len(_hdmiCecSourceNotifications) \in Nat
         /\ Place(c) \in 1 .. Len(_hdmiCecSourceNotifications)
         /\ _hdmiCecSourceNotifications[Place(c)] = c
         /\ _hdmiCecSourceNotifications' \in Seq(Clients)
         /\ Len(_hdmiCecSourceNotifications') = Len(_hdmiCecSourceNotifications) - 1
         /\ \A i \in 1 .. Len(_hdmiCecSourceNotifications) - 1 :
               _hdmiCecSourceNotifications'[i] = IF i < Place(c) THEN _hdmiCecSourceNotifications[i]
                                                 ELSE _hdmiCecSourceNotifications[i + 1]
         /\ \A d : d \in Registered' <=> d \in Registered /\ d # c
         /\ AllDifferent(_hdmiCecSourceNotifications')
<1> DEFINE L == _hdmiCecSourceNotifications
           p == Place(c)
<1>1. /\ L \in Seq(Clients) /\ L' = RemoveAt(L, p) /\ AllDifferent(L)
      /\ p \in 1 .. Len(L) /\ L[p] = c
  BY PlaceFacts DEF DataInv, ListInv, Unregister
<1>2. Len(L) \in Nat /\ DOMAIN L = 1 .. Len(L)
  BY <1>1, LenProperties
<1>3. /\ L' \in Seq(Clients) /\ Len(L') = Len(L) - 1
      /\ \A i \in 1 .. Len(L) - 1 : L'[i] = IF i < p THEN L[i] ELSE L[i + 1]
      /\ \A d : d \in Range(L') <=> d \in Range(L) /\ d # c
  <2> HIDE DEF L, p
  <2>1. /\ RemoveAt(L, p) \in Seq(Clients) /\ Len(RemoveAt(L, p)) = Len(L) - 1
        /\ \A i \in 1 .. Len(L) - 1 : RemoveAt(L, p)[i] = IF i < p THEN L[i] ELSE L[i + 1]
        /\ \A d : d \in Range(RemoveAt(L, p)) <=> d \in Range(L) /\ d # L[p]
    BY <1>1, EraseFacts
  <2> QED
    BY <1>1, <2>1
<1>4. DOMAIN L' = 1 .. Len(L) - 1
  BY <1>3, LenProperties
<1>5. AllDifferent(L')
  <2> SUFFICES ASSUME NEW i \in 1 .. Len(L) - 1, NEW j \in 1 .. Len(L) - 1, L'[i] = L'[j]
               PROVE  i = j
    BY <1>4 DEF AllDifferent
  <2>1. \A k \in 1 .. Len(L) - 1 : k \in 1 .. Len(L) /\ k + 1 \in 1 .. Len(L) /\ k \in Nat
    BY <1>2
  <2>2. \A k, m \in 1 .. Len(L) : L[k] = L[m] => k = m
    BY <1>1, <1>2 DEF AllDifferent
  <2> HIDE DEF L, p
  <2> QED
    BY <1>1, <1>2, <1>3, <2>1, <2>2
<1> QED
  BY <1>1, <1>2, <1>3, <1>5 DEF Registered

\* Every step keeps the lists.
LEMMA KeepsData ==
  ASSUME DataInv, ListInv, Next
  PROVE  DataInv'
<1> USE DEF DataInv, event, States
<1>1. ASSUME NEW c \in Clients, Register(c) PROVE DataInv'
  BY <1>1 DEF Register, AddRef
<1>2. ASSUME NEW c \in Clients, Unregister(c) PROVE DataInv'
  <2>1. /\ Place(c) \in 1 .. Len(_hdmiCecSourceNotifications)
        /\ _hdmiCecSourceNotifications' = RemoveAt(_hdmiCecSourceNotifications, Place(c))
    BY <1>2, PlaceFacts DEF Unregister
  <2>2. _hdmiCecSourceNotifications' \in Seq(Clients)
    BY <2>1, EraseFacts DEF ListInv
  <2>3. state' \in [Tellers -> States] /\ UNCHANGED <<owned, notifyList>>
    BY <1>2 DEF Unregister
  <2> QED
    BY <2>2, <2>3
<1>3. ASSUME NEW c \in Clients, Drop(c) PROVE DataInv'
  BY <1>3 DEF Drop
<1>4. ASSUME NEW c \in Clients, Make(c) PROVE DataInv'
  BY <1>4 DEF Make
<1>5. ASSUME NEW t \in Tellers, Copy(t) PROVE DataInv'
  BY <1>5 DEF Copy, Begin, Enter
<1>6. ASSUME NEW t \in Tellers, Call(t) PROVE DataInv'
  BY <1>6 DEF Call, Enter
<1>7. ASSUME NEW t \in Tellers, CallReturns(t) PROVE DataInv'
  <2>1. notifyList[t] \in Seq(Clients) /\ notifyList[t] # <<>> /\ AllDifferent(notifyList[t])
    BY <1>7 DEF CallReturns, ListInv
  <2>2. Tail(notifyList[t]) \in Seq(Clients)
    BY <2>1, TailFacts
  <2> QED
    BY <1>7, <2>2 DEF CallReturns, Release, Enter
<1>8. ASSUME NEW t \in Tellers, CopyDone(t) PROVE DataInv'
  BY <1>8 DEF CopyDone, End, Enter
<1>9. ASSUME NEW t \in Tellers, WalkBegin(t) PROVE DataInv'
  BY <1>9 DEF WalkBegin, Begin, Enter
<1>10. ASSUME NEW t \in Tellers, WalkCall(t) PROVE DataInv'
  BY <1>10 DEF WalkCall, Enter
<1>11. ASSUME NEW t \in Tellers, WalkReturns(t) PROVE DataInv'
  BY <1>11 DEF WalkReturns, Enter
<1>12. ASSUME NEW t \in Tellers, WalkDone(t) PROVE DataInv'
  BY <1>12 DEF WalkDone, End, Enter
<1>13. ASSUME NEW t \in Tellers, WalkAstray(t) PROVE DataInv'
  BY <1>13 DEF WalkAstray, End, Enter
<1>14. ASSUME NEW t \in Tellers, WalkThrows(t) PROVE DataInv'
  BY <1>14 DEF WalkThrows, End, Enter
<1> HIDE DEF DataInv
<1> QED
  BY <1>1, <1>2, <1>3, <1>4, <1>5, <1>6, <1>7, <1>8, <1>9, <1>10, <1>11, <1>12, <1>13, <1>14 DEF Next, Client, Teller

\* Every step keeps the type of the references.
LEMMA KeepsRefs ==
  ASSUME DataInv, RefsInv, ListInv, Next
  PROVE  RefsInv'
<1> USE DEF event
<1>1. ASSUME NEW c \in Clients, Register(c) PROVE RefsInv'
  BY <1>1, AddRefFacts DEF Register, Holders
<1>2. ASSUME NEW c \in Clients, Unregister(c) PROVE RefsInv'
  BY <1>2, ReleaseFacts DEF Unregister, Holders
<1>3. ASSUME NEW c \in Clients, Drop(c) PROVE RefsInv'
  BY <1>3 DEF Drop, RefsInv
<1>4. ASSUME NEW c \in Clients, Make(c) PROVE RefsInv'
  BY <1>4 DEF Make, RefsInv
<1>5. ASSUME NEW t \in Tellers, Copy(t) PROVE RefsInv'
  BY <1>5, CopyFacts
<1>6. ASSUME NEW t \in Tellers, Call(t) PROVE RefsInv'
  BY <1>6 DEF Call, Enter, RefsInv
<1>7. ASSUME NEW t \in Tellers, CallReturns(t) PROVE RefsInv'
  <2>1. notifyList[t] \in Seq(Clients) /\ notifyList[t] # <<>>
    BY <1>7 DEF CallReturns, DataInv, ListInv
  <2>2. Head(notifyList[t]) \in Clients /\ t \in Holders
    BY <2>1 DEF Holders
  <2> QED
    BY <1>7, <2>2, ReleaseFacts DEF CallReturns
<1>8. ASSUME NEW t \in Tellers, CopyDone(t) PROVE RefsInv'
  BY <1>8 DEF CopyDone, End, Enter, RefsInv
<1>9. ASSUME NEW t \in Tellers, WalkBegin(t) PROVE RefsInv'
  BY <1>9 DEF WalkBegin, Begin, Enter, RefsInv
<1>10. ASSUME NEW t \in Tellers, WalkCall(t) PROVE RefsInv'
  BY <1>10 DEF WalkCall, Enter, RefsInv
<1>11. ASSUME NEW t \in Tellers, WalkReturns(t) PROVE RefsInv'
  BY <1>11 DEF WalkReturns, Enter, RefsInv
<1>12. ASSUME NEW t \in Tellers, WalkDone(t) PROVE RefsInv'
  BY <1>12 DEF WalkDone, End, Enter, RefsInv
<1>13. ASSUME NEW t \in Tellers, WalkAstray(t) PROVE RefsInv'
  BY <1>13 DEF WalkAstray, End, Enter, RefsInv
<1>14. ASSUME NEW t \in Tellers, WalkThrows(t) PROVE RefsInv'
  BY <1>14 DEF WalkThrows, End, Enter, RefsInv
<1> HIDE DEF RefsInv
<1> QED
  BY <1>1, <1>2, <1>3, <1>4, <1>5, <1>6, <1>7, <1>8, <1>9, <1>10, <1>11, <1>12, <1>13, <1>14 DEF Next, Client, Teller

\* Every step keeps the history.
LEMMA KeepsHistory ==
  ASSUME DataInv, HistoryInv, IndexInv, Next
  PROVE  HistoryInv'
<1> USE DEF DataInv, IndexInv, HistoryInv, event
<1>1. ASSUME NEW c \in Clients, Register(c) PROVE HistoryInv'
  BY <1>1 DEF Register, AddRef
<1>2. ASSUME NEW c \in Clients, Unregister(c) PROVE HistoryInv'
  BY <1>2 DEF Unregister, Release, Forget, LostBy
<1>3. ASSUME NEW c \in Clients, Drop(c) PROVE HistoryInv'
  BY <1>3 DEF Drop
<1>4. ASSUME NEW c \in Clients, Make(c) PROVE HistoryInv'
  BY <1>4 DEF Make
<1>5. ASSUME NEW t \in Tellers, Copy(t) PROVE HistoryInv'
  <2>1. Registered \subseteq Clients
    BY RangeFacts DEF Registered
  <2> QED
    BY <1>5, <2>1 DEF Copy, Begin, Enter
<1>6. ASSUME NEW t \in Tellers, Call(t) PROVE HistoryInv'
  <2>1. notifyList[t] \in Seq(Clients) /\ notifyList[t] # <<>>
    BY <1>6 DEF Call
  <2>2. Head(notifyList[t]) \in Clients
    BY <2>1
  <2> QED
    BY <1>6, <2>2 DEF Call, Enter
<1>7. ASSUME NEW t \in Tellers, CallReturns(t) PROVE HistoryInv'
  BY <1>7 DEF CallReturns, Release, Enter
<1>8. ASSUME NEW t \in Tellers, CopyDone(t) PROVE HistoryInv'
  BY <1>8 DEF CopyDone, End, Enter
<1>9. ASSUME NEW t \in Tellers, WalkBegin(t) PROVE HistoryInv'
  <2>1. Registered \subseteq Clients
    BY RangeFacts DEF Registered
  <2> QED
    BY <1>9, <2>1 DEF WalkBegin, Begin, Enter
<1>10. ASSUME NEW t \in Tellers, WalkCall(t) PROVE HistoryInv'
  <2>1. _hdmiCecSourceNotifications[index[t]] \in Clients
    BY <1>10 DEF WalkCall
  <2> QED
    BY <1>10, <2>1 DEF WalkCall, Enter
<1>11. ASSUME NEW t \in Tellers, WalkReturns(t) PROVE HistoryInv'
  BY <1>11 DEF WalkReturns, Enter
<1>12. ASSUME NEW t \in Tellers, WalkDone(t) PROVE HistoryInv'
  BY <1>12 DEF WalkDone, End, Enter
<1>13. ASSUME NEW t \in Tellers, WalkAstray(t) PROVE HistoryInv'
  BY <1>13 DEF WalkAstray, End, Enter
<1>14. ASSUME NEW t \in Tellers, WalkThrows(t) PROVE HistoryInv'
  BY <1>14 DEF WalkThrows, End, Enter
<1> HIDE DEF HistoryInv
<1> QED
  BY <1>1, <1>2, <1>3, <1>4, <1>5, <1>6, <1>7, <1>8, <1>9, <1>10, <1>11, <1>12, <1>13, <1>14 DEF Next, Client, Teller

\* Every step keeps a walk within the list.
LEMMA KeepsIndex ==
  ASSUME DataInv, ListInv, IndexInv, Next
  PROVE  IndexInv'
<1> USE DEF DataInv, IndexInv, event
<1>1. ASSUME NEW c \in Clients, Register(c) PROVE IndexInv'
  BY <1>1 DEF Register, AddRef
<1>2. ASSUME NEW c \in Clients, Unregister(c) PROVE IndexInv'
  <2>1. /\ Len(_hdmiCecSourceNotifications) \in Nat
        /\ Place(c) \in 1 .. Len(_hdmiCecSourceNotifications)
        /\ Len(_hdmiCecSourceNotifications') = Len(_hdmiCecSourceNotifications) - 1
    <3> HIDE DEF DataInv
    <3> QED
      BY <1>2, UnregisterFacts
  <2>2. ASSUME NEW u \in Tellers
        PROVE  /\ index'[u] \in Nat \ {0}
               /\ state'[u] = "walk" => index'[u] <= Len(_hdmiCecSourceNotifications')+ 1
               /\ state'[u] = "inside" => index'[u] <= Len(_hdmiCecSourceNotifications')
    <3>1. CASE LostBy(u, c)
      BY <1>2, <2>1, <3>1 DEF Unregister
    <3>2. CASE ~LostBy(u, c) /\ Walking(u)
      BY <1>2, <2>1, <3>2 DEF Unregister, LostBy, Walking
    <3>3. CASE ~Walking(u)
      BY <1>2, <2>1, <3>3 DEF Unregister, LostBy, Walking
    <3> QED
      BY <3>1, <3>2, <3>3
  <2>3. index' \in [Tellers -> Nat \ {0}]
    BY <1>2, <2>2 DEF Unregister
  <2> QED
    BY <2>2, <2>3
<1>3. ASSUME NEW c \in Clients, Drop(c) PROVE IndexInv'
  BY <1>3 DEF Drop
<1>4. ASSUME NEW c \in Clients, Make(c) PROVE IndexInv'
  BY <1>4 DEF Make
<1>5. ASSUME NEW t \in Tellers, Copy(t) PROVE IndexInv'
  BY <1>5 DEF Copy, Begin, Enter
<1>6. ASSUME NEW t \in Tellers, Call(t) PROVE IndexInv'
  BY <1>6 DEF Call, Enter
<1>7. ASSUME NEW t \in Tellers, CallReturns(t) PROVE IndexInv'
  BY <1>7 DEF CallReturns, Release, Enter
<1>8. ASSUME NEW t \in Tellers, CopyDone(t) PROVE IndexInv'
  BY <1>8 DEF CopyDone, End, Enter
<1>9. ASSUME NEW t \in Tellers, WalkBegin(t) PROVE IndexInv'
  BY <1>9 DEF WalkBegin, Begin, Enter
<1>10. ASSUME NEW t \in Tellers, WalkCall(t) PROVE IndexInv'
  BY <1>10 DEF WalkCall, Enter
<1>11. ASSUME NEW t \in Tellers, WalkReturns(t) PROVE IndexInv'
  BY <1>11 DEF WalkReturns, Enter
<1>12. ASSUME NEW t \in Tellers, WalkDone(t) PROVE IndexInv'
  BY <1>12 DEF WalkDone, End, Enter
<1>13. ASSUME NEW t \in Tellers, WalkAstray(t) PROVE IndexInv'
  BY <1>13 DEF WalkAstray, End, Enter
<1>14. ASSUME NEW t \in Tellers, WalkThrows(t) PROVE IndexInv'
  BY <1>14 DEF WalkThrows, End, Enter
<1> HIDE DEF IndexInv
<1> QED
  BY <1>1, <1>2, <1>3, <1>4, <1>5, <1>6, <1>7, <1>8, <1>9, <1>10, <1>11, <1>12, <1>13, <1>14 DEF Next, Client, Teller

\* Every step keeps the lists free of doubles.
LEMMA KeepsList ==
  ASSUME DataInv, ListInv, Next
  PROVE  ListInv'
<1> USE DEF event
<1>1. ASSUME NEW c \in Clients, Register(c) PROVE ListInv'
  BY <1>1, RegisterFacts DEF Register, ListInv
<1>2. ASSUME NEW c \in Clients, Unregister(c) PROVE ListInv'
  <2>1. AllDifferent(_hdmiCecSourceNotifications') /\ UNCHANGED notifyList
    BY <1>2, UnregisterFacts DEF Unregister
  <2>2. ASSUME NEW u \in Tellers
        PROVE  \/ state'[u] = state[u]
               \/ state[u] \in {"walk", "inside"} /\ state'[u] = "lost"
    BY <1>2 DEF Unregister, LostBy, Walking
  <2> QED
    BY <2>1, <2>2 DEF ListInv
<1>3. ASSUME NEW c \in Clients, Drop(c) PROVE ListInv'
  BY <1>3 DEF Drop, DataInv, ListInv
<1>4. ASSUME NEW c \in Clients, Make(c) PROVE ListInv'
  BY <1>4 DEF Make, DataInv, ListInv
<1>5. ASSUME NEW t \in Tellers, Copy(t) PROVE ListInv'
  BY <1>5 DEF Copy, Begin, Enter, DataInv, ListInv
<1>6. ASSUME NEW t \in Tellers, Call(t) PROVE ListInv'
  BY <1>6 DEF Call, Enter, DataInv, ListInv
<1>7. ASSUME NEW t \in Tellers, CallReturns(t) PROVE ListInv'
  <2>1. notifyList[t] \in Seq(Clients) /\ notifyList[t] # <<>> /\ AllDifferent(notifyList[t])
    BY <1>7 DEF CallReturns, DataInv, ListInv
  <2>2. AllDifferent(Tail(notifyList[t]))
    BY <2>1, TailFacts
  <2> QED
    BY <1>7, <2>2 DEF CallReturns, Release, Enter, DataInv, ListInv
<1>8. ASSUME NEW t \in Tellers, CopyDone(t) PROVE ListInv'
  BY <1>8 DEF CopyDone, End, Enter, DataInv, ListInv
<1>9. ASSUME NEW t \in Tellers, WalkBegin(t) PROVE ListInv'
  BY <1>9 DEF WalkBegin, Begin, Enter, DataInv, ListInv
<1>10. ASSUME NEW t \in Tellers, WalkCall(t) PROVE ListInv'
  BY <1>10 DEF WalkCall, Enter, DataInv, ListInv
<1>11. ASSUME NEW t \in Tellers, WalkReturns(t) PROVE ListInv'
  BY <1>11 DEF WalkReturns, Enter, DataInv, ListInv
<1>12. ASSUME NEW t \in Tellers, WalkDone(t) PROVE ListInv'
  BY <1>12 DEF WalkDone, End, Enter, DataInv, ListInv
<1>13. ASSUME NEW t \in Tellers, WalkAstray(t) PROVE ListInv'
  BY <1>13 DEF WalkAstray, End, Enter, DataInv, ListInv
<1>14. ASSUME NEW t \in Tellers, WalkThrows(t) PROVE ListInv'
  BY <1>14 DEF WalkThrows, End, Enter, DataInv, ListInv
<1> HIDE DEF ListInv
<1> QED
  BY <1>1, <1>2, <1>3, <1>4, <1>5, <1>6, <1>7, <1>8, <1>9, <1>10, <1>11, <1>12, <1>13, <1>14 DEF Next, Client, Teller

\* Every step keeps the references balanced.
LEMMA KeepsReferences ==
  ASSUME DataInv, RefsInv, ListInv, ReferencesBalanced, Next
  PROVE  ReferencesBalanced'
<1> USE DEF event
<1>1. ASSUME NEW c \in Clients, Register(c) PROVE ReferencesBalanced'
  <2>1. /\ c \notin Registered /\ List \in Holders /\ Tellers \subseteq Holders /\ UNCHANGED notifyList
        /\ AddRef(c, List)
    BY <1>1 DEF Register, Holders, event
  <2>2. \A d : d \in Registered' <=> d \in Registered \/ d = c
    BY <1>1, RegisterFacts
  <2>3. /\ refs'[c][List] = refs[c][List] + 1
        /\ \A d \in Clients : \A k \in Holders : d # c \/ k # List => refs'[d][k] = refs[d][k]
    BY <2>1, AddRefFacts
  <2> QED
    BY <2>1, <2>2, <2>3, HolderAssumption DEF ReferencesBalanced
<1>2. ASSUME NEW c \in Clients, Unregister(c) PROVE ReferencesBalanced'
  <2>1. /\ c \in Registered /\ List \in Holders /\ Tellers \subseteq Holders /\ UNCHANGED notifyList
        /\ Release(c, List)
    BY <1>2 DEF Unregister, Holders
  <2>2. \A d : d \in Registered' <=> d \in Registered /\ d # c
    BY <1>2, UnregisterFacts
  <2>3. /\ refs'[c][List] = refs[c][List] - 1
        /\ \A d \in Clients : \A k \in Holders : d # c \/ k # List => refs'[d][k] = refs[d][k]
    BY <2>1, ReleaseFacts
  <2> QED
    BY <2>1, <2>2, <2>3, HolderAssumption DEF ReferencesBalanced
<1>3. ASSUME NEW c \in Clients, Drop(c) PROVE ReferencesBalanced'
  BY <1>3 DEF Drop, ReferencesBalanced, Registered
<1>4. ASSUME NEW c \in Clients, Make(c) PROVE ReferencesBalanced'
  BY <1>4 DEF Make, ReferencesBalanced, Registered
<1>5. ASSUME NEW t \in Tellers, Copy(t) PROVE ReferencesBalanced'
  <2>1. /\ List \in Holders /\ Tellers \subseteq Holders /\ UNCHANGED Registered
        /\ notifyList[t] = <<>>
        /\ notifyList' = [notifyList EXCEPT ![t] = _hdmiCecSourceNotifications]
    BY <1>5 DEF Copy, Begin, Holders, ListInv, Registered
  <2>2. /\ notifyList'[t] = _hdmiCecSourceNotifications
        /\ \A u \in Tellers : u # t => notifyList'[u] = notifyList[u]
    BY <2>1 DEF DataInv
  <2>3. \A d \in Clients : d \notin Range(notifyList[t])
    BY <2>1 DEF Range
  <2>4. /\ \A d \in Clients : refs'[d][t] = refs[d][t] + (IF d \in Registered THEN 1 ELSE 0)
        /\ \A d \in Clients : \A k \in Holders : k # t => refs'[d][k] = refs[d][k]
    BY <1>5, CopyFacts
  <2>5. \A d \in Clients : d \in Range(notifyList'[t]) <=> d \in Registered
    BY <2>2 DEF Registered
  <2> QED
    BY <2>1, <2>2, <2>3, <2>4, <2>5, HolderAssumption DEF ReferencesBalanced
<1>6. ASSUME NEW t \in Tellers, Call(t) PROVE ReferencesBalanced'
  BY <1>6 DEF Call, Enter, ReferencesBalanced, Registered
<1>7. ASSUME NEW t \in Tellers, CallReturns(t) PROVE ReferencesBalanced'
  <2>1. /\ notifyList[t] \in Seq(Clients) /\ notifyList[t] # <<>> /\ AllDifferent(notifyList[t])
        /\ notifyList' = [notifyList EXCEPT ![t] = Tail(@)] /\ UNCHANGED Registered
        /\ Release(Head(notifyList[t]), t)
    BY <1>7 DEF CallReturns, DataInv, ListInv, Registered
  <2>2. /\ Head(notifyList[t]) \in Clients
        /\ \A d : d \in Range(notifyList[t]) <=> d \in Range(Tail(notifyList[t])) \/ d = Head(notifyList[t])
        /\ Head(notifyList[t]) \notin Range(Tail(notifyList[t]))
    BY <2>1, TailFacts
  <2>3. /\ notifyList'[t] = Tail(notifyList[t])
        /\ \A u \in Tellers : u # t => notifyList'[u] = notifyList[u]
    BY <2>1 DEF DataInv
  <2>4. /\ refs'[Head(notifyList[t])][t] = refs[Head(notifyList[t])][t] - 1
        /\ \A d \in Clients : \A k \in Holders : d # Head(notifyList[t]) \/ k # t => refs'[d][k] = refs[d][k]
    BY <2>1, <2>2, ReleaseFacts DEF Holders
  <2>5. List \in Holders /\ Tellers \subseteq Holders
    BY DEF Holders
  <2> QED
    BY <2>1, <2>2, <2>3, <2>4, <2>5, HolderAssumption DEF ReferencesBalanced
<1>8. ASSUME NEW t \in Tellers, CopyDone(t) PROVE ReferencesBalanced'
  BY <1>8 DEF CopyDone, End, Enter, ReferencesBalanced, Registered
<1>9. ASSUME NEW t \in Tellers, WalkBegin(t) PROVE ReferencesBalanced'
  BY <1>9 DEF WalkBegin, Begin, Enter, ReferencesBalanced, Registered
<1>10. ASSUME NEW t \in Tellers, WalkCall(t) PROVE ReferencesBalanced'
  BY <1>10 DEF WalkCall, Enter, ReferencesBalanced, Registered
<1>11. ASSUME NEW t \in Tellers, WalkReturns(t) PROVE ReferencesBalanced'
  BY <1>11 DEF WalkReturns, Enter, ReferencesBalanced, Registered
<1>12. ASSUME NEW t \in Tellers, WalkDone(t) PROVE ReferencesBalanced'
  BY <1>12 DEF WalkDone, End, Enter, ReferencesBalanced, Registered
<1>13. ASSUME NEW t \in Tellers, WalkAstray(t) PROVE ReferencesBalanced'
  BY <1>13 DEF WalkAstray, End, Enter, ReferencesBalanced, Registered
<1>14. ASSUME NEW t \in Tellers, WalkThrows(t) PROVE ReferencesBalanced'
  BY <1>14 DEF WalkThrows, End, Enter, ReferencesBalanced, Registered
<1> HIDE DEF ReferencesBalanced
<1> QED
  BY <1>1, <1>2, <1>3, <1>4, <1>5, <1>6, <1>7, <1>8, <1>9, <1>10, <1>11, <1>12, <1>13, <1>14 DEF Next, Client, Teller

\* Every step keeps what a thread with a copy has told.
LEMMA KeepsCopy ==
  ASSUME DataInv, HistoryInv, ListInv, CopyInv, Next
  PROVE  CopyInv'
<1> USE DEF DataInv, HistoryInv, ListInv, event, CopyInv
<1>1. ASSUME NEW c \in Clients, Register(c) PROVE CopyInv'
  BY <1>1 DEF Register, AddRef
<1>2. ASSUME NEW c \in Clients, Unregister(c) PROVE CopyInv'
  BY <1>2 DEF Unregister, Release, Forget, LostBy
<1>3. ASSUME NEW c \in Clients, Drop(c) PROVE CopyInv'
  BY <1>3 DEF Drop
<1>4. ASSUME NEW c \in Clients, Make(c) PROVE CopyInv'
  BY <1>4 DEF Make
<1>5. ASSUME NEW t \in Tellers, Copy(t) PROVE CopyInv'
  <2>1. /\ due'[t] = Registered /\ notifyList'[t] = _hdmiCecSourceNotifications
        /\ told[t] = {} /\ UNCHANGED told /\ state'[t] = "copied"
        /\ \A u \in Tellers : u # t => /\ notifyList'[u] = notifyList[u] /\ due'[u] = due[u]
                                      /\ state'[u] = state[u]
    BY <1>5 DEF Copy, Begin, Enter
  <2> QED
    BY <2>1 DEF Registered
<1>6. ASSUME NEW t \in Tellers, Call(t) PROVE CopyInv'
  <2>1. /\ notifyList[t] \in Seq(Clients) /\ notifyList[t] # <<>> /\ AllDifferent(notifyList[t])
        /\ state[t] = "copied" /\ UNCHANGED <<notifyList, due>>
        /\ told' = [told EXCEPT ![t] = @ \cup {Head(notifyList[t])}]
        /\ state' = [state EXCEPT ![t] = "called"]
    BY <1>6 DEF Call, Enter
  <2>2. /\ \A d : d \in Range(notifyList[t]) <=> d \in Range(Tail(notifyList[t])) \/ d = Head(notifyList[t])
        /\ Head(notifyList[t]) \notin Range(Tail(notifyList[t]))
    BY <2>1, TailFacts
  <2>3. /\ told'[t] = told[t] \cup {Head(notifyList[t])} /\ state'[t] = "called"
        /\ \A u \in Tellers : u # t => told'[u] = told[u] /\ state'[u] = state[u]
    BY <2>1
  <2> QED
    BY <2>1, <2>2, <2>3
<1>7. ASSUME NEW t \in Tellers, CallReturns(t) PROVE CopyInv'
  BY <1>7 DEF CallReturns, Release, Enter
<1>8. ASSUME NEW t \in Tellers, CopyDone(t) PROVE CopyInv'
  BY <1>8 DEF CopyDone, End, Enter
<1>9. ASSUME NEW t \in Tellers, WalkBegin(t) PROVE CopyInv'
  BY <1>9 DEF WalkBegin, Begin, Enter
<1>10. ASSUME NEW t \in Tellers, WalkCall(t) PROVE CopyInv'
  BY <1>10 DEF WalkCall, Enter
<1>11. ASSUME NEW t \in Tellers, WalkReturns(t) PROVE CopyInv'
  BY <1>11 DEF WalkReturns, Enter
<1>12. ASSUME NEW t \in Tellers, WalkDone(t) PROVE CopyInv'
  BY <1>12 DEF WalkDone, End, Enter
<1>13. ASSUME NEW t \in Tellers, WalkAstray(t) PROVE CopyInv'
  BY <1>13 DEF WalkAstray, End, Enter
<1>14. ASSUME NEW t \in Tellers, WalkThrows(t) PROVE CopyInv'
  BY <1>14 DEF WalkThrows, End, Enter
<1> HIDE DEF CopyInv
<1> QED
  BY <1>1, <1>2, <1>3, <1>4, <1>5, <1>6, <1>7, <1>8, <1>9, <1>10, <1>11, <1>12, <1>13, <1>14 DEF Next, Client, Teller

\* Every step keeps what a walk has told.
LEMMA KeepsWalk ==
  ASSUME DataInv, IndexInv, HistoryInv, ListInv, CopyInv, WalkInv, Next
  PROVE  WalkInv'
<1> USE DEF DataInv, IndexInv, HistoryInv, ListInv, event, CopyInv, WalkInv, Ahead, First, Walking, Registered
<1>1. ASSUME NEW c \in Clients, Register(c) PROVE WalkInv'
  <2>1. /\ UNCHANGED <<event, due, told>> /\ c \notin Registered
        /\ Len(_hdmiCecSourceNotifications) \in Nat
        /\ Len(_hdmiCecSourceNotifications') = Len(_hdmiCecSourceNotifications) + 1
        /\ _hdmiCecSourceNotifications'[Len(_hdmiCecSourceNotifications) + 1] = c
        /\ \A i \in 1 .. Len(_hdmiCecSourceNotifications) :
              _hdmiCecSourceNotifications'[i] = _hdmiCecSourceNotifications[i]
        /\ \A d : d \in Registered' <=> d \in Registered \/ d = c
    <3> HIDE DEF DataInv, ListInv, Registered, event
    <3> QED
      BY <1>1, RegisterFacts DEF Register
  <2>2. ASSUME NEW u \in Tellers, Walking(u)
        PROVE  /\ Walking(u)' /\ UNCHANGED <<due[u], told[u]>>
               /\ \A d : d \in Ahead(u)' <=> d \in Ahead(u) \/ d = c
    <3>1. /\ First(u)' = First(u) /\ First(u) \in Nat
          /\ First(u) <= Len(_hdmiCecSourceNotifications) + 1
      BY <2>1, <2>2
    <3>2. \A d : /\ d \in Ahead(u) <=> \E i \in 1 .. Len(_hdmiCecSourceNotifications) :
                                          i >= First(u) /\ _hdmiCecSourceNotifications[i] = d
                 /\ d \in Ahead(u)' <=> \E i \in 1 .. Len(_hdmiCecSourceNotifications') :
                                          i >= First(u)' /\ _hdmiCecSourceNotifications'[i] = d
      BY DEF Ahead
    <3>3. \A i : i \in 1 .. Len(_hdmiCecSourceNotifications) + 1
                    <=> \/ i \in 1 .. Len(_hdmiCecSourceNotifications)
                        \/ i = Len(_hdmiCecSourceNotifications) + 1
      BY <2>1
    <3>4. ASSUME NEW d PROVE d \in Ahead(u)' <=> d \in Ahead(u) \/ d = c
      <4> HIDE DEF Ahead, First
      <4> DEFINE n == Len(_hdmiCecSourceNotifications)
      <4>1. d \in Ahead(u)' <=> \E i \in 1 .. n + 1 :
                                   i >= First(u) /\ _hdmiCecSourceNotifications'[i] = d
        BY <2>1, <3>1, <3>2
      <4>2. n + 1 \in 1 .. n + 1 /\ n + 1 >= First(u)
        BY <2>1, <3>1
      <4>3. ASSUME NEW i \in 1 .. n + 1, i >= First(u), _hdmiCecSourceNotifications'[i] = d
            PROVE  d \in Ahead(u) \/ d = c
        BY <2>1, <3>2, <3>3, <4>3
      <4>4. d \in Ahead(u) => d \in Ahead(u)'
        BY <2>1, <3>2, <3>3, <4>1
      <4>5. d = c => d \in Ahead(u)'
        BY <2>1, <4>1, <4>2
      <4> QED
        BY <4>1, <4>3, <4>4, <4>5
    <3> QED
      BY <2>1, <2>2, <3>4
  <2>3. \A u \in Tellers : Walking(u)' => Walking(u)
    BY <2>1
  <2> HIDE DEF Ahead, Walking, Registered, DataInv, HistoryInv, IndexInv, ListInv
  <2> QED
    BY <2>1, <2>2, <2>3
<1>2. ASSUME NEW c \in Clients, Unregister(c) PROVE WalkInv'
  <2> DEFINE L == _hdmiCecSourceNotifications
             n == Len(_hdmiCecSourceNotifications)
             p == Place(c)
  <2>1. /\ n \in Nat /\ p \in 1 .. n /\ L[p] = c /\ Len(L') = n - 1
        /\ \A i \in 1 .. n - 1 : L'[i] = IF i < p THEN L[i] ELSE L[i + 1]
        /\ \A d : d \in Registered' <=> d \in Registered /\ d # c
    <3> HIDE DEF DataInv, ListInv, Registered
    <3> QED
      BY <1>2, UnregisterFacts
  <2>2. \A i \in 1 .. n : L[i] = c <=> i = p
    <3>1. DOMAIN L = 1 .. n
      BY LenProperties
    <3> QED
      BY <2>1, <3>1 DEF AllDifferent
  <2>3. ASSUME NEW u \in Tellers, Walking(u)'
        PROVE  /\ Walking(u) /\ due'[u] = due[u] \ {c} /\ told'[u] = told[u] \ {c}
               /\ \A d : d \in Ahead(u)' <=> d \in Ahead(u) /\ d # c
    <3>1. /\ Walking(u) /\ ~LostBy(u, c) /\ state'[u] = state[u]
          /\ index'[u] = IF index[u] > p THEN index[u] - 1 ELSE index[u]
          /\ due'[u] = due[u] \ {c} /\ told'[u] = told[u] \ {c}
      BY <1>2, <2>3 DEF Unregister, Forget
    <3>2. index[u] # p /\ index[u] \in Nat
      BY <3>1 DEF LostBy
    <3>3. /\ First(u) \in Nat
          /\ \/ First(u) > p /\ First(u)' = First(u) - 1
             \/ First(u) <= p /\ First(u)' = First(u)
      <4>1. CASE index[u] > p
        BY <2>1, <3>1, <3>2, <4>1
      <4>2. CASE index[u] < p
        BY <2>1, <3>1, <3>2, <4>2
      <4> QED
        BY <2>1, <3>2, <4>1, <4>2
    <3>4. \A d : /\ d \in Ahead(u) <=> \E i \in 1 .. n : i >= First(u) /\ L[i] = d
                 /\ d \in Ahead(u)' <=> \E i \in 1 .. n - 1 : i >= First(u)' /\ L'[i] = d
      BY <2>1 DEF Ahead
    <3> HIDE DEF L, n, p, First, Ahead
    <3>5. ASSUME NEW d, NEW i \in 1 .. n - 1, i >= First(u)', L'[i] = d
          PROVE  \E j \in 1 .. n : j >= First(u) /\ L[j] = d /\ d # c
      <4>1. CASE i < p
        <5>1. i \in 1 .. n /\ i # p /\ i >= First(u)
          BY <2>1, <3>3, <3>5, <4>1
        <5>2. L[i] = d
          BY <2>1, <3>5, <4>1
        <5> QED
          BY <2>2, <5>1, <5>2
      <4>2. CASE ~(i < p)
        <5>1. i + 1 \in 1 .. n /\ i + 1 # p /\ i + 1 >= First(u) /\ L[i + 1] = d
          BY <2>1, <3>3, <3>5, <4>2
        <5> QED
          BY <2>2, <5>1
      <4> QED
        BY <4>1, <4>2
    <3>6. ASSUME NEW d, NEW i \in 1 .. n, i >= First(u), L[i] = d, d # c
          PROVE  \E j \in 1 .. n - 1 : j >= First(u)' /\ L'[j] = d
      <4>1. i # p
        BY <2>2, <3>6
      <4>2. CASE i < p
        <5>1. i \in 1 .. n - 1 /\ i >= First(u)' /\ L'[i] = d
          BY <2>1, <3>3, <3>6, <4>2
        <5> QED
          BY <5>1
      <4>3. CASE i > p
        <5>1. /\ i - 1 \in 1 .. n - 1 /\ ~(i - 1 < p) /\ (i - 1) + 1 = i
              /\ i - 1 >= First(u)'
          BY <2>1, <3>3, <3>6, <4>3
        <5>2. L'[i - 1] = d
          BY <2>1, <3>6, <5>1
        <5> QED
          BY <5>1, <5>2
      <4> QED
        BY <2>1, <4>1, <4>2, <4>3
    <3> QED
      BY <3>1, <3>4, <3>5, <3>6
  <2> HIDE DEF L, Ahead, Walking, Registered, DataInv, HistoryInv, IndexInv, ListInv
  <2> QED
    BY <2>1, <2>3
<1>3. ASSUME NEW c \in Clients, Drop(c) PROVE WalkInv'
  BY <1>3 DEF Drop
<1>4. ASSUME NEW c \in Clients, Make(c) PROVE WalkInv'
  BY <1>4 DEF Make
<1>5. ASSUME NEW t \in Tellers, Copy(t) PROVE WalkInv'
  BY <1>5 DEF Copy, Begin, Enter
<1>6. ASSUME NEW t \in Tellers, Call(t) PROVE WalkInv'
  BY <1>6 DEF Call, Enter
<1>7. ASSUME NEW t \in Tellers, CallReturns(t) PROVE WalkInv'
  BY <1>7 DEF CallReturns, Release, Enter
<1>8. ASSUME NEW t \in Tellers, CopyDone(t) PROVE WalkInv'
  BY <1>8 DEF CopyDone, End, Enter
<1>9. ASSUME NEW t \in Tellers, WalkBegin(t) PROVE WalkInv'
  <2>1. /\ UNCHANGED <<_hdmiCecSourceNotifications, told>> /\ told[t] = {}
        /\ state'[t] = "walk" /\ index'[t] = 1 /\ due'[t] = Registered
        /\ \A u \in Tellers : u # t => UNCHANGED <<state[u], index[u], due[u]>>
    BY <1>9 DEF WalkBegin, Begin, Enter
  <2>2. \A u \in Tellers : u # t => Ahead(u)' = Ahead(u) /\ (Walking(u)' <=> Walking(u))
    BY <2>1
  <2>3. Registered \subseteq Ahead(t)'
    <3>1. Len(_hdmiCecSourceNotifications) \in Nat
      BY LenProperties
    <3>2. \A d \in Registered : \E i \in 1 .. Len(_hdmiCecSourceNotifications) :
             _hdmiCecSourceNotifications[i] = d
      BY RangeFacts
    <3>3. First(t)' = 1
      BY <2>1
    <3> QED
      BY <2>1, <3>1, <3>2, <3>3 DEF Ahead
  <2>4. UNCHANGED Registered
    BY <2>1
  <2> HIDE DEF Ahead, Walking, Registered, DataInv, HistoryInv, IndexInv, ListInv
  <2> QED
    BY <2>1, <2>2, <2>3, <2>4
<1>10. ASSUME NEW t \in Tellers, WalkCall(t) PROVE WalkInv'
  <2> DEFINE L == _hdmiCecSourceNotifications
             n == Len(_hdmiCecSourceNotifications)
  <2>1. /\ UNCHANGED <<L, index, due>> /\ state[t] = "walk" /\ index[t] \in DOMAIN L
        /\ state'[t] = "inside" /\ told'[t] = told[t] \cup {L[index[t]]}
        /\ \A u \in Tellers : u # t => UNCHANGED <<state[u], told[u]>>
    BY <1>10 DEF WalkCall, Enter
  <2>2. \A u \in Tellers : u # t => Ahead(u)' = Ahead(u) /\ (Walking(u)' <=> Walking(u))
    BY <2>1
  <2>3. DOMAIN L = 1 .. n /\ n \in Nat
    BY LenProperties
  <2>4. L[index[t]] \in Registered
    BY <2>1, <2>3, RangeFacts
  <2>5. First(t) = index[t] /\ First(t)' = index[t] + 1 /\ index[t] \in 1 .. n
    BY <2>1, <2>3
  <2>6. \A d : /\ d \in Ahead(t) <=> \E i \in 1 .. n : i >= index[t] /\ L[i] = d
               /\ d \in Ahead(t)' <=> \E i \in 1 .. n : i >= index[t] + 1 /\ L[i] = d
    BY <2>1, <2>5 DEF Ahead
  <2>7. /\ Ahead(t) \subseteq Ahead(t)' \cup {L[index[t]]} /\ Ahead(t)' \subseteq Ahead(t)
        /\ L[index[t]] \notin Ahead(t)'
    <3>1. \A i, j \in 1 .. n : L[i] = L[j] => i = j
      BY <2>3 DEF AllDifferent
    <3>2. \A i \in 1 .. n : /\ i >= index[t] <=> i >= index[t] + 1 \/ i = index[t]
                            /\ i >= index[t] + 1 => i # index[t]
      BY <2>3, <2>5
    <3> HIDE DEF L, n, First, Ahead
    <3>3. Ahead(t) \subseteq Ahead(t)' \cup {L[index[t]]}
      BY <2>5, <2>6, <3>2
    <3>4. Ahead(t)' \subseteq Ahead(t)
      BY <2>5, <2>6, <3>2
    <3>5. L[index[t]] \notin Ahead(t)'
      <4>1. ASSUME NEW i \in 1 .. n, i >= index[t] + 1, L[i] = L[index[t]] PROVE FALSE
        <5>1. i = index[t]
          BY <2>5, <3>1, <4>1
        <5> QED
          BY <2>5, <3>2, <4>1, <5>1
      <4>2. L[index[t]] \in Ahead(t)'
               <=> \E i \in 1 .. n : i >= index[t] + 1 /\ L[i] = L[index[t]]
        BY <2>5, <2>6
      <4> QED
        BY <4>1, <4>2
    <3> QED
      BY <3>3, <3>4, <3>5
  <2>8. UNCHANGED Registered /\ Walking(t)
    BY <2>1
  <2> HIDE DEF L, Ahead, Walking, Registered, DataInv, HistoryInv, IndexInv, ListInv
  <2> QED
    BY <2>1, <2>2, <2>4, <2>7, <2>8
<1>11. ASSUME NEW t \in Tellers, WalkReturns(t) PROVE WalkInv'
  BY <1>11 DEF WalkReturns, Enter
<1>12. ASSUME NEW t \in Tellers, WalkDone(t) PROVE WalkInv'
  BY <1>12 DEF WalkDone, End, Enter
<1>13. ASSUME NEW t \in Tellers, WalkAstray(t) PROVE WalkInv'
  BY <1>13 DEF WalkAstray, End, Enter
<1>14. ASSUME NEW t \in Tellers, WalkThrows(t) PROVE WalkInv'
  BY <1>14 DEF WalkThrows, End, Enter
<1> HIDE DEF WalkInv
<1> QED
  BY <1>1, <1>2, <1>3, <1>4, <1>5, <1>6, <1>7, <1>8, <1>9, <1>10, <1>11, <1>12, <1>13, <1>14 DEF Next, Client, Teller

-------------------------------------------------------------------------------
IInv == /\ DataInv /\ RefsInv /\ HistoryInv /\ IndexInv /\ ListInv
        /\ ReferencesBalanced /\ CopyInv /\ WalkInv

\* The invariant holds at the start, when nobody is registered.
LEMMA InitIInv == Init => IInv
<1> SUFFICES ASSUME Init PROVE IInv
  OBVIOUS
<1>1. <<>> \in Seq(Clients) /\ Range(<<>>) = {} /\ AllDifferent(<<>>) /\ Len(<<>>) = 0
  BY EmptySeq DEF Range, AllDifferent
<1>2. DataInv /\ RefsInv /\ HistoryInv /\ IndexInv
  BY <1>1 DEF Init, DataInv, RefsInv, HistoryInv, IndexInv, States
<1>3. ListInv /\ CopyInv /\ WalkInv
  BY <1>1 DEF Init, ListInv, CopyInv, WalkInv, Walking
<1>4. ReferencesBalanced
  <2>1. Registered = {} /\ \A t \in Tellers : Range(notifyList[t]) = {}
    BY <1>1 DEF Init, Registered
  <2> QED
    BY <2>1 DEF Init, ReferencesBalanced, Holders
<1> QED
  BY <1>2, <1>3, <1>4 DEF IInv

\* Nothing that clients and threads do together leaves the invariant.
THEOREM Invariant == Spec => []IInv
<1>1. IInv /\ [Next]_vars => IInv'
  <2> SUFFICES ASSUME IInv, [Next]_vars PROVE IInv'
    OBVIOUS
  <2>1. CASE Next
    <3>1. DataInv' /\ RefsInv' /\ HistoryInv' /\ IndexInv' /\ ListInv'
      BY <2>1, KeepsData, KeepsRefs, KeepsHistory, KeepsIndex, KeepsList DEF IInv
    <3>2. ReferencesBalanced' /\ CopyInv' /\ WalkInv'
      BY <2>1, KeepsReferences, KeepsCopy, KeepsWalk DEF IInv
    <3> QED
      BY <3>1, <3>2 DEF IInv
  <2>2. CASE UNCHANGED vars
    BY <2>2 DEF vars, event, IInv, DataInv, RefsInv, HistoryInv, IndexInv, ListInv, AllDifferent,
                ReferencesBalanced, Registered, CopyInv, WalkInv, Walking, Ahead, First
  <2> QED
    BY <2>1, <2>2
<1> QED
  BY <1>1, InitIInv, PTL DEF Spec

\* The variables keep their types; a walk never leaves the list it walks.
THEOREM TypeCorrect == Spec => []TypeOK
<1>1. IInv => TypeOK
  <2> SUFFICES ASSUME IInv PROVE TypeOK
    OBVIOUS
  <2>1. /\ DOMAIN _hdmiCecSourceNotifications = 1 .. Len(_hdmiCecSourceNotifications)
        /\ Len(_hdmiCecSourceNotifications) \in Nat
    BY LenProperties DEF IInv, DataInv
  <2>2. ASSUME NEW t \in Tellers
        PROVE  /\ Walking(t) => index[t] <= Len(_hdmiCecSourceNotifications) + 1
               /\ state[t] = "inside" => index[t] \in DOMAIN _hdmiCecSourceNotifications
    BY <2>1 DEF IInv, IndexInv, Walking
  <2> QED
    BY <2>2 DEF IInv, DataInv, RefsInv, HistoryInv, IndexInv, TypeOK
<1> QED
  BY <1>1, Invariant, PTL

\* However registrations and events overlap, no reference is lost or left over.
THEOREM Balanced == Spec => []ReferencesBalanced
<1>1. IInv => ReferencesBalanced
  BY DEF IInv
<1> QED
  BY <1>1, Invariant, PTL

\* Whoever unregisters and lets go meanwhile, a client that is called is there.
THEOREM AliveInside == Spec => []CalledAlive
<1>1. IInv => CalledAlive
  <2> SUFFICES ASSUME IInv, NEW t \in Tellers
               PROVE  /\ state[t] = "called" => Alive(Head(notifyList[t]))
                      /\ state[t] = "inside" => Alive(_hdmiCecSourceNotifications[index[t]])
    BY DEF CalledAlive
  <2>1. CASE state[t] = "called"
    <3>1. notifyList[t] \in Seq(Clients) /\ notifyList[t] # <<>> /\ AllDifferent(notifyList[t])
      BY <2>1 DEF IInv, DataInv, ListInv
    <3>2. Head(notifyList[t]) \in Clients /\ Head(notifyList[t]) \in Range(notifyList[t])
      BY <3>1, TailFacts
    <3>3. refs[Head(notifyList[t])][t] = 1 /\ t \in Holders
      BY <3>2 DEF IInv, ReferencesBalanced, Holders
    <3> QED
      BY <2>1, <3>3 DEF Alive
  <2>2. CASE state[t] = "inside"
    <3> DEFINE c == _hdmiCecSourceNotifications[index[t]]
    <3>1. index[t] \in 1 .. Len(_hdmiCecSourceNotifications)
      <4>1. Len(_hdmiCecSourceNotifications) \in Nat
        BY LenProperties DEF IInv, DataInv
      <4> QED
        BY <2>2, <4>1 DEF IInv, IndexInv
    <3>2. c \in Registered /\ c \in Clients
      BY <3>1, RangeFacts DEF Registered, IInv, DataInv
    <3>3. refs[c][List] = 1 /\ List \in Holders
      BY <3>2 DEF IInv, ReferencesBalanced, Holders
    <3> QED
      BY <2>2, <3>3 DEF Alive
  <2> QED
    BY <2>1, <2>2
<1> QED
  BY <1>1, Invariant, PTL

\* An event tells each client that stays registered, and tells it once; only those
\* behind a client that throws in a walk are left out.
THEOREM ToldOnce == Spec => []EveryClientOnce
<1>1. IInv => EveryClientOnce
  <2> SUFFICES ASSUME IInv, NEW t \in Tellers
               PROVE  /\ state[t] = "copied" =>
                            /\ notifyList[t] = <<>> => due[t] \subseteq told[t]
                            /\ notifyList[t] # <<>> => Head(notifyList[t]) \notin told[t]
                      /\ state[t] = "walk" =>
                            IF index[t] \in DOMAIN _hdmiCecSourceNotifications
                            THEN _hdmiCecSourceNotifications[index[t]] \notin told[t]
                            ELSE due[t] \subseteq told[t]
                      /\ state[t] = "inside" => /\ due[t] \subseteq told[t] \cup Behind(t)
                                                /\ told[t] \cap Behind(t) = {}
    BY DEF EveryClientOnce
  <2>1. CASE state[t] = "copied"
    <3>1. /\ notifyList[t] \in Seq(Clients) /\ AllDifferent(notifyList[t])
          /\ due[t] \subseteq told[t] \cup Range(notifyList[t])
          /\ told[t] \cap Range(notifyList[t]) = {}
      BY <2>1 DEF IInv, DataInv, ListInv, CopyInv
    <3>2. notifyList[t] # <<>> => Head(notifyList[t]) \in Range(notifyList[t])
      BY <3>1, TailFacts
    <3>3. notifyList[t] = <<>> => Range(notifyList[t]) = {}
      BY DEF Range
    <3> QED
      BY <2>1, <3>1, <3>2, <3>3
  <2>2. CASE state[t] = "walk"
    <3>1. /\ DOMAIN _hdmiCecSourceNotifications = 1 .. Len(_hdmiCecSourceNotifications)
          /\ Len(_hdmiCecSourceNotifications) \in Nat
      BY LenProperties DEF IInv, DataInv
    <3>2. /\ due[t] \subseteq told[t] \cup Ahead(t) /\ told[t] \cap Ahead(t) = {}
          /\ First(t) = index[t] /\ index[t] \in Nat \ {0}
      BY <2>2 DEF IInv, IndexInv, WalkInv, Walking, First
    <3>3. CASE index[t] \in DOMAIN _hdmiCecSourceNotifications
      <4>1. _hdmiCecSourceNotifications[index[t]] \in Ahead(t)
        BY <3>1, <3>2, <3>3 DEF Ahead
      <4> QED
        BY <2>2, <3>2, <3>3, <4>1
    <3>4. CASE index[t] \notin DOMAIN _hdmiCecSourceNotifications
      <4>1. Ahead(t) = {}
        BY <3>1, <3>2, <3>4 DEF Ahead
      <4> QED
        BY <2>2, <3>2, <3>4, <4>1
    <3> QED
      BY <3>3, <3>4
  <2>3. CASE state[t] = "inside"
    <3>1. /\ DOMAIN _hdmiCecSourceNotifications = 1 .. Len(_hdmiCecSourceNotifications)
          /\ First(t) = index[t] + 1 /\ index[t] \in Nat
      BY <2>3, LenProperties DEF IInv, DataInv, IndexInv, First
    <3>2. Ahead(t) = Behind(t)
      BY <3>1, LenProperties DEF Ahead, Behind
    <3>3. due[t] \subseteq told[t] \cup Ahead(t) /\ told[t] \cap Ahead(t) = {}
      BY <2>3 DEF IInv, WalkInv, Walking
    <3> QED
      BY <2>3, <3>2, <3>3
  <2> QED
    BY <2>1, <2>2, <2>3
<1> QED
  BY <1>1, Invariant, PTL
===============================================================================

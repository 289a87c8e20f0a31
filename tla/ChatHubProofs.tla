---------------------------- MODULE ChatHubProofs ----------------------------
(***************************************************************************)
(* Proofs about ChatHub, for any sets of rooms, connections and Go         *)
(* channels and finitely many users: HubInv is inductive, DeliveryInv is   *)
(* inductive under it, and the properties of ChatHub follow from the two.  *)
(*                                                                         *)
(* Each step is followed by what it leaves alone (the frame lemmas) and by *)
(* the parts of the invariant it can disturb.                              *)
(***************************************************************************)
EXTENDS ChatHub, TLAPS, FiniteSetTheorems

-----------------------------------------------------------------------------
(* What the parts of HubInv depend on                                      *)

\* The types of the bus.
LEMMA BusFrame ==
  ASSUME BusTypeOK, UNCHANGED busVars
  PROVE  BusTypeOK'
BY DEF BusTypeOK, busVars

\* The types of the store.
LEMMA StoreFrame ==
  ASSUME StoreTypeOK, UNCHANGED storeVars
  PROVE  StoreTypeOK'
BY DEF StoreTypeOK, storeVars, memberVars, sendVars

\* The types of the hub.
LEMMA HubFrame ==
  ASSUME HubTypeOK, UNCHANGED <<hubVars, bridgeVars>>
  PROVE  HubTypeOK'
BY DEF HubTypeOK, hubVars, bridgeVars

\* The types of LeaveAllForUser.
LEMMA LeaveFrame ==
  ASSUME LeaveTypeOK, UNCHANGED leaveVars
  PROVE  LeaveTypeOK'
BY DEF LeaveTypeOK, leaveVars

\* Membership, seen from both sides.
LEMMA MembersFrame ==
  ASSUME MembersMirrored, UNCHANGED memberVars
  PROVE  MembersMirrored'
BY DEF MembersMirrored, memberVars

\* The references count members.
LEMMA RefsFrame ==
  ASSUME RefsConsistent, UNCHANGED <<members, hubVars>>
  PROVE  RefsConsistent'
BY DEF RefsConsistent, hubVars

\* The subscriptions of the bus have nothing to do with the store.
LEMMA ChannelsFrame ==
  ASSUME BusConsistent, UNCHANGED <<busVars, entry, bridgeVars>>
  PROVE  BusConsistent'
BY DEF BusConsistent, busVars, bridgeVars

\* Nor have the entries, which look at the caller inside Hub.mu.
LEMMA EntryFrame ==
  ASSUME EntryConsistent, call'.op = call.op \/ call.op # "close",
         UNCHANGED <<busSubs, busClosed, entry, bridgeVars>>
  PROVE  EntryConsistent'
BY DEF EntryConsistent, bridgeVars

\* A bridge is owned by an entry.
LEMMA BridgesFrame ==
  ASSUME BridgesOwned, UNCHANGED <<entry, bridge, cancelled>>
  PROVE  BridgesOwned'
BY DEF BridgesOwned

\* A connection is owned by a user.
LEMMA PanicFrame ==
  ASSUME NoPanic, UNCHANGED <<clients, send>>
  PROVE  NoPanic'
BY DEF NoPanic

\* The rooms a LeaveAllForUser has to answer for.
LEMMA LeavesFrame ==
  ASSUME LeaveAllLeaves, UNCHANGED <<userRooms, leaveVars>>
  PROVE  LeaveAllLeaves'
BY DEF LeaveAllLeaves, leaveVars

\* An element of a sequence.
LEMMA Element ==
  ASSUME NEW S, NEW q \in Seq(S), NEW i \in 1..Len(q)
  PROVE  q[i] \in S
OBVIOUS

\* The members of a room can be counted.
LEMMA Counted ==
  ASSUME HubInv, NEW r \in Room
  PROVE  IsFiniteSet(members[r]) /\ Cardinality(members[r]) \in Nat
<1>1. members[r] \subseteq User
  BY DEF HubInv, TypeOK, StoreTypeOK
<1>2. IsFiniteSet(members[r])
  BY <1>1, FS_Subset, ChatHubAssumption
<1> QED BY <1>2, FS_CardinalityType

\* What the entry of a room is.
LEMMA EntryOf ==
  ASSUME HubInv, NEW r \in Room, entry[r] # None
  PROVE  /\ entry[r] \in Sub /\ serves[entry[r]] = r
         /\ entry[r] \in cancelled => call.op = "close"
         /\ entry[r] \notin cancelled /\ ~busClosed => bridge[entry[r]] \in {"select", "holding"}
         /\ \A q \in Room \ {r} : entry[q] # entry[r]
<1>1. entry[r] \in Sub
  BY DEF HubInv, TypeOK, HubTypeOK
<1>2. \A q \in Room : entry[q] # None => serves[entry[q]] = q
  BY DEF HubInv, EntryConsistent
<1>3. /\ entry[r] \in cancelled => call.op = "close"
      /\ entry[r] \notin cancelled /\ ~busClosed => bridge[entry[r]] \in {"select", "holding"}
  BY DEF HubInv, EntryConsistent
<1>4. ASSUME NEW q \in Room \ {r}, entry[q] = entry[r] PROVE FALSE
  <2>1. serves[entry[q]] = q /\ serves[entry[r]] = r
    BY <1>2, <1>4
  <2> QED BY <2>1, <1>4
<1> QED BY <1>1, <1>2, <1>3, <1>4

\* While the bus is open, a room is subscribed through its entry only.
LEMMA SubscriptionOf ==
  ASSUME HubInv, NEW r \in Room, ~busClosed
  PROVE  busSubs[r] = IF entry[r] = None \/ entry[r] \in cancelled THEN {} ELSE {entry[r]}
BY DEF HubInv, EntryConsistent

-----------------------------------------------------------------------------
(* Register and Unregister                                                 *)

\* The old connection is closed, the new one was in use nowhere.
LEMMA RegisterPanic ==
  ASSUME HubInv, NEW u \in User, NEW k \in Conn, Register(u, k)
  PROVE  NoPanic' /\ StoreTypeOK'
<1>1. /\ send[k] = "free" /\ clients' = [clients EXCEPT ![u] = k]
      /\ send' = [Closing(clients[u]) EXCEPT ![k] = "open"]
      /\ clients \in [User -> Conn \cup {None}]
      /\ send \in [Conn -> {"free", "open", "closed"}]
  BY DEF Register, HubInv, TypeOK, StoreTypeOK
<1>2. Closing(clients[u]) \in [Conn -> {"free", "open", "closed"}]
  BY <1>1 DEF Closing
<1>3. clients' \in [User -> Conn \cup {None}] /\ send' \in [Conn -> {"free", "open", "closed"}]
  BY <1>1, <1>2
<1>4. StoreTypeOK'
  BY <1>3 DEF StoreTypeOK, Register, memberVars, HubInv, TypeOK
<1>5. \A v \in User : clients'[v] = IF v = u THEN k ELSE clients[v]
  BY <1>1
<1>6. \A j \in Conn : send'[j] = IF j = k THEN "open"
                                 ELSE IF j = clients[u] THEN "closed" ELSE send[j]
  <2>1. \A j \in Conn : Closing(clients[u])[j] = IF j = clients[u] THEN "closed" ELSE send[j]
    BY <1>1, ChatHubAssumption DEF Closing
  <2> QED BY <1>1, <1>2, <2>1
<1>7. \A v \in User : clients[v] # k
  BY <1>1, ChatHubAssumption DEF HubInv, NoPanic
<1>8. ASSUME NEW v \in User, clients'[v] # None PROVE send'[clients'[v]] = "open"
  <2>1. CASE v = u
    BY <2>1, <1>5, <1>6
  <2>2. CASE v # u
    <3>1. clients'[v] = clients[v] /\ clients[v] \in Conn /\ send[clients[v]] = "open"
      BY <2>2, <1>1, <1>5, <1>8 DEF HubInv, NoPanic
    <3>2. clients[v] # clients[u]
      BY <3>1, <2>2 DEF HubInv, NoPanic
    <3> QED BY <3>1, <3>2, <1>6, <1>7
  <2> QED BY <2>1, <2>2
<1>9. ASSUME NEW j \in Conn, send'[j] = "open"
      PROVE  \E v \in User : clients'[v] = j /\ \A w \in User \ {v} : clients'[w] # j
  <2>1. CASE j = k
    BY <2>1, <1>5, <1>7
  <2>2. CASE j # k
    <3>1. send[j] = "open" /\ j # clients[u]
      BY <2>2, <1>6, <1>9
    <3>2. PICK v \in User : clients[v] = j /\ \A w \in User \ {v} : clients[w] # j
      BY <3>1 DEF HubInv, NoPanic
    <3> QED BY <3>1, <3>2, <2>2, <1>5
  <2> QED BY <2>1, <2>2
<1>10. NoPanic'
  BY <1>8, <1>9 DEF NoPanic
<1> QED BY <1>4, <1>10

\* A connection is closed together with its registration.
LEMMA UnregisterPanic ==
  ASSUME HubInv, NEW u \in User, Unregister(u)
  PROVE  NoPanic' /\ StoreTypeOK'
<1>1. /\ clients[u] # None /\ clients' = [clients EXCEPT ![u] = None]
      /\ send' = Closing(clients[u])
      /\ clients \in [User -> Conn \cup {None}]
      /\ send \in [Conn -> {"free", "open", "closed"}]
  BY DEF Unregister, HubInv, TypeOK, StoreTypeOK
<1>2. clients' \in [User -> Conn \cup {None}] /\ send' \in [Conn -> {"free", "open", "closed"}]
  BY <1>1 DEF Closing
<1>3. StoreTypeOK'
  BY <1>2 DEF StoreTypeOK, Unregister, memberVars, HubInv, TypeOK
<1>4. \A v \in User : clients'[v] = IF v = u THEN None ELSE clients[v]
  BY <1>1
<1>5. \A j \in Conn : send'[j] = IF j = clients[u] THEN "closed" ELSE send[j]
  BY <1>1 DEF Closing
<1>6. ASSUME NEW v \in User, clients'[v] # None PROVE send'[clients'[v]] = "open"
  <2>1. v # u /\ clients'[v] = clients[v] /\ clients[v] \in Conn /\ send[clients[v]] = "open"
    BY <1>1, <1>4, <1>6 DEF HubInv, NoPanic
  <2>2. clients[v] # clients[u]
    BY <2>1 DEF HubInv, NoPanic
  <2> QED BY <2>1, <2>2, <1>5
<1>7. ASSUME NEW j \in Conn, send'[j] = "open"
      PROVE  \E v \in User : clients'[v] = j /\ \A w \in User \ {v} : clients'[w] # j
  <2>1. send[j] = "open" /\ j # clients[u]
    BY <1>5, <1>7
  <2>2. PICK v \in User : clients[v] = j /\ \A w \in User \ {v} : clients[w] # j
    BY <2>1 DEF HubInv, NoPanic
  <2>3. None # j
    BY ChatHubAssumption
  <2> QED BY <2>1, <2>2, <2>3, <1>4
<1>8. NoPanic'
  BY <1>6, <1>7 DEF NoPanic
<1> QED BY <1>3, <1>8

\* Only the connections are concerned.
LEMMA RegisterStep ==
  ASSUME HubInv, NEW u \in User, (\E k \in Conn : Register(u, k)) \/ Unregister(u)
  PROVE  HubInv'
<1>1. UNCHANGED <<busVars, memberVars, hubVars, bridgeVars, leaveVars>>
  BY DEF Register, Unregister
<1>2. UNCHANGED <<members, userRooms, busSubs, busClosed, call, entry, bridge, cancelled>>
  BY <1>1 DEF busVars, memberVars, hubVars, bridgeVars
<1>3. NoPanic' /\ StoreTypeOK'
  BY RegisterPanic, UnregisterPanic
<1>4. TypeOK'
  BY <1>1, <1>3, BusFrame, HubFrame, LeaveFrame DEF HubInv, TypeOK
<1> QED BY <1>1, <1>2, <1>3, <1>4, MembersFrame, RefsFrame, ChannelsFrame, EntryFrame,
   BridgesFrame, LeavesFrame DEF HubInv

-----------------------------------------------------------------------------
(* Membership                                                              *)

\* A member more.
LEMMA EnterCounts ==
  ASSUME HubInv, NEW r \in Room, NEW u \in User, r \notin userRooms[u], Enter(r, u)
  PROVE  /\ members' \in [Room -> SUBSET User] /\ userRooms' \in [User -> SUBSET Room]
         /\ MembersMirrored'
         /\ \A q \in Room : Cardinality(members'[q]) =
               Cardinality(members[q]) + (IF q = r THEN 1 ELSE 0)
<1>1. /\ members' = [members EXCEPT ![r] = @ \cup {u}]
      /\ userRooms' = [userRooms EXCEPT ![u] = @ \cup {r}]
      /\ members \in [Room -> SUBSET User] /\ userRooms \in [User -> SUBSET Room]
  BY DEF Enter, HubInv, TypeOK, StoreTypeOK
<1>2. members' \in [Room -> SUBSET User] /\ userRooms' \in [User -> SUBSET Room]
  BY <1>1
<1>3. MembersMirrored'
  BY <1>1 DEF HubInv, MembersMirrored
<1>4. u \notin members[r]
  BY DEF HubInv, MembersMirrored
<1>5. Cardinality(members[r] \cup {u}) = Cardinality(members[r]) + 1
  BY <1>4, Counted, FS_AddElement
<1>6. ASSUME NEW q \in Room
      PROVE  Cardinality(members'[q]) = Cardinality(members[q]) + (IF q = r THEN 1 ELSE 0)
  <2>1. CASE q = r
    BY <2>1, <1>1, <1>5
  <2>2. CASE q # r
    BY <2>2, <1>1, Counted
  <2> QED BY <2>1, <2>2
<1> QED BY <1>2, <1>3, <1>6

\* A member less.
LEMMA LeaveCounts ==
  ASSUME HubInv, NEW r \in Room, NEW u \in User, u \in members[r], Leave(r, u)
  PROVE  /\ members' \in [Room -> SUBSET User] /\ userRooms' \in [User -> SUBSET Room]
         /\ MembersMirrored'
         /\ \A v \in User : userRooms'[v] \subseteq userRooms[v]
         /\ r \notin userRooms'[u]
         /\ \A q \in Room : Cardinality(members'[q]) =
               Cardinality(members[q]) - (IF q = r THEN 1 ELSE 0)
<1>1. /\ members' = [members EXCEPT ![r] = @ \ {u}]
      /\ userRooms' = [userRooms EXCEPT ![u] = @ \ {r}]
      /\ members \in [Room -> SUBSET User] /\ userRooms \in [User -> SUBSET Room]
  BY DEF Leave, HubInv, TypeOK, StoreTypeOK
<1>2. members' \in [Room -> SUBSET User] /\ userRooms' \in [User -> SUBSET Room]
  BY <1>1
<1>3. MembersMirrored' /\ \A v \in User : userRooms'[v] \subseteq userRooms[v]
  BY <1>1 DEF HubInv, MembersMirrored
<1>4. r \notin userRooms'[u]
  BY <1>1
<1>5. Cardinality(members[r] \ {u}) = Cardinality(members[r]) - 1
  BY Counted, FS_RemoveElement
<1>6. ASSUME NEW q \in Room
      PROVE  Cardinality(members'[q]) = Cardinality(members[q]) - (IF q = r THEN 1 ELSE 0)
  <2>1. CASE q = r
    BY <2>1, <1>1, <1>5
  <2>2. CASE q # r
    BY <2>2, <1>1, Counted
  <2> QED BY <2>1, <2>2
<1> QED BY <1>2, <1>3, <1>4, <1>6

\* A call that names a room and a user.
LEMMA CallTypes ==
  ASSUME NEW o \in {"none", "join", "leave", "close"}, NEW r \in Room \cup {None},
         NEW u \in User \cup {None}
  PROVE  [op |-> o, room |-> r, user |-> u] \in
            [op : {"none", "join", "leave", "close"}, room : Room \cup {None},
             user : User \cup {None}]
OBVIOUS

\* The caller inside JoinRoom is a member that refs lacks.
LEMMA JoinStoreStep ==
  ASSUME HubInv, NEW r \in Room, NEW u \in User, JoinStore(r, u)
  PROVE  HubInv'
<1>1. /\ call = Idle /\ r \notin userRooms[u] /\ Enter(r, u)
      /\ rejoined' = IF u \in leaving THEN [rejoined EXCEPT ![u] = @ \cup {r}] ELSE rejoined
      /\ call' = [op |-> "join", room |-> r, user |-> u]
      /\ UNCHANGED <<busVars, clients, sendVars, entry, refs, bridgeVars, leaving, pending>>
  BY DEF JoinStore
<1>2. UNCHANGED <<busSubs, busClosed, send, sendLog, bridge, cancelled, hand, serves>>
  BY <1>1 DEF busVars, sendVars, bridgeVars
<1>3. call.op = "none" /\ call'.op = "join" /\ call'.room = r /\ call'.user = u
  BY <1>1 DEF Idle
<1>4. /\ members' \in [Room -> SUBSET User] /\ userRooms' \in [User -> SUBSET Room]
      /\ MembersMirrored'
      /\ \A q \in Room : Cardinality(members'[q]) =
            Cardinality(members[q]) + (IF q = r THEN 1 ELSE 0)
  BY <1>1, EnterCounts
<1>5. StoreTypeOK'
  BY <1>1, <1>2, <1>4 DEF HubInv, TypeOK, StoreTypeOK
<1>6. HubTypeOK'
  BY <1>1, <1>2, CallTypes DEF HubInv, TypeOK, HubTypeOK
<1>7. LeaveTypeOK'
  BY <1>1 DEF HubInv, TypeOK, LeaveTypeOK
<1>8. TypeOK'
  BY <1>1, <1>5, <1>6, <1>7, BusFrame DEF HubInv, TypeOK
<1>9. RefsConsistent'
  <2>1. u \in members'[r]
    BY <1>1 DEF Enter, HubInv, TypeOK, StoreTypeOK
  <2>2. ASSUME NEW q \in Room
        PROVE  /\ Cardinality(members'[q]) = refs'[q] + (IF q = r THEN 1 ELSE 0)
               /\ entry'[q] = None => refs'[q] = 0
               /\ entry'[q] # None => refs'[q] > 0
    BY <1>1, <1>3, <1>4, Counted DEF HubInv, RefsConsistent, TypeOK, HubTypeOK
  <2> QED BY <2>1, <2>2, <1>3 DEF RefsConsistent
<1>10. LeaveAllLeaves'
  BY <1>1 DEF Enter, HubInv, TypeOK, StoreTypeOK, LeaveTypeOK, LeaveAllLeaves
<1> QED BY <1>1, <1>2, <1>3, <1>4, <1>8, <1>9, <1>10, ChannelsFrame, EntryFrame,
   BridgesFrame, PanicFrame DEF HubInv

-----------------------------------------------------------------------------
(* JoinRoom, after the store                                               *)

\* A user is inside JoinRoom, in a room.
LEMMA InsideCall ==
  ASSUME HubInv, call.op \in {"join", "leave"}
  PROVE  call.room \in Room /\ call.user \in User
BY DEF HubInv, RefsConsistent

\* Nobody is inside.
LEMMA IdleCall == Idle.op = "none" /\ Idle.room = None /\ Idle.user = None
BY DEF Idle

\* Idle is a call.
LEMMA IdleTypes ==
  Idle \in [op : {"none", "join", "leave", "close"}, room : Room \cup {None},
            user : User \cup {None}]
BY DEF Idle

\* The Go channel is new: no entry names it, no bridge reads it.
LEMMA JoinSubscribeStep ==
  ASSUME HubInv, NEW s \in Sub, JoinSubscribe(s)
  PROVE  HubInv'
<1> DEFINE r == call.room
<1>1. /\ call.op = "join" /\ entry[r] = None /\ Bus!Subscribe(r, s)
      /\ entry' = [entry EXCEPT ![r] = s] /\ refs' = [refs EXCEPT ![r] = 1]
      /\ bridge' = [bridge EXCEPT ![s] = "select"] /\ serves' = [serves EXCEPT ![s] = r]
      /\ call' = Idle /\ UNCHANGED <<storeVars, hand, cancelled, leaveVars>>
  BY DEF JoinSubscribe
<1>2. r \in Room
  BY <1>1, InsideCall
<1>3. /\ ~busClosed /\ busOffering = {} /\ busChan[s] = "free"
      /\ busChan' = [busChan EXCEPT ![s] = "open"]
      /\ busSubs' = [busSubs EXCEPT ![r] = @ \cup {s}]
      /\ UNCHANGED <<busLog, busRd, busLast, busOffering, busClosed>>
  BY <1>1 DEF Bus!Subscribe
<1>4. s # None /\ s \notin cancelled /\ bridge[s] = "none" /\ \A q \in Room : entry[q] # s
  BY <1>3, ChatHubAssumption DEF HubInv, BusConsistent
<1>5. UNCHANGED <<memberVars, members, userRooms, clients, send>>
  BY <1>1 DEF storeVars, memberVars, sendVars
<1>6. BusTypeOK'
  BY <1>2, <1>3 DEF HubInv, TypeOK, BusTypeOK
<1>7. HubTypeOK'
  <2>1. entry' \in [Room -> Sub \cup {None}] /\ serves' \in [Sub -> Room \cup {None}]
    BY <1>1, <1>2 DEF HubInv, TypeOK, HubTypeOK
  <2>2. refs' \in [Room -> Nat]
    BY <1>1, <1>2 DEF HubInv, TypeOK, HubTypeOK
  <2>3. bridge' \in [Sub -> {"none", "select", "holding", "done"}]
    BY <1>1 DEF HubInv, TypeOK, HubTypeOK
  <2> QED BY <2>1, <2>2, <2>3, <1>1, IdleTypes DEF HubInv, TypeOK, HubTypeOK
<1>8. TypeOK'
  BY <1>1, <1>6, <1>7, StoreFrame, LeaveFrame DEF HubInv, TypeOK
<1>9. \A q \in Room : /\ entry'[q] = IF q = r THEN s ELSE entry[q]
                      /\ refs'[q] = IF q = r THEN 1 ELSE refs[q]
                      /\ busSubs'[q] = IF q = r THEN busSubs[r] \cup {s} ELSE busSubs[q]
  BY <1>1, <1>3 DEF HubInv, TypeOK, BusTypeOK, HubTypeOK
<1>10. \A t \in Sub : /\ bridge'[t] = IF t = s THEN "select" ELSE bridge[t]
                      /\ serves'[t] = IF t = s THEN r ELSE serves[t]
                      /\ busChan'[t] = IF t = s THEN "open" ELSE busChan[t]
  BY <1>1, <1>3 DEF HubInv, TypeOK, BusTypeOK, HubTypeOK
<1>11. RefsConsistent'
  <2>1. ASSUME NEW q \in Room
        PROVE  /\ Cardinality(members[q]) = refs'[q]
               /\ entry'[q] = None => refs'[q] = 0
               /\ entry'[q] # None => refs'[q] > 0
    <3>1. /\ Cardinality(members[q]) = refs[q] + (IF r = q THEN 1 ELSE 0)
          /\ entry[q] = None => refs[q] = 0
          /\ entry[q] # None => refs[q] > 0
      BY <1>1 DEF HubInv, RefsConsistent
    <3>2. refs[q] \in Nat
      BY DEF HubInv, TypeOK, HubTypeOK
    <3> QED BY <3>1, <3>2, <1>1, <1>4, <1>9
  <2> QED BY <2>1, <1>1, <1>5, IdleCall, Counted DEF RefsConsistent
<1>12. BusConsistent'
  BY <1>1, <1>3, <1>4, <1>9, <1>10 DEF HubInv, BusConsistent
<1>13. EntryConsistent'
  <2>1. busSubs[r] = {}
    BY <1>1, <1>2, <1>3 DEF HubInv, EntryConsistent
  <2>2. busSubs'[r] = {s} /\ entry'[r] = s
    BY <2>1, <1>2, <1>9
  <2>3. serves'[s] = r /\ bridge'[s] = "select"
    BY <1>10
  <2>4. ASSUME NEW q \in Room, q # r
        PROVE  /\ busSubs'[q] = busSubs[q] /\ entry'[q] = entry[q]
               /\ entry[q] # None => serves'[entry[q]] = serves[entry[q]]
                                     /\ bridge'[entry[q]] = bridge[entry[q]]
    BY <2>4, <1>4, <1>9, <1>10 DEF HubInv, TypeOK, HubTypeOK
  <2>5. ASSUME NEW q \in Room, entry[q] # None, entry[q] \in cancelled PROVE FALSE
    BY <2>5, <1>1 DEF HubInv, EntryConsistent
  <2>6. ASSUME NEW q \in Room
        PROVE  /\ busSubs'[q] = IF entry'[q] = None \/ entry'[q] \in cancelled
                                THEN {} ELSE {entry'[q]}
               /\ entry'[q] # None => /\ serves'[entry'[q]] = q
                                      /\ entry'[q] \notin cancelled
                                      /\ bridge'[entry'[q]] \in {"select", "holding"}
    <3>1. CASE q = r
      BY <3>1, <2>2, <2>3, <1>4
    <3>2. CASE q # r
      BY <3>2, <2>4, <2>5, <1>3 DEF HubInv, EntryConsistent
    <3> QED BY <3>1, <3>2
  <2> QED BY <2>6, <1>1 DEF EntryConsistent
<1>14. BridgesOwned'
  <2> SUFFICES ASSUME NEW t \in Sub, bridge'[t] \in {"select", "holding"}
               PROVE  t \in cancelled \/ \E q \in Room : entry'[q] = t
    BY <1>1 DEF BridgesOwned
  <2>1. CASE t = s
    BY <2>1, <1>2, <1>9
  <2>2. CASE t # s
    <3>1. t \in cancelled \/ \E q \in Room : entry[q] = t
      BY <2>2, <1>10 DEF HubInv, BridgesOwned
    <3>2. ASSUME NEW q \in Room, entry[q] = t PROVE entry'[q] = t
      BY <3>2, <1>1, <1>9, ChatHubAssumption
    <3> QED BY <3>1, <3>2
  <2> QED BY <2>1, <2>2
<1> QED BY <1>1, <1>5, <1>8, <1>11, <1>12, <1>13, <1>14, MembersFrame, PanicFrame,
   LeavesFrame DEF HubInv

\* refs catches up with the member.
LEMMA JoinCountStep ==
  ASSUME HubInv, JoinCount
  PROVE  HubInv'
<1> DEFINE r == call.room
<1>1. /\ call.op = "join" /\ entry[r] # None /\ refs' = [refs EXCEPT ![r] = @ + 1]
      /\ call' = Idle /\ UNCHANGED <<busVars, storeVars, entry, bridgeVars, leaveVars>>
  BY DEF JoinCount
<1>2. r \in Room
  BY <1>1, InsideCall
<1>3. UNCHANGED <<memberVars, members, userRooms, clients, send, busSubs, busClosed,
                  bridge, hand, serves, cancelled>>
  BY <1>1 DEF storeVars, memberVars, sendVars, busVars, bridgeVars
<1>4. refs \in [Room -> Nat] /\ refs' \in [Room -> Nat]
  BY <1>1, <1>2 DEF HubInv, TypeOK, HubTypeOK
<1>5. TypeOK'
  BY <1>1, <1>3, <1>4, IdleTypes, BusFrame, StoreFrame, LeaveFrame DEF HubInv, TypeOK,
     HubTypeOK
<1>6. RefsConsistent'
  <2>1. ASSUME NEW q \in Room
        PROVE  /\ Cardinality(members[q]) = refs'[q]
               /\ entry[q] = None => refs'[q] = 0
               /\ entry[q] # None => refs'[q] > 0
    <3>1. /\ Cardinality(members[q]) = refs[q] + (IF r = q THEN 1 ELSE 0)
          /\ entry[q] = None => refs[q] = 0
          /\ entry[q] # None => refs[q] > 0
      BY <1>1 DEF HubInv, RefsConsistent
    <3>2. refs'[q] = refs[q] + (IF r = q THEN 1 ELSE 0) /\ refs[q] \in Nat
      BY <1>1, <1>4
    <3> QED BY <3>1, <3>2, <1>1
  <2> QED BY <2>1, <1>1, <1>3, <1>4, IdleCall DEF RefsConsistent
<1> QED BY <1>1, <1>3, <1>5, <1>6, IdleCall, MembersFrame, ChannelsFrame, EntryFrame,
   BridgesFrame, PanicFrame, LeavesFrame DEF HubInv

\* The member that was not counted is gone.
LEMMA JoinFailStep ==
  ASSUME HubInv, JoinFail
  PROVE  HubInv'
<1> DEFINE r == call.room
           u == call.user
<1>1. /\ call.op = "join" /\ Leave(r, u) /\ call' = Idle
      /\ rejoined' = [rejoined EXCEPT ![u] = @ \ {r}]
      /\ UNCHANGED <<busVars, clients, sendVars, entry, refs, bridgeVars, leaving, pending>>
  BY DEF JoinFail
<1>2. r \in Room /\ u \in User /\ u \in members[r]
  BY <1>1 DEF HubInv, RefsConsistent
<1>3. UNCHANGED <<send, sendLog, busSubs, busClosed, bridge, hand, serves, cancelled,
                  leaving, pending>>
  BY <1>1 DEF sendVars, busVars, bridgeVars
<1>4. /\ members' \in [Room -> SUBSET User] /\ userRooms' \in [User -> SUBSET Room]
      /\ MembersMirrored'
      /\ \A v \in User : userRooms'[v] \subseteq userRooms[v]
      /\ r \notin userRooms'[u]
      /\ \A q \in Room : Cardinality(members'[q]) =
            Cardinality(members[q]) - (IF q = r THEN 1 ELSE 0)
  BY <1>1, <1>2, LeaveCounts
<1>5. StoreTypeOK'
  BY <1>1, <1>3, <1>4 DEF HubInv, TypeOK, StoreTypeOK
<1>6. TypeOK'
  <2>1. LeaveTypeOK'
    BY <1>1, <1>2 DEF HubInv, TypeOK, LeaveTypeOK
  <2> QED BY <2>1, <1>1, <1>3, <1>5, IdleTypes, BusFrame DEF HubInv, TypeOK, HubTypeOK
<1>7. RefsConsistent'
  <2>1. ASSUME NEW q \in Room
        PROVE  /\ Cardinality(members'[q]) = refs[q]
               /\ entry[q] = None => refs[q] = 0
               /\ entry[q] # None => refs[q] > 0
    <3>1. /\ Cardinality(members[q]) = refs[q] + (IF r = q THEN 1 ELSE 0)
          /\ entry[q] = None => refs[q] = 0
          /\ entry[q] # None => refs[q] > 0
      BY <1>1 DEF HubInv, RefsConsistent
    <3>2. refs[q] \in Nat
      BY DEF HubInv, TypeOK, HubTypeOK
    <3> QED BY <3>1, <3>2, <1>4
  <2>2. \A q \in Room : refs[q] \in Nat
    BY DEF HubInv, TypeOK, HubTypeOK
  <2> QED BY <2>1, <2>2, <1>1, IdleCall DEF RefsConsistent
<1>8. LeaveAllLeaves'
  <2> SUFFICES ASSUME NEW v \in leaving
               PROVE  userRooms'[v] \subseteq pending[v] \cup rejoined'[v]
    BY <1>3 DEF LeaveAllLeaves
  <2>1. v \in User /\ userRooms[v] \subseteq pending[v] \cup rejoined[v]
    BY DEF HubInv, TypeOK, LeaveTypeOK, LeaveAllLeaves
  <2>2. rejoined'[v] = rejoined[v] \/ (v = u /\ rejoined'[v] = rejoined[v] \ {r})
    BY <2>1, <1>1 DEF HubInv, TypeOK, LeaveTypeOK
  <2> QED BY <2>1, <2>2, <1>4
<1> QED BY <1>1, <1>3, <1>4, <1>6, <1>7, <1>8, IdleCall, ChannelsFrame, EntryFrame,
   BridgesFrame, PanicFrame DEF HubInv

-----------------------------------------------------------------------------
(* LeaveRoom and LeaveAllForUser                                           *)

\* LeaveRoom, whatever becomes of pending: the last member goes and the
\* reference with it.
LEMMA LeaveRoomStep ==
  ASSUME HubInv, NEW r \in Room, NEW u \in User, LeaveRoom(r, u),
         pending' = pending \/ pending' = [pending EXCEPT ![u] = @ \ {r}]
  PROVE  HubInv'
<1>1. /\ call = Idle /\ u \in members[r] /\ Leave(r, u)
      /\ refs' = IF entry[r] = None THEN refs ELSE [refs EXCEPT ![r] = @ - 1]
      /\ call' = IF entry[r] # None /\ members[r] = {u}
                 THEN [op |-> "leave", room |-> r, user |-> u] ELSE Idle
      /\ rejoined' = [rejoined EXCEPT ![u] = @ \ {r}]
      /\ UNCHANGED <<busVars, clients, sendVars, entry, bridgeVars, leaving>>
  BY DEF LeaveRoom
<1>2. UNCHANGED <<send, sendLog, busSubs, busClosed, bridge, hand, serves, cancelled>>
  BY <1>1 DEF sendVars, busVars, bridgeVars
<1>3. call.op = "none" /\ call'.op # "close" /\ call'.op # "join"
  BY <1>1, IdleCall
<1>4. /\ members' \in [Room -> SUBSET User] /\ userRooms' \in [User -> SUBSET Room]
      /\ MembersMirrored'
      /\ \A v \in User : userRooms'[v] \subseteq userRooms[v]
      /\ r \notin userRooms'[u]
      /\ \A q \in Room : Cardinality(members'[q]) =
            Cardinality(members[q]) - (IF q = r THEN 1 ELSE 0)
  BY <1>1, LeaveCounts
<1>5. StoreTypeOK'
  BY <1>1, <1>2, <1>4 DEF HubInv, TypeOK, StoreTypeOK
<1>6. \A q \in Room : /\ Cardinality(members[q]) = refs[q] /\ refs[q] \in Nat
                      /\ entry[q] = None => refs[q] = 0
                      /\ entry[q] # None => refs[q] > 0
  BY <1>3 DEF HubInv, RefsConsistent, TypeOK, HubTypeOK
<1>7. Cardinality(members[r]) > 0 /\ (members[r] # {u} => Cardinality(members[r]) > 1)
  <2>1. Cardinality(members[r] \ {u}) = Cardinality(members[r]) - 1
        /\ IsFiniteSet(members[r] \ {u}) /\ Cardinality(members[r]) > 0
    <3>1. IsFiniteSet(members[r]) /\ u \in members[r] /\ members[r] # {}
      BY <1>1, Counted
    <3>2. Cardinality(members[r]) \in Nat /\ Cardinality(members[r]) # 0
      BY <3>1, FS_CardinalityType, FS_EmptySet
    <3>3. /\ IsFiniteSet(members[r] \ {u})
          /\ Cardinality(members[r] \ {u}) = Cardinality(members[r]) - 1
      BY <3>1, FS_RemoveElement
    <3> QED BY <3>2, <3>3
  <2>2. members[r] # {u} => members[r] \ {u} # {}
    BY <1>1
  <2>3. members[r] \ {u} # {} => Cardinality(members[r] \ {u}) # 0
    BY <2>1, FS_EmptySet
  <2> QED BY <2>1, <2>2, <2>3, <1>6
<1>8. entry[r] # None
  BY <1>6, <1>7
<1>9. \A q \in Room : refs'[q] = refs[q] - (IF q = r THEN 1 ELSE 0) /\ refs'[q] \in Nat
  BY <1>1, <1>6, <1>7, <1>8 DEF HubInv, TypeOK, HubTypeOK
<1>10. refs' \in [Room -> Nat]
  BY <1>1, <1>9, <1>8 DEF HubInv, TypeOK, HubTypeOK
<1>11. HubTypeOK'
  BY <1>1, <1>2, <1>10, CallTypes, IdleTypes DEF HubInv, TypeOK, HubTypeOK
<1>12. LeaveTypeOK'
  BY <1>1 DEF HubInv, TypeOK, LeaveTypeOK
<1>13. TypeOK'
  BY <1>1, <1>5, <1>11, <1>12, BusFrame DEF HubInv, TypeOK
<1>14. RefsConsistent'
  <2>1. ASSUME NEW q \in Room
        PROVE  /\ Cardinality(members'[q]) = refs'[q]
               /\ entry'[q] = None => refs'[q] = 0
               /\ entry'[q] # None => refs'[q] > 0 \/ (q = r /\ members[r] = {u})
    BY <1>1, <1>4, <1>6, <1>7, <1>8, <1>9
  <2>2. CASE members[r] = {u}
    <3>1. call'.op = "leave" /\ call'.room = r /\ call'.user = u
      BY <2>2, <1>1, <1>8
    <3>2. Cardinality(members[r]) = 1
      BY <2>2, FS_Singleton
    <3>3. entry'[r] # None /\ refs'[r] = 0
      BY <3>2, <1>1, <1>6, <1>8, <1>9
    <3> QED BY <3>1, <3>3, <2>1, <1>9 DEF RefsConsistent
  <2>3. CASE members[r] # {u}
    <3>1. call' = Idle
      BY <2>3, <1>1
    <3> QED BY <3>1, <2>1, <2>3, <1>9, IdleCall DEF RefsConsistent
  <2> QED BY <2>2, <2>3
<1>15. LeaveAllLeaves'
  <2> SUFFICES ASSUME NEW v \in leaving
               PROVE  userRooms'[v] \subseteq pending'[v] \cup rejoined'[v]
    BY <1>1 DEF LeaveAllLeaves
  <2>1. v \in User /\ userRooms[v] \subseteq pending[v] \cup rejoined[v]
    BY DEF HubInv, TypeOK, LeaveTypeOK, LeaveAllLeaves
  <2>2. /\ pending'[v] = pending[v] \/ (v = u /\ pending'[v] = pending[v] \ {r})
        /\ rejoined'[v] = rejoined[v] \/ (v = u /\ rejoined'[v] = rejoined[v] \ {r})
    BY <2>1, <1>1 DEF HubInv, TypeOK, LeaveTypeOK
  <2> QED BY <2>1, <2>2, <1>4
<1> QED BY <1>1, <1>2, <1>3, <1>4, <1>13, <1>14, <1>15, ChannelsFrame, EntryFrame,
   BridgesFrame, PanicFrame DEF HubInv

\* A release on the bus closes a Go channel that is subscribed nowhere else,
\* and leaves the rest of the bus alone.
LEMMA BusUnsubscribeBus ==
  ASSUME HubInv, NEW r \in Room, entry[r] # None, BusUnsubscribe(r)
  PROVE  /\ BusTypeOK'
         /\ \A s \in Sub : busChan'[s] = "free" <=> busChan[s] = "free"
         /\ \A q \in Room : \A s \in busSubs'[q] : s \in busSubs[q] /\ busChan'[s] = "open"
         /\ UNCHANGED <<busLog, busRd, busLast, busOffering, busClosed>>
<1>1. CASE Bus!Unsubscribe(r, entry[r])
  <2>1. /\ busChan' = [busChan EXCEPT ![entry[r]] = "closed"]
        /\ busSubs' = [busSubs EXCEPT ![r] = @ \ {entry[r]}]
        /\ ~busClosed /\ entry[r] \in busSubs[r]
        /\ UNCHANGED <<busLog, busRd, busLast, busOffering, busClosed>>
    BY <1>1 DEF Bus!Unsubscribe
  <2>2. BusTypeOK'
    BY <2>1 DEF HubInv, TypeOK, BusTypeOK
  <2>3. busChan[entry[r]] # "free" /\ entry[r] \in Sub
    BY <2>1 DEF HubInv, TypeOK, HubTypeOK, BusConsistent
  <2>4. \A s \in Sub : busChan'[s] = "free" <=> busChan[s] = "free"
    BY <2>1, <2>3 DEF HubInv, TypeOK, BusTypeOK
  <2>5. ASSUME NEW q \in Room, NEW s \in busSubs'[q]
        PROVE  s \in busSubs[q] /\ busChan'[s] = "open"
    <3>1. s \in busSubs[q] /\ s \in Sub /\ busChan[s] = "open"
      BY <2>1 DEF HubInv, TypeOK, BusTypeOK, BusConsistent
    <3>2. s # entry[r]
      <4>1. CASE q = r
        BY <4>1, <2>1 DEF HubInv, TypeOK, BusTypeOK
      <4>2. CASE q # r
        <5>1. entry[q] # None /\ s = entry[q]
          BY <3>1, <2>1, SubscriptionOf
        <5> QED BY <5>1, <4>2, EntryOf
      <4> QED BY <4>1, <4>2
    <3> QED BY <3>1, <3>2, <2>1 DEF HubInv, TypeOK, BusTypeOK
  <2> QED BY <2>1, <2>2, <2>4, <2>5
<1>2. CASE UNCHANGED busVars
  <2>1. BusTypeOK'
    BY <1>2, BusFrame DEF HubInv, TypeOK
  <2> QED BY <1>2, <2>1 DEF HubInv, BusConsistent, busVars
<1> QED BY <1>1, <1>2 DEF BusUnsubscribe

\* It leaves the room without a subscription, unless the bus was closed.
LEMMA BusUnsubscribeSubs ==
  ASSUME HubInv, NEW r \in Room, entry[r] # None, entry[r] \notin cancelled,
         ~busClosed, BusUnsubscribe(r)
  PROVE  /\ busSubs'[r] = {}
         /\ \A q \in Room \ {r} : busSubs'[q] = busSubs[q] /\ entry[q] # entry[r]
<1>1. busSubs[r] = {entry[r]}
  BY SubscriptionOf
<1>2. busSubs' = [busSubs EXCEPT ![r] = @ \ {entry[r]}]
  BY <1>1 DEF BusUnsubscribe, Bus!Unsubscribe
<1>3. \A q \in Room \ {r} : entry[q] # entry[r]
  BY EntryOf
<1> QED BY <1>1, <1>2, <1>3 DEF HubInv, TypeOK, BusTypeOK

\* Cancelling the entry of a room disturbs no other.
LEMMA CancelBus ==
  ASSUME HubInv, NEW r \in Room, entry[r] # None, BusUnsubscribe(r),
         cancelled' = cancelled \cup {entry[r]},
         UNCHANGED <<bridge, hand>>,
         \A q \in Room : entry'[q] = entry[q] \/ entry'[q] = None
  PROVE  BusConsistent'
<1>1. /\ \A s \in Sub : busChan'[s] = "free" <=> busChan[s] = "free"
      /\ \A q \in Room : \A s \in busSubs'[q] : s \in busSubs[q] /\ busChan'[s] = "open"
      /\ UNCHANGED <<busLast, busOffering>>
  BY BusUnsubscribeBus
<1>2. entry[r] \in Sub /\ busChan[entry[r]] # "free"
  BY DEF HubInv, TypeOK, HubTypeOK, BusConsistent
<1>3. \A s \in Sub : None # s
  BY ChatHubAssumption
<1>4. \A s \in Sub : busChan'[s] = "free" =>
         bridge'[s] = "none" /\ s \notin cancelled' /\ \A q \in Room : entry'[q] # s
  BY <1>1, <1>2, <1>3 DEF HubInv, BusConsistent
<1>5. \A s \in Sub : bridge'[s] = "holding" => hand'[s] # 0
  BY DEF HubInv, BusConsistent
<1>6. busOffering' # {} => busLast' # 0
  BY <1>1 DEF HubInv, BusConsistent
<1> QED BY <1>1, <1>4, <1>5, <1>6 DEF BusConsistent

\* The room that was emptied loses its entry.
LEMMA LeaveReleaseStep ==
  ASSUME HubInv, LeaveRelease
  PROVE  HubInv'
<1> DEFINE r == call.room
<1>1. /\ call.op = "leave" /\ cancelled' = cancelled \cup {entry[r]} /\ BusUnsubscribe(r)
      /\ entry' = [entry EXCEPT ![r] = None] /\ refs' = [refs EXCEPT ![r] = 0]
      /\ call' = Idle /\ UNCHANGED <<storeVars, bridge, hand, serves, leaveVars>>
  BY DEF LeaveRelease
<1>2. r \in Room /\ entry[r] # None /\ refs[r] = 0 /\ entry[r] \in Sub
      /\ entry[r] \notin cancelled
  <2>1. r \in Room /\ entry[r] # None /\ refs[r] = 0
    BY <1>1 DEF HubInv, RefsConsistent
  <2> QED BY <2>1, <1>1, EntryOf
<1>3. UNCHANGED <<memberVars, members, userRooms, clients, send>>
  BY <1>1 DEF storeVars, memberVars, sendVars
<1>4. \A q \in Room : /\ entry'[q] = IF q = r THEN None ELSE entry[q]
                      /\ refs'[q] = refs[q] /\ refs[q] \in Nat
  BY <1>1, <1>2 DEF HubInv, TypeOK, HubTypeOK
<1>5. HubTypeOK'
  <2>1. entry' \in [Room -> Sub \cup {None}] /\ refs' \in [Room -> Nat]
    BY <1>1 DEF HubInv, TypeOK, HubTypeOK
  <2> QED BY <2>1, <1>1, <1>2, IdleTypes DEF HubInv, TypeOK, HubTypeOK
<1>6. TypeOK'
  BY <1>1, <1>2, <1>5, BusUnsubscribeBus, StoreFrame, LeaveFrame DEF HubInv, TypeOK
<1>7. RefsConsistent'
  <2>1. ASSUME NEW q \in Room
        PROVE  /\ Cardinality(members[q]) = refs[q]
               /\ entry[q] = None => refs[q] = 0
               /\ entry[q] # None /\ q # r => refs[q] > 0
    BY <1>1, <1>4 DEF HubInv, RefsConsistent
  <2>2. ASSUME NEW q \in Room
        PROVE  /\ Cardinality(members'[q]) = refs'[q] + 0
               /\ entry'[q] = None => refs'[q] = 0
               /\ entry'[q] # None => refs'[q] > 0
    BY <2>1, <1>2, <1>3, <1>4
  <2> QED BY <2>2, <1>1, IdleCall DEF RefsConsistent
<1>8. BusConsistent'
  BY <1>1, <1>2, <1>4, CancelBus
<1>9. EntryConsistent'
  <2>1. busClosed' = busClosed
    BY <1>1, <1>2, BusUnsubscribeBus
  <2>2. ~busClosed => /\ busSubs'[r] = {}
                      /\ \A q \in Room \ {r} : busSubs'[q] = busSubs[q]
    BY <1>1, <1>2, BusUnsubscribeSubs
  <2>3. entry'[r] = None /\ \A q \in Room \ {r} : entry'[q] = entry[q]
    BY <1>2, <1>4
  <2>4. ASSUME NEW q \in Room \ {r}, entry[q] # None
        PROVE  /\ serves[entry[q]] = q /\ entry[q] \notin cancelled /\ entry[q] # entry[r]
               /\ ~busClosed => bridge[entry[q]] \in {"select", "holding"}
    BY <2>4, <1>1, <1>2, EntryOf
  <2>5. ASSUME NEW q \in Room \ {r}, ~busClosed
        PROVE  busSubs[q] = IF entry[q] = None THEN {} ELSE {entry[q]}
    BY <2>4, <2>5, SubscriptionOf
  <2>6. ASSUME NEW q \in Room
        PROVE  /\ ~busClosed => busSubs'[q] = IF entry'[q] = None \/ entry'[q] \in cancelled'
                                              THEN {} ELSE {entry'[q]}
               /\ entry'[q] # None =>
                     /\ serves[entry'[q]] = q /\ entry'[q] \notin cancelled'
                     /\ ~busClosed => bridge[entry'[q]] \in {"select", "holding"}
    <3>1. CASE q = r
      BY <3>1, <2>2, <2>3
    <3>2. CASE q # r
      BY <3>2, <2>2, <2>3, <2>4, <2>5, <1>1
    <3> QED BY <3>1, <3>2
  <2> QED BY <2>1, <2>6, <1>1 DEF EntryConsistent
<1>10. BridgesOwned'
  <2> SUFFICES ASSUME NEW t \in Sub, bridge[t] \in {"select", "holding"}, t \notin cancelled'
               PROVE  \E q \in Room : entry'[q] = t
    BY <1>1 DEF BridgesOwned
  <2>1. PICK q \in Room : entry[q] = t
    BY <1>1 DEF HubInv, BridgesOwned
  <2> QED BY <2>1, <1>1, <1>4
<1> QED BY <1>1, <1>3, <1>6, <1>7, <1>8, <1>9, <1>10, MembersFrame, PanicFrame,
   LeavesFrame DEF HubInv

\* The snapshot holds all of the user's rooms, and a room is dropped from it
\* when the user is not in it.
LEMMA LeaveAllStep ==
  ASSUME HubInv, NEW u \in User,
         \/ LeaveAllSnapshot(u) \/ LeaveAllReturn(u)
         \/ \E r \in Room : LeaveAllSkip(u, r)
  PROVE  HubInv'
<1>1. UNCHANGED <<busVars, storeVars, hubVars, bridgeVars>>
  BY DEF LeaveAllSnapshot, LeaveAllReturn, LeaveAllSkip
<1>2. UNCHANGED <<memberVars, members, userRooms, clients, send, busSubs, busClosed, call,
                  entry, bridge, cancelled>>
  BY <1>1 DEF busVars, storeVars, memberVars, sendVars, hubVars, bridgeVars
<1>3. userRooms \in [User -> SUBSET Room] /\ leaving \in SUBSET User
      /\ pending \in [User -> SUBSET Room] /\ rejoined \in [User -> SUBSET Room]
  BY DEF HubInv, TypeOK, StoreTypeOK, LeaveTypeOK
<1>4. ASSUME LeaveAllSnapshot(u) PROVE LeaveTypeOK' /\ LeaveAllLeaves'
  <2>1. /\ leaving' = leaving \cup {u} /\ pending' = [pending EXCEPT ![u] = userRooms[u]]
        /\ rejoined' = rejoined
    BY <1>4 DEF LeaveAllSnapshot
  <2>2. LeaveTypeOK'
    BY <2>1, <1>3 DEF LeaveTypeOK
  <2>3. \A v \in leaving : userRooms[v] \subseteq pending[v] \cup rejoined[v]
    BY DEF HubInv, LeaveAllLeaves
  <2>4. ASSUME NEW v \in leaving \cup {u}
        PROVE  userRooms[v] \subseteq pending'[v] \cup rejoined[v]
    BY <2>1, <2>3, <1>3
  <2> QED BY <2>1, <2>2, <2>4, <1>2 DEF LeaveAllLeaves
<1>5. ASSUME LeaveAllReturn(u) PROVE LeaveTypeOK' /\ LeaveAllLeaves'
  <2>1. leaving' = leaving \ {u} /\ rejoined' = [rejoined EXCEPT ![u] = {}] /\ pending' = pending
    BY <1>5 DEF LeaveAllReturn
  <2>2. LeaveTypeOK'
    BY <2>1, <1>3 DEF LeaveTypeOK
  <2>3. ASSUME NEW v \in leaving \ {u}
        PROVE  userRooms[v] \subseteq pending[v] \cup rejoined'[v]
    BY <2>1, <1>3 DEF HubInv, LeaveAllLeaves
  <2> QED BY <2>1, <2>2, <2>3, <1>2 DEF LeaveAllLeaves
<1>6. ASSUME NEW r \in Room, LeaveAllSkip(u, r) PROVE LeaveTypeOK' /\ LeaveAllLeaves'
  <2>1. r \notin userRooms[u]
    BY <1>6 DEF LeaveAllSkip, HubInv, MembersMirrored
  <2>2. pending' = [pending EXCEPT ![u] = @ \ {r}] /\ leaving' = leaving /\ rejoined' = rejoined
    BY <1>6 DEF LeaveAllSkip
  <2> QED BY <2>1, <2>2, <1>2, <1>3 DEF LeaveTypeOK, LeaveAllLeaves, HubInv
<1>7. TypeOK' /\ LeaveAllLeaves'
  BY <1>1, <1>4, <1>5, <1>6, BusFrame, StoreFrame, HubFrame DEF HubInv, TypeOK
<1> QED BY <1>1, <1>2, <1>7, MembersFrame, RefsFrame, ChannelsFrame, EntryFrame,
   BridgesFrame, PanicFrame DEF HubInv

-----------------------------------------------------------------------------
(* The bridges                                                             *)

\* A bridge that moves on and is still owned disturbs no entry.
LEMMA BridgeMoves ==
  ASSUME HubInv, NEW s \in Sub, NEW b \in {"select", "holding", "done"},
         bridge[s] \in {"select", "holding"},
         bridge' = [bridge EXCEPT ![s] = b],
         b = "done" => s \in cancelled \/ busChan[s] = "closed",
         NEW h \in 0..MaxMsg, b = "holding" => h # 0,
         hand' = [hand EXCEPT ![s] = h],
         UNCHANGED <<busSubs, busChan, busOffering, busLast, busClosed, hubVars, serves,
                     cancelled>>
  PROVE  HubTypeOK' /\ BusConsistent' /\ EntryConsistent' /\ BridgesOwned'
<1>1. UNCHANGED <<call, entry, refs>>
  BY DEF hubVars
<1>2. bridge' \in [Sub -> {"none", "select", "holding", "done"}] /\ hand' \in [Sub -> 0..MaxMsg]
  BY DEF HubInv, TypeOK, HubTypeOK
<1>3. HubTypeOK'
  BY <1>1, <1>2 DEF HubInv, TypeOK, HubTypeOK
<1>4. \A t \in Sub : /\ bridge'[t] = IF t = s THEN b ELSE bridge[t]
                     /\ hand'[t] = IF t = s THEN h ELSE hand[t]
  BY DEF HubInv, TypeOK, HubTypeOK
<1>5. BusConsistent'
  <2>1. busChan[s] # "free"
    BY DEF HubInv, BusConsistent
  <2>2. \A t \in Sub : busChan[t] = "free" =>
           bridge'[t] = "none" /\ t \notin cancelled /\ \A r \in Room : entry[r] # t
    BY <2>1, <1>4 DEF HubInv, BusConsistent
  <2>3. \A t \in Sub : bridge'[t] = "holding" => hand'[t] # 0
    BY <1>4 DEF HubInv, BusConsistent
  <2>4. /\ \A r \in Room : \A t \in busSubs[r] : busChan[t] = "open"
        /\ busOffering # {} => busLast # 0
    BY DEF HubInv, BusConsistent
  <2> QED BY <2>2, <2>3, <2>4, <1>1 DEF BusConsistent
<1>6. EntryConsistent'
  <2>1. ASSUME NEW r \in Room, entry[r] # None, entry[r] \notin cancelled, ~busClosed
        PROVE  bridge'[entry[r]] \in {"select", "holding"}
    <3>1. busSubs[r] = {entry[r]}
      BY <2>1, SubscriptionOf
    <3>2. entry[r] \in Sub /\ busChan[entry[r]] = "open"
          /\ bridge[entry[r]] \in {"select", "holding"}
      BY <3>1, <2>1, EntryOf DEF HubInv, BusConsistent
    <3>3. entry[r] = s => b # "done"
      BY <3>2, <2>1
    <3> QED BY <3>2, <3>3, <1>4
  <2>2. ASSUME NEW r \in Room, entry[r] # None
        PROVE  serves[entry[r]] = r /\ (entry[r] \in cancelled => call.op = "close")
    BY <2>2, EntryOf
  <2>3. ASSUME NEW r \in Room, ~busClosed
        PROVE  busSubs[r] = IF entry[r] = None \/ entry[r] \in cancelled THEN {} ELSE {entry[r]}
    BY <2>3, SubscriptionOf
  <2> QED BY <2>1, <2>2, <2>3, <1>1 DEF EntryConsistent
<1>7. BridgesOwned'
  BY <1>1, <1>4 DEF HubInv, BridgesOwned
<1> QED BY <1>3, <1>5, <1>6, <1>7

\* What is received is a message.
LEMMA BridgeReceiveStep ==
  ASSUME HubInv, NEW s \in Sub, BridgeReceive(s)
  PROVE  HubInv'
<1> DEFINE h == busLog[s][busRd[s] + 1]
<1>1. /\ bridge[s] = "select" /\ Bus!Receive(s) /\ hand' = [hand EXCEPT ![s] = h]
      /\ bridge' = [bridge EXCEPT ![s] = "holding"]
      /\ UNCHANGED <<storeVars, hubVars, serves, cancelled, leaveVars>>
  BY DEF BridgeReceive
<1>2. /\ busRd[s] < Len(busLog[s]) /\ busRd' = [busRd EXCEPT ![s] = @ + 1]
      /\ UNCHANGED <<busSubs, busChan, busLog, busLast, busOffering, busClosed>>
  BY <1>1 DEF Bus!Receive
<1>3. busLog[s] \in Seq(1..MaxMsg) /\ busRd[s] \in Nat
  BY DEF HubInv, TypeOK, BusTypeOK
<1>4. h \in 1..MaxMsg
  <2>1. busRd[s] + 1 \in 1..Len(busLog[s])
    BY <1>2, <1>3
  <2> QED BY <2>1, <1>3, Element
<1>5. h \in 0..MaxMsg /\ h # 0
  BY <1>4, ChatHubAssumption
<1>6. BusTypeOK'
  BY <1>2 DEF HubInv, TypeOK, BusTypeOK
<1> HIDE DEF h
<1>7. HubTypeOK' /\ BusConsistent' /\ EntryConsistent' /\ BridgesOwned'
  BY <1>1, <1>2, <1>5, BridgeMoves
<1>8. UNCHANGED <<memberVars, members, userRooms, clients, send>>
  BY <1>1 DEF storeVars, memberVars, sendVars
<1>9. TypeOK'
  BY <1>1, <1>6, <1>7, StoreFrame, LeaveFrame DEF HubInv, TypeOK
<1> QED BY <1>1, <1>7, <1>8, <1>9, MembersFrame, RefsFrame, PanicFrame, LeavesFrame DEF HubInv

\* What is delivered is a message.
LEMMA BridgeDeliverStep ==
  ASSUME HubInv, NEW s \in Sub, BridgeDeliver(s)
  PROVE  HubInv'
<1>1. /\ bridge[s] = "holding" /\ DeliverToRoom(serves[s], hand[s])
      /\ hand' = [hand EXCEPT ![s] = 0] /\ bridge' = [bridge EXCEPT ![s] = "select"]
      /\ UNCHANGED <<busVars, clients, memberVars, send, hubVars, serves, cancelled, leaveVars>>
  BY DEF BridgeDeliver
<1>2. UNCHANGED <<busSubs, busChan, busOffering, busLast, busClosed, members, userRooms>>
  BY <1>1 DEF busVars, memberVars
<1>3. hand[s] \in 1..MaxMsg
  BY <1>1, ChatHubAssumption DEF HubInv, TypeOK, HubTypeOK, BusConsistent
<1>4. sendLog' \in [Conn -> Seq(1..MaxMsg)]
  <2>1. PICK K : sendLog' = [k \in Conn |-> IF k \in K THEN Append(sendLog[k], hand[s])
                                            ELSE sendLog[k]]
    BY <1>1 DEF DeliverToRoom
  <2>2. ASSUME NEW k \in Conn
        PROVE  sendLog[k] \in Seq(1..MaxMsg) /\ Append(sendLog[k], hand[s]) \in Seq(1..MaxMsg)
    BY <1>3 DEF HubInv, TypeOK, StoreTypeOK
  <2> QED BY <2>1, <2>2
<1>5. StoreTypeOK'
  BY <1>1, <1>2, <1>4 DEF HubInv, TypeOK, StoreTypeOK
<1>6. HubTypeOK' /\ BusConsistent' /\ EntryConsistent' /\ BridgesOwned'
  <2>1. "select" \in {"select", "holding", "done"} /\ bridge[s] \in {"select", "holding"}
        /\ "select" # "done" /\ "select" # "holding"
    BY <1>1
  <2>2. 0 \in 0..MaxMsg
    BY ChatHubAssumption
  <2> QED BY <2>1, <2>2, <1>1, <1>2, BridgeMoves, Zenon
<1>7. TypeOK'
  BY <1>1, <1>5, <1>6, BusFrame, LeaveFrame DEF HubInv, TypeOK
<1> QED BY <1>1, <1>2, <1>6, <1>7, MembersFrame, RefsFrame, PanicFrame, LeavesFrame DEF HubInv

\* Only a bridge that was told to, or whose channel the bus closed, stops.
LEMMA BridgeStopStep ==
  ASSUME HubInv, NEW s \in Sub, BridgeStop(s)
  PROVE  HubInv'
<1>1. /\ bridge[s] = "select" /\ (s \in cancelled \/ busChan[s] = "closed")
      /\ bridge' = [bridge EXCEPT ![s] = "done"]
      /\ UNCHANGED <<busVars, storeVars, hubVars, hand, serves, cancelled, leaveVars>>
  BY DEF BridgeStop
<1>2. UNCHANGED <<busSubs, busChan, busOffering, busLast, busClosed, members, userRooms,
                  memberVars, clients, send>>
  BY <1>1 DEF busVars, storeVars, memberVars, sendVars
<1>3. hand' = [hand EXCEPT ![s] = hand[s]] /\ hand[s] \in 0..MaxMsg
  BY <1>1 DEF HubInv, TypeOK, HubTypeOK
<1>4. HubTypeOK' /\ BusConsistent' /\ EntryConsistent' /\ BridgesOwned'
  <2>1. "done" \in {"select", "holding", "done"} /\ bridge[s] \in {"select", "holding"}
        /\ "done" # "holding"
    BY <1>1
  <2> QED BY <2>1, <1>1, <1>2, <1>3, BridgeMoves, Zenon
<1>5. TypeOK'
  BY <1>1, <1>4, BusFrame, StoreFrame, LeaveFrame DEF HubInv, TypeOK
<1> QED BY <1>1, <1>2, <1>4, <1>5, MembersFrame, RefsFrame, PanicFrame, LeavesFrame DEF HubInv

-----------------------------------------------------------------------------
(* Hub.Close                                                               *)

\* Close may start from any consistent state.
LEMMA CloseLockStep ==
  ASSUME HubInv, CloseLock
  PROVE  HubInv'
<1>1. /\ call = Idle /\ call' = [Idle EXCEPT !.op = "close"]
      /\ UNCHANGED <<busVars, storeVars, entry, refs, bridgeVars, leaveVars>>
  BY DEF CloseLock
<1>2. call.op = "none" /\ call'.op = "close"
      /\ call' = [op |-> "close", room |-> None, user |-> None]
  BY <1>1 DEF Idle
<1>3. UNCHANGED <<memberVars, members, userRooms, clients, send, busSubs, busClosed,
                  bridge, hand, serves, cancelled>>
  BY <1>1 DEF storeVars, memberVars, sendVars, busVars, bridgeVars
<1>4. HubTypeOK'
  BY <1>1, <1>2, <1>3, CallTypes DEF HubInv, TypeOK, HubTypeOK
<1>5. TypeOK'
  BY <1>1, <1>4, BusFrame, StoreFrame, LeaveFrame DEF HubInv, TypeOK
<1>6. RefsConsistent'
  BY <1>1, <1>2, <1>3 DEF HubInv, RefsConsistent
<1>7. EntryConsistent'
  BY <1>1, <1>2, <1>3 DEF HubInv, EntryConsistent
<1> QED BY <1>1, <1>3, <1>5, <1>6, <1>7, MembersFrame, ChannelsFrame, BridgesFrame,
   PanicFrame, LeavesFrame DEF HubInv

\* A room is released and keeps its entry until the end of Close.
LEMMA CloseRoomStep ==
  ASSUME HubInv, NEW r \in Room, CloseRoom(r)
  PROVE  HubInv'
<1>1. /\ call.op = "close" /\ entry[r] # None /\ entry[r] \notin cancelled
      /\ cancelled' = cancelled \cup {entry[r]} /\ BusUnsubscribe(r)
      /\ UNCHANGED <<storeVars, hubVars, bridge, hand, serves, leaveVars>>
  BY DEF CloseRoom
<1>2. UNCHANGED <<memberVars, members, userRooms, clients, send, call, entry, refs>>
  BY <1>1 DEF storeVars, memberVars, sendVars, hubVars
<1>3. entry[r] \in Sub
  BY <1>1, EntryOf
<1>4. HubTypeOK'
  BY <1>1, <1>2, <1>3 DEF HubInv, TypeOK, HubTypeOK
<1>5. TypeOK'
  BY <1>1, <1>4, BusUnsubscribeBus, StoreFrame, LeaveFrame DEF HubInv, TypeOK
<1>6. BusConsistent'
  BY <1>1, <1>2, CancelBus
<1>7. EntryConsistent'
  <2>1. busClosed' = busClosed
    BY <1>1, BusUnsubscribeBus
  <2>2. ~busClosed => /\ busSubs'[r] = {}
                      /\ \A q \in Room \ {r} : busSubs'[q] = busSubs[q]
    BY <1>1, BusUnsubscribeSubs
  <2>3. ASSUME NEW q \in Room, entry[q] # None
        PROVE  /\ serves[entry[q]] = q /\ (q # r => entry[q] # entry[r])
               /\ entry[q] \notin cancelled /\ ~busClosed =>
                     bridge[entry[q]] \in {"select", "holding"}
    BY <2>3, <1>1, EntryOf
  <2>4. ASSUME NEW q \in Room, ~busClosed
        PROVE  busSubs'[q] = IF entry[q] = None \/ entry[q] \in cancelled'
                             THEN {} ELSE {entry[q]}
    <3>1. CASE q = r
      BY <3>1, <2>2, <2>4, <1>1
    <3>2. CASE q # r
      BY <3>2, <2>2, <2>3, <2>4, <1>1, SubscriptionOf
    <3> QED BY <3>1, <3>2
  <2> QED BY <2>1, <2>3, <2>4, <1>1, <1>2 DEF EntryConsistent
<1>8. BridgesOwned'
  BY <1>1, <1>2 DEF HubInv, BridgesOwned
<1> QED BY <1>1, <1>2, <1>5, <1>6, <1>7, <1>8, MembersFrame, RefsFrame, PanicFrame,
   LeavesFrame DEF HubInv

\* The entries were all released, and every connection is closed with its
\* registration.
LEMMA CloseStoreStep ==
  ASSUME HubInv, CloseStore
  PROVE  HubInv'
<1>1. /\ call.op = "close" /\ \A r \in Room : entry[r] # None => entry[r] \in cancelled
      /\ entry' = [r \in Room |-> None] /\ refs' = [r \in Room |-> 0]
      /\ send' = [k \in Conn |-> IF \E u \in User : clients[u] = k THEN "closed" ELSE send[k]]
      /\ clients' = [u \in User |-> None]
      /\ members' = [r \in Room |-> {}] /\ userRooms' = [u \in User |-> {}]
      /\ rejoined' = [u \in User |-> {}]
      /\ call' = Idle /\ UNCHANGED <<busVars, sendLog, bridgeVars, leaving, pending>>
  BY DEF CloseStore
<1>2. UNCHANGED <<busSubs, busChan, busOffering, busLast, busClosed, bridge, hand, serves,
                  cancelled, leaving, pending>>
  BY <1>1 DEF busVars, bridgeVars
<1>3. StoreTypeOK'
  BY <1>1 DEF HubInv, TypeOK, StoreTypeOK
<1>4. HubTypeOK'
  BY <1>1, <1>2, IdleTypes DEF HubInv, TypeOK, HubTypeOK
<1>5. TypeOK'
  <2>1. LeaveTypeOK'
    BY <1>1 DEF HubInv, TypeOK, LeaveTypeOK
  <2> QED BY <2>1, <1>1, <1>3, <1>4, BusFrame DEF HubInv, TypeOK
<1>6. MembersMirrored' /\ LeaveAllLeaves'
  BY <1>1, <1>2 DEF HubInv, TypeOK, LeaveTypeOK, MembersMirrored, LeaveAllLeaves
<1>7. RefsConsistent'
  BY <1>1, IdleCall, FS_EmptySet DEF RefsConsistent
<1>8. \A s \in Sub : None # s
  BY ChatHubAssumption
<1>9. BusConsistent'
  BY <1>1, <1>2, <1>8 DEF HubInv, BusConsistent
<1>10. EntryConsistent'
  <2>1. ASSUME NEW r \in Room, ~busClosed PROVE busSubs[r] = {}
    BY <2>1, <1>1, SubscriptionOf
  <2> QED BY <2>1, <1>1, <1>2 DEF EntryConsistent
<1>11. BridgesOwned'
  BY <1>1, <1>2 DEF HubInv, BridgesOwned
<1>12. NoPanic'
  <2>1. \A k \in Conn : send'[k] # "open"
    BY <1>1 DEF HubInv, NoPanic
  <2> QED BY <2>1, <1>1 DEF NoPanic
<1> QED BY <1>5, <1>6, <1>7, <1>9, <1>10, <1>11, <1>12 DEF HubInv

-----------------------------------------------------------------------------
(* The bus                                                                 *)

\* A fan-out starts.
LEMMA ArriveStep ==
  ASSUME HubInv, NEW r \in Room, Arrive(r)
  PROVE  HubInv'
<1>1. /\ busLast < MaxMsg /\ Bus!Arrive(r, busLast + 1)
      /\ UNCHANGED <<storeVars, hubVars, bridgeVars, leaveVars>>
  BY DEF Arrive
<1>2. /\ busLast' = busLast + 1 /\ busOffering' = busSubs[r]
      /\ UNCHANGED <<busSubs, busChan, busLog, busRd, busClosed>>
  BY <1>1 DEF Bus!Arrive
<1>3. UNCHANGED <<memberVars, members, userRooms, clients, send, call, entry, bridge, hand,
                  cancelled>>
  BY <1>1 DEF storeVars, memberVars, sendVars, hubVars, bridgeVars
<1>4. busLast \in 0..MaxMsg /\ busLast' \in 0..MaxMsg /\ busLast' # 0
  BY <1>1, <1>2, ChatHubAssumption DEF HubInv, TypeOK, BusTypeOK
<1>5. BusTypeOK'
  BY <1>2, <1>4 DEF HubInv, TypeOK, BusTypeOK
<1>6. TypeOK'
  BY <1>1, <1>5, StoreFrame, HubFrame, LeaveFrame DEF HubInv, TypeOK
<1>7. BusConsistent'
  BY <1>2, <1>3, <1>4 DEF HubInv, BusConsistent
<1> QED BY <1>1, <1>2, <1>3, <1>6, <1>7, MembersFrame, RefsFrame, EntryFrame, BridgesFrame,
   PanicFrame, LeavesFrame DEF HubInv

\* A subscriber takes the message or misses it.
LEMMA OfferStep ==
  ASSUME HubInv, NEW s \in Sub, Offer(s)
  PROVE  HubInv'
<1>1. Bus!Offer(s) /\ UNCHANGED <<storeVars, hubVars, bridgeVars, leaveVars>>
  BY DEF Offer
<1>2. /\ s \in busOffering /\ busOffering' = busOffering \ {s}
      /\ busLog' = busLog \/ busLog' = [busLog EXCEPT ![s] = Append(busLog[s], busLast)]
      /\ UNCHANGED <<busSubs, busChan, busRd, busLast, busClosed>>
  BY <1>1 DEF Bus!Offer
<1>3. UNCHANGED <<memberVars, members, userRooms, clients, send, call, entry, bridge, hand,
                  cancelled>>
  BY <1>1 DEF storeVars, memberVars, sendVars, hubVars, bridgeVars
<1>4. busLast \in 1..MaxMsg
  BY <1>2, ChatHubAssumption DEF HubInv, TypeOK, BusTypeOK, BusConsistent
<1>5. busLog' \in [Sub -> Seq(1..MaxMsg)]
  <2>1. busLog \in [Sub -> Seq(1..MaxMsg)] /\ busLog[s] \in Seq(1..MaxMsg)
    BY DEF HubInv, TypeOK, BusTypeOK
  <2>2. Append(busLog[s], busLast) \in Seq(1..MaxMsg)
    BY <2>1, <1>4
  <2> QED BY <2>1, <2>2, <1>2
<1>6. BusTypeOK'
  BY <1>2, <1>5 DEF HubInv, TypeOK, BusTypeOK
<1>7. TypeOK'
  BY <1>1, <1>6, StoreFrame, HubFrame, LeaveFrame DEF HubInv, TypeOK
<1>8. BusConsistent'
  BY <1>2, <1>3 DEF HubInv, BusConsistent
<1> QED BY <1>1, <1>2, <1>3, <1>7, <1>8, MembersFrame, RefsFrame, EntryFrame, BridgesFrame,
   PanicFrame, LeavesFrame DEF HubInv

\* The bus closes its channels under the hub.
LEMMA BusCloseStep ==
  ASSUME HubInv, BusClose
  PROVE  HubInv'
<1>1. Bus!Close /\ UNCHANGED <<storeVars, hubVars, bridgeVars, leaveVars>>
  BY DEF BusClose
<1>2. /\ busClosed' = TRUE /\ busSubs' = [r \in Room |-> {}]
      /\ busChan' = [s \in Sub |-> IF \E r \in Room : s \in busSubs[r]
                                   THEN "closed" ELSE busChan[s]]
      /\ UNCHANGED <<busLog, busRd, busLast, busOffering>>
  BY <1>1 DEF Bus!Close
<1>3. UNCHANGED <<memberVars, members, userRooms, clients, send, call, entry, bridge, hand,
                  serves, cancelled>>
  BY <1>1 DEF storeVars, memberVars, sendVars, hubVars, bridgeVars
<1>4. BusTypeOK'
  BY <1>2 DEF HubInv, TypeOK, BusTypeOK
<1>5. TypeOK'
  BY <1>1, <1>4, StoreFrame, HubFrame, LeaveFrame DEF HubInv, TypeOK
<1>6. \A s \in Sub : busChan'[s] = "free" => busChan[s] = "free"
  BY <1>2
<1>7. BusConsistent'
  BY <1>2, <1>3, <1>6 DEF HubInv, BusConsistent
<1>8. EntryConsistent'
  BY <1>2, <1>3 DEF HubInv, EntryConsistent
<1> QED BY <1>1, <1>3, <1>5, <1>7, <1>8, MembersFrame, RefsFrame, BridgesFrame, PanicFrame,
   LeavesFrame DEF HubInv

-----------------------------------------------------------------------------
(* Every step, and what follows                                            *)

\* HubInv holds before a step, hence after it.
LEMMA HubNextStep ==
  ASSUME HubInv, [Next]_vars
  PROVE  HubInv'
<1>1. ASSUME NEW u \in User, (\E k \in Conn : Register(u, k)) \/ Unregister(u)
      PROVE  HubInv'
  BY <1>1, RegisterStep
<1>2. ASSUME NEW u \in User, NEW r \in Room, JoinStore(r, u) \/ Leaves(r, u)
      PROVE  HubInv'
  BY <1>2, JoinStoreStep, LeaveRoomStep DEF Leaves
<1>3. ASSUME NEW u \in User, LeaveAllSnapshot(u) \/ LeaveAll(u)
      PROVE  HubInv'
  BY <1>3, LeaveAllStep, LeaveRoomStep DEF LeaveAll, LeaveAllRoom
<1>4. ASSUME NEW s \in Sub, Bridge(s) \/ Offer(s)
      PROVE  HubInv'
  BY <1>4, BridgeReceiveStep, BridgeDeliverStep, BridgeStopStep, OfferStep DEF Bridge
<1>5. CASE JoinStep
  BY <1>5, JoinSubscribeStep, JoinCountStep, JoinFailStep DEF JoinStep
<1>6. CASE CloseLock \/ CloseStep
  BY <1>6, CloseLockStep, CloseRoomStep, CloseStoreStep DEF CloseStep
<1>7. CASE UNCHANGED vars
  <2>1. UNCHANGED <<busVars, storeVars, hubVars, bridgeVars, leaveVars>>
    BY <1>7 DEF vars
  <2>2. UNCHANGED <<memberVars, members, userRooms, clients, send, busSubs, busClosed, call,
                    entry, bridge, cancelled>>
    BY <2>1 DEF busVars, storeVars, memberVars, sendVars, hubVars, bridgeVars
  <2>3. TypeOK'
    BY <2>1, BusFrame, StoreFrame, HubFrame, LeaveFrame DEF HubInv, TypeOK
  <2> QED BY <2>1, <2>2, <2>3, MembersFrame, RefsFrame, ChannelsFrame, EntryFrame,
     BridgesFrame, PanicFrame, LeavesFrame DEF HubInv
<1> QED BY <1>1, <1>2, <1>3, <1>4, <1>5, <1>6, <1>7, LeaveReleaseStep, ArriveStep,
   BusCloseStep DEF Next

\* What refs counts, and what the members, the entries, the bridges and the bus have
\* to do with each other, also while a call is inside Hub.mu.
LEMMA HubInvariance == Spec => []HubInv
<1>1. Init => HubInv
  <2> SUFFICES ASSUME Init PROVE HubInv
    OBVIOUS
  <2>1. << >> \in Seq(1..MaxMsg) /\ 0 \in 0..MaxMsg
    BY ChatHubAssumption, SMT
  <2>2. TypeOK
    BY <2>1, IdleTypes DEF Init, Bus!Init, TypeOK, BusTypeOK, StoreTypeOK, HubTypeOK, LeaveTypeOK
  <2>3. RefsConsistent
    BY IdleCall, FS_EmptySet DEF Init, RefsConsistent
  <2>4. \A s \in Sub : None # s
    BY ChatHubAssumption
  <2>5. MembersMirrored /\ BusConsistent /\ EntryConsistent /\ BridgesOwned /\ NoPanic
        /\ LeaveAllLeaves
    BY <2>4 DEF Init, Bus!Init, MembersMirrored, BusConsistent, EntryConsistent,
       BridgesOwned, NoPanic, LeaveAllLeaves
  <2> QED BY <2>2, <2>3, <2>5 DEF HubInv
<1>2. HubInv /\ [Next]_vars => HubInv'
  BY HubNextStep
<1> QED BY <1>1, <1>2, PTL DEF Spec

\* The variables keep their types.
THEOREM TypeCorrect == Spec => []TypeOK
<1>1. HubInv => TypeOK
  BY DEF HubInv
<1> QED BY <1>1, HubInvariance, PTL

\* Between the hub's calls a room has an entry, one bus subscription and a running
\* bridge iff it has members, and refs is their number; no other bridge runs
\* without having been told to stop (Hub.JoinRoom, LeaveRoom and Close).
THEOREM AlwaysServed == Spec => []RoomsServed
<1>1. HubInv => RoomsServed
  <2> SUFFICES ASSUME HubInv, call = Idle
               PROVE  RoomsServed
    BY DEF RoomsServed
  <2>1. call.op = "none"
    BY IdleCall
  <2>2. ASSUME NEW r \in Room
        PROVE  /\ refs[r] = Cardinality(members[r])
               /\ entry[r] = None <=> members[r] = {}
    <3>1. /\ refs[r] = Cardinality(members[r])
          /\ entry[r] = None => refs[r] = 0
          /\ entry[r] # None => refs[r] > 0
      BY <2>1, Counted DEF HubInv, RefsConsistent, TypeOK, HubTypeOK
    <3>2. Cardinality(members[r]) = 0 <=> members[r] = {}
      BY Counted, FS_EmptySet
    <3> QED BY <3>1, <3>2, Counted
  <2>3. ASSUME NEW r \in Room, entry[r] # None
        PROVE  /\ entry[r] \notin cancelled /\ serves[entry[r]] = r
               /\ ~busClosed => bridge[entry[r]] \in {"select", "holding"}
    BY <2>1, <2>3, EntryOf
  <2>4. ASSUME NEW r \in Room, ~busClosed
        PROVE  busSubs[r] = IF entry[r] = None THEN {} ELSE {entry[r]}
    BY <2>3, <2>4, SubscriptionOf
  <2> QED BY <2>2, <2>3, <2>4 DEF RoomsServed, HubInv, BridgesOwned
<1> QED BY <1>1, HubInvariance, PTL

\* Every open connection is the registered one of exactly one user: no bridge
\* sends on a closed channel and none is closed twice (WSStore.Register,
\* Unregister, DeliverToRoom and Close).
THEOREM NeverPanics == Spec => []NoPanic
<1>1. HubInv => NoPanic
  BY DEF HubInv
<1> QED BY <1>1, HubInvariance, PTL

\* A user is in no room that LeaveAllForUser does not still have to leave, but
\* those joined while it runs.
THEOREM LeavesAllRooms == Spec => []LeaveAllLeaves
<1>1. HubInv => LeaveAllLeaves
  BY DEF HubInv
<1> QED BY <1>1, HubInvariance, PTL
-----------------------------------------------------------------------------
(* What is delivered                                                       *)

\* What is in the logs, while they stay as they are.
LEMMA LogsFrame ==
  ASSUME LogsDisjoint, UNCHANGED <<busLog, busLast, busOffering>>
  PROVE  LogsDisjoint'
<1>1. \A s \in Sub : Logged(s)' = Logged(s)
  BY DEF Logged
<1> QED BY <1>1 DEF LogsDisjoint

\* Messages are numbers.
LEMMA Numbers ==
  ASSUME HubInv
  PROVE  /\ \A s \in Sub : \A i \in 1..Len(busLog[s]) : busLog[s][i] \in Nat
         /\ \A k \in Conn : \A a \in 1..Len(sendLog[k]) : sendLog[k][a] \in Nat
<1>1. /\ \A s \in Sub : busLog[s] \in Seq(1..MaxMsg)
      /\ \A k \in Conn : sendLog[k] \in Seq(1..MaxMsg)
  BY DEF HubInv, TypeOK, BusTypeOK, StoreTypeOK
<1>2. 1..MaxMsg \subseteq Nat
  OBVIOUS
<1>3. ASSUME NEW s \in Sub, NEW i \in 1..Len(busLog[s]) PROVE busLog[s][i] \in Nat
  BY <1>1, <1>2, Element
<1>4. ASSUME NEW k \in Conn, NEW a \in 1..Len(sendLog[k]) PROVE sendLog[k][a] \in Nat
  BY <1>1, <1>2, Element
<1> QED BY <1>3, <1>4

\* What connections were sent, while the logs stay as they are.
LEMMA ShownFrame ==
  ASSUME ShownOnce, UNCHANGED <<busLog, sendLog>>
  PROVE  ShownOnce'
BY DEF ShownOnce, Logged

\* Who took what, while no bridge takes or passes on.
LEMMA SentFrame ==
  ASSUME SentTaken, UNCHANGED <<busLog, busRd, hand, sendLog>>,
         \A s \in Sub : bridge'[s] = "holding" <=> bridge[s] = "holding"
  PROVE  SentTaken'
<1>1. ASSUME NEW k \in Conn, NEW a \in 1..Len(sendLog[k])
      PROVE  \E s \in Sub : \E i \in 1..busRd[s] :
                sendLog[k][a] = busLog[s][i] /\ (bridge'[s] = "holding" => i # busRd[s])
  BY DEF SentTaken
<1>2. \A s \in Sub : busRd[s] <= Len(busLog[s])
  BY DEF SentTaken
<1>3. \A s \in Sub : bridge'[s] = "holding" => busRd[s] > 0 /\ hand[s] = busLog[s][busRd[s]]
  BY DEF SentTaken
<1> QED BY <1>1, <1>2, <1>3 DEF SentTaken

\* A step with which no message moves.
LEMMA DeliveryFrame ==
  ASSUME DeliveryInv,
         UNCHANGED <<busLog, busRd, busLast, busOffering, hand, sendLog>>,
         \A s \in Sub : bridge'[s] = "holding" <=> bridge[s] = "holding"
  PROVE  DeliveryInv'
BY LogsFrame, ShownFrame, SentFrame DEF DeliveryInv

\* A fan-out starts: it has the one subscription of the room to go to, and its
\* message is later than all before.
LEMMA ArriveDelivery ==
  ASSUME HubInv, DeliveryInv, NEW r \in Room, Arrive(r)
  PROVE  DeliveryInv'
<1>1. /\ Bus!Arrive(r, busLast + 1)
      /\ UNCHANGED <<storeVars, hubVars, bridgeVars, leaveVars>>
  BY DEF Arrive
<1>2. /\ ~busClosed /\ busLast' = busLast + 1 /\ busOffering' = busSubs[r]
      /\ UNCHANGED <<busLog, busRd>>
  BY <1>1 DEF Bus!Arrive
<1>3. UNCHANGED <<hand, bridge, sendLog>>
  BY <1>1 DEF storeVars, sendVars, bridgeVars
<1>4. \A s, t \in busOffering' : s = t
  BY <1>2, SubscriptionOf
<1>5. ASSUME NEW s \in Sub, NEW n \in Logged(s) PROVE n < busLast + 1
  <2>1. busLast \in Nat
    BY DEF HubInv, TypeOK, BusTypeOK
  <2>2. n < busLast \/ n = busLast
    BY DEF DeliveryInv, LogsDisjoint
  <2>3. n \in Nat
    <3>1. PICK i \in 1..Len(busLog[s]) : n = busLog[s][i]
      BY DEF Logged
    <3> QED BY <3>1, Numbers
  <2> QED BY <2>1, <2>2, <2>3
<1>6. /\ \A s, t \in Sub : s # t => Logged(s) \cap Logged(t) = {}
      /\ \A s \in Sub : \A i, j \in 1..Len(busLog[s]) : i < j => busLog[s][i] < busLog[s][j]
  BY DEF DeliveryInv, LogsDisjoint
<1>7. \A s \in Sub : Logged(s)' = Logged(s)
  BY <1>2 DEF Logged
<1>8. LogsDisjoint'
  BY <1>2, <1>4, <1>5, <1>6, <1>7 DEF LogsDisjoint
<1> QED BY <1>2, <1>3, <1>8, ShownFrame, SentFrame DEF DeliveryInv

\* What a connection was sent came off the log of some bus subscription.
LEMMA SentLogged ==
  ASSUME HubInv, DeliveryInv, NEW k \in Conn, NEW a \in 1..Len(sendLog[k])
  PROVE  \E s \in Sub : \E i \in 1..Len(busLog[s]) :
            /\ i \in 1..busRd[s] /\ sendLog[k][a] = busLog[s][i]
            /\ sendLog[k][a] \in Logged(s)
            /\ bridge[s] = "holding" => i # busRd[s]
<1>1. PICK s \in Sub : \E i \in 1..busRd[s] :
         sendLog[k][a] = busLog[s][i] /\ (bridge[s] = "holding" => i # busRd[s])
  BY DEF DeliveryInv, SentTaken
<1>2. PICK i \in 1..busRd[s] :
         sendLog[k][a] = busLog[s][i] /\ (bridge[s] = "holding" => i # busRd[s])
  BY <1>1
<1>3. busRd[s] \in Nat /\ Len(busLog[s]) \in Nat /\ busRd[s] <= Len(busLog[s])
  BY DEF HubInv, TypeOK, BusTypeOK, DeliveryInv, SentTaken
<1>4. i \in 1..Len(busLog[s])
  BY <1>3
<1> QED BY <1>2, <1>4 DEF Logged

\* The one subscription takes the message or misses it: it is later than the
\* others of that log, in no other log, and no connection was sent it.
LEMMA OfferDelivery ==
  ASSUME HubInv, DeliveryInv, NEW s \in Sub, Offer(s)
  PROVE  DeliveryInv'
<1>1. Bus!Offer(s) /\ UNCHANGED <<storeVars, hubVars, bridgeVars, leaveVars>>
  BY DEF Offer
<1>2. /\ s \in busOffering /\ busOffering' = busOffering \ {s}
      /\ busLog' = busLog \/ busLog' = [busLog EXCEPT ![s] = Append(busLog[s], busLast)]
      /\ UNCHANGED <<busRd, busLast>>
  BY <1>1 DEF Bus!Offer
<1>3. UNCHANGED <<hand, bridge, sendLog>>
  BY <1>1 DEF storeVars, sendVars, bridgeVars
<1>4. busOffering' = {}
  BY <1>2 DEF DeliveryInv, LogsDisjoint
<1>5. \A t \in Sub : \A n \in Logged(t) : n < busLast
  BY <1>2 DEF DeliveryInv, LogsDisjoint
<1>6. /\ \A t, q \in Sub : t # q => Logged(t) \cap Logged(q) = {}
      /\ \A t \in Sub : \A i, j \in 1..Len(busLog[t]) : i < j => busLog[t][i] < busLog[t][j]
  BY DEF DeliveryInv, LogsDisjoint
<1>7. CASE busLog' = busLog
  <2>1. \A t \in Sub : Logged(t)' = Logged(t)
    BY <1>7 DEF Logged
  <2>2. LogsDisjoint'
    BY <1>2, <1>4, <1>5, <1>6, <1>7, <2>1 DEF LogsDisjoint
  <2> QED BY <1>2, <1>3, <1>7, <2>2, ShownFrame, SentFrame DEF DeliveryInv
<1>8. CASE busLog' = [busLog EXCEPT ![s] = Append(busLog[s], busLast)]
  <2>0. busLog \in [Sub -> Seq(1..MaxMsg)] /\ busLast \in Nat
    BY DEF HubInv, TypeOK, BusTypeOK
  <2>1. /\ busLog[s] \in Seq(1..MaxMsg) /\ Len(busLog[s]) \in Nat
        /\ busLog'[s] = Append(busLog[s], busLast)
        /\ \A t \in Sub \ {s} : busLog'[t] = busLog[t]
    BY <1>8, <2>0
  <2>2. /\ Len(busLog'[s]) = Len(busLog[s]) + 1
        /\ busLog'[s][Len(busLog[s]) + 1] = busLast
        /\ \A i \in 1..Len(busLog[s]) : busLog'[s][i] = busLog[s][i]
    BY <2>1
  <2>3. \A t \in Sub \ {s} : Logged(t)' = Logged(t)
    BY <2>1 DEF Logged
  <2>4. ASSUME NEW n \in Logged(s)' PROVE n = busLast \/ n \in Logged(s)
    <3>1. PICK i \in 1..Len(busLog'[s]) : n = busLog'[s][i]
      BY DEF Logged
    <3>2. i = Len(busLog[s]) + 1 \/ i \in 1..Len(busLog[s])
      BY <2>1, <2>2
    <3> QED BY <3>1, <3>2, <2>2 DEF Logged
  <2>5. \A t \in Sub : \A n \in Logged(t)' : n = busLast \/ (n < busLast /\ n \in Logged(t))
    BY <2>3, <2>4, <1>5
  <2>6. ASSUME NEW t \in Sub, NEW q \in Sub, t # q PROVE Logged(t)' \cap Logged(q)' = {}
    <3>1. \A n : n \in Logged(t) /\ n \in Logged(q) => FALSE
      BY <2>6, <1>6
    <3>2. \A p \in Sub : busLast \notin Logged(p)
      BY <1>5, <2>0
    <3>3. CASE t = s
      BY <3>1, <3>2, <3>3, <2>3, <2>4, <2>6
    <3>4. CASE q = s
      BY <3>1, <3>2, <3>4, <2>3, <2>4, <2>6
    <3>5. CASE t # s /\ q # s
      BY <3>1, <3>5, <2>3
    <3> QED BY <3>3, <3>4, <3>5
  <2>7. ASSUME NEW t \in Sub, NEW i \in 1..Len(busLog'[t]), NEW j \in 1..Len(busLog'[t]), i < j
        PROVE  busLog'[t][i] < busLog'[t][j]
    <3>1. CASE t # s
      BY <3>1, <2>1, <2>7, <1>6
    <3>2. CASE t = s
      <4>1. i \in 1..Len(busLog[s])
        BY <3>2, <2>1, <2>2, <2>7
      <4>2. busLog'[s][i] = busLog[s][i] /\ busLog[s][i] < busLast
        BY <4>1, <2>2, <1>5 DEF Logged
      <4>3. CASE j = Len(busLog[s]) + 1
        BY <4>2, <4>3, <3>2, <2>2
      <4>4. CASE j \in 1..Len(busLog[s])
        BY <4>1, <4>2, <4>4, <3>2, <2>2, <2>7, <1>6
      <4> QED BY <4>3, <4>4, <3>2, <2>1, <2>2
    <3> QED BY <3>1, <3>2
  <2>8. LogsDisjoint'
    BY <1>2, <1>4, <2>5, <2>6, <2>7 DEF LogsDisjoint
  <2>9. \A t \in Sub : /\ Len(busLog'[t]) >= Len(busLog[t])
                       /\ \A i \in 1..Len(busLog[t]) : busLog'[t][i] = busLog[t][i]
    BY <2>0, <2>1, <2>2
  <2>10. SentTaken'
    <3>1. ASSUME NEW t \in Sub
          PROVE  /\ busRd[t] <= Len(busLog'[t])
                 /\ bridge[t] = "holding" => busRd[t] > 0 /\ hand[t] = busLog'[t][busRd[t]]
      <4>1. /\ busRd[t] \in Nat /\ Len(busLog[t]) \in Nat /\ busRd[t] <= Len(busLog[t])
            /\ bridge[t] = "holding" => busRd[t] > 0 /\ hand[t] = busLog[t][busRd[t]]
        BY DEF HubInv, TypeOK, BusTypeOK, DeliveryInv, SentTaken
      <4>2. Len(busLog'[t]) \in Nat
        BY <2>0, <2>1, <2>2
      <4>3. busRd[t] > 0 => busRd[t] \in 1..Len(busLog[t])
        BY <4>1
      <4> QED BY <4>1, <4>2, <4>3, <2>9
    <3>2. ASSUME NEW k \in Conn, NEW a \in 1..Len(sendLog[k])
          PROVE  \E t \in Sub : \E i \in 1..busRd[t] :
                    sendLog[k][a] = busLog'[t][i] /\ (bridge[t] = "holding" => i # busRd[t])
      BY <2>9, SentLogged
    <3> QED BY <3>1, <3>2, <1>2, <1>3 DEF SentTaken
  <2>11. ShownOnce'
    <3>1. ASSUME NEW k \in Conn, NEW a \in 1..Len(sendLog[k]), NEW t \in Sub,
                 sendLog[k][a] \in Logged(t)'
          PROVE  sendLog[k][a] \in Logged(t)
      <4>1. PICK q \in Sub : sendLog[k][a] \in Logged(q)
        BY SentLogged
      <4>2. sendLog[k][a] # busLast
        BY <4>1, <1>5, <2>0
      <4> QED BY <3>1, <4>2, <2>5
    <3> QED BY <3>1, <1>3 DEF DeliveryInv, ShownOnce
  <2> QED BY <2>8, <2>10, <2>11 DEF DeliveryInv
<1> QED BY <1>2, <1>7, <1>8

\* A bridge takes the next message of its log.
LEMMA ReceiveDelivery ==
  ASSUME HubInv, DeliveryInv, NEW s \in Sub, BridgeReceive(s)
  PROVE  DeliveryInv'
<1>1. /\ bridge[s] = "select" /\ Bus!Receive(s)
      /\ hand' = [hand EXCEPT ![s] = busLog[s][busRd[s] + 1]]
      /\ bridge' = [bridge EXCEPT ![s] = "holding"] /\ UNCHANGED storeVars
  BY DEF BridgeReceive
<1>2. /\ busRd[s] < Len(busLog[s]) /\ busRd' = [busRd EXCEPT ![s] = @ + 1]
      /\ UNCHANGED <<busLog, busLast, busOffering>>
  BY <1>1 DEF Bus!Receive
<1>3. UNCHANGED sendLog
  BY <1>1 DEF storeVars, sendVars
<1>4. \A t \in Sub : /\ busRd[t] \in Nat /\ Len(busLog[t]) \in Nat /\ busRd[t] <= Len(busLog[t])
                     /\ busRd'[t] = IF t = s THEN busRd[s] + 1 ELSE busRd[t]
                     /\ bridge'[t] = IF t = s THEN "holding" ELSE bridge[t]
                     /\ hand'[t] = IF t = s THEN busLog[s][busRd[s] + 1] ELSE hand[t]
  BY <1>1, <1>2 DEF HubInv, TypeOK, BusTypeOK, HubTypeOK, DeliveryInv, SentTaken
<1>5. ASSUME NEW t \in Sub
      PROVE  /\ busRd'[t] <= Len(busLog[t])
             /\ bridge'[t] = "holding" => busRd'[t] > 0 /\ hand'[t] = busLog[t][busRd'[t]]
  <2>1. CASE t = s
    BY <2>1, <1>2, <1>4
  <2>2. CASE t # s
    BY <2>2, <1>4 DEF DeliveryInv, SentTaken
  <2> QED BY <2>1, <2>2
<1>6. ASSUME NEW k \in Conn, NEW a \in 1..Len(sendLog[k])
      PROVE  \E t \in Sub : \E i \in 1..busRd'[t] :
                sendLog[k][a] = busLog[t][i] /\ (bridge'[t] = "holding" => i # busRd'[t])
  <2>0. PICK t \in Sub : \E i \in 1..busRd[t] :
           sendLog[k][a] = busLog[t][i] /\ (bridge[t] = "holding" => i # busRd[t])
    BY DEF DeliveryInv, SentTaken
  <2>1. PICK i \in 1..busRd[t] :
           sendLog[k][a] = busLog[t][i] /\ (bridge[t] = "holding" => i # busRd[t])
    BY <2>0
  <2>2. i \in 1..busRd'[t] /\ (bridge'[t] = "holding" => i # busRd'[t])
    BY <2>1, <1>4
  <2> QED BY <2>1, <2>2
<1>7. SentTaken'
  BY <1>2, <1>3, <1>5, <1>6 DEF SentTaken
<1> QED BY <1>2, <1>3, <1>7, LogsFrame, ShownFrame DEF DeliveryInv

\* What a bridge passes on no connection has been sent; what connections were sent
\* from the same subscription is earlier.
LEMMA HandIsNew ==
  ASSUME HubInv, DeliveryInv, NEW s \in Sub, bridge[s] = "holding",
         NEW k \in Conn, NEW a \in 1..Len(sendLog[k])
  PROVE  /\ sendLog[k][a] # hand[s]
         /\ \A t \in Sub : sendLog[k][a] \in Logged(t) /\ hand[s] \in Logged(t) =>
               sendLog[k][a] < hand[s]
<1>1. /\ busRd[s] \in 1..Len(busLog[s]) /\ hand[s] = busLog[s][busRd[s]]
      /\ busLog[s][busRd[s]] \in Nat
  <2>1. /\ busRd[s] \in Nat /\ Len(busLog[s]) \in Nat /\ busRd[s] <= Len(busLog[s])
        /\ busRd[s] > 0 /\ hand[s] = busLog[s][busRd[s]]
    BY DEF HubInv, TypeOK, BusTypeOK, DeliveryInv, SentTaken
  <2>2. busRd[s] \in 1..Len(busLog[s])
    BY <2>1
  <2> QED BY <2>1, <2>2, Numbers
<1>2. hand[s] \in Logged(s)
  BY <1>1 DEF Logged
<1>0. PICK t \in Sub : \E i \in 1..Len(busLog[t]) :
         /\ i \in 1..busRd[t] /\ sendLog[k][a] = busLog[t][i] /\ sendLog[k][a] \in Logged(t)
         /\ bridge[t] = "holding" => i # busRd[t]
  BY SentLogged
<1>3. PICK i \in 1..Len(busLog[t]) :
         /\ i \in 1..busRd[t] /\ sendLog[k][a] = busLog[t][i] /\ sendLog[k][a] \in Logged(t)
         /\ bridge[t] = "holding" => i # busRd[t]
  BY <1>0
<1>4. \A p, q \in Sub : p # q => Logged(p) \cap Logged(q) = {}
  BY DEF DeliveryInv, LogsDisjoint
<1>5. t = s => sendLog[k][a] < hand[s]
  <2> SUFFICES ASSUME t = s PROVE sendLog[k][a] < hand[s]
    OBVIOUS
  <2>1. i \in 1..Len(busLog[s]) /\ i < busRd[s]
    BY <1>1, <1>3
  <2>2. busLog[s][i] < busLog[s][busRd[s]]
    BY <2>1, <1>1 DEF DeliveryInv, LogsDisjoint
  <2> QED BY <2>2, <1>1, <1>3
<1>6. sendLog[k][a] # hand[s]
  <2>1. CASE t = s
    <3>1. sendLog[k][a] \in Nat
      BY Numbers
    <3> QED BY <2>1, <3>1, <1>1, <1>5
  <2>2. CASE t # s
    BY <2>2, <1>2, <1>3, <1>4
  <2> QED BY <2>1, <2>2
<1>7. ASSUME NEW q \in Sub, sendLog[k][a] \in Logged(q), hand[s] \in Logged(q)
      PROVE  sendLog[k][a] < hand[s]
  BY <1>2, <1>3, <1>4, <1>5, <1>7
<1> QED BY <1>6, <1>7

\* A bridge passes on what it holds.
LEMMA DeliverDelivery ==
  ASSUME HubInv, DeliveryInv, NEW s \in Sub, BridgeDeliver(s)
  PROVE  DeliveryInv'
<1>1. /\ bridge[s] = "holding" /\ DeliverToRoom(serves[s], hand[s])
      /\ hand' = [hand EXCEPT ![s] = 0] /\ bridge' = [bridge EXCEPT ![s] = "select"]
      /\ UNCHANGED busVars
  BY DEF BridgeDeliver
<1>2. UNCHANGED <<busLog, busRd, busLast, busOffering>>
  BY <1>1 DEF busVars
<1>3. PICK K : sendLog' = [k \in Conn |-> IF k \in K THEN Append(sendLog[k], hand[s])
                                          ELSE sendLog[k]]
  BY <1>1 DEF DeliverToRoom
<1>4. \A t \in Sub : /\ bridge'[t] = IF t = s THEN "select" ELSE bridge[t]
                     /\ t # s => hand'[t] = hand[t]
  BY <1>1 DEF HubInv, TypeOK, HubTypeOK
<1>5. \A k \in Conn : sendLog[k] \in Seq(1..MaxMsg) /\ Len(sendLog[k]) \in Nat
  BY DEF HubInv, TypeOK, StoreTypeOK
<1>6. ASSUME NEW k \in Conn, NEW a \in 1..Len(sendLog'[k])
      PROVE  \/ a \in 1..Len(sendLog[k]) /\ sendLog'[k][a] = sendLog[k][a]
             \/ a = Len(sendLog[k]) + 1 /\ sendLog'[k][a] = hand[s]
  <2>1. CASE k \in K
    BY <2>1, <1>3, <1>5
  <2>2. CASE k \notin K
    BY <2>2, <1>3
  <2> QED BY <2>1, <2>2
<1>7. SentTaken'
  <2>1. \A t \in Sub : /\ busRd[t] <= Len(busLog[t])
                       /\ bridge'[t] = "holding" =>
                             busRd[t] > 0 /\ hand'[t] = busLog[t][busRd[t]]
    BY <1>4 DEF DeliveryInv, SentTaken
  <2>2. ASSUME NEW k \in Conn, NEW a \in 1..Len(sendLog'[k])
        PROVE  \E t \in Sub : \E i \in 1..busRd[t] :
                  sendLog'[k][a] = busLog[t][i] /\ (bridge'[t] = "holding" => i # busRd[t])
    <3>1. CASE a \in 1..Len(sendLog[k]) /\ sendLog'[k][a] = sendLog[k][a]
      <4>1. \E t \in Sub : \E i \in 1..busRd[t] :
               sendLog[k][a] = busLog[t][i] /\ (bridge[t] = "holding" => i # busRd[t])
        BY <3>1 DEF DeliveryInv, SentTaken
      <4> QED BY <3>1, <4>1, <1>4
    <3>2. CASE sendLog'[k][a] = hand[s]
      <4>1. /\ busRd[s] \in 1..busRd[s] /\ hand[s] = busLog[s][busRd[s]]
            /\ bridge'[s] # "holding"
        BY <1>1, <1>4 DEF HubInv, TypeOK, BusTypeOK, DeliveryInv, SentTaken
      <4> QED BY <3>2, <4>1
    <3> QED BY <3>1, <3>2, <1>6
  <2> QED BY <2>1, <2>2, <1>2 DEF SentTaken
<1>8. ShownOnce'
  <2>1. ASSUME NEW k \in Conn, NEW a \in 1..Len(sendLog'[k]), NEW b \in 1..Len(sendLog'[k]),
               a < b
        PROVE  /\ sendLog'[k][a] # sendLog'[k][b]
               /\ \A t \in Sub : sendLog'[k][a] \in Logged(t) /\ sendLog'[k][b] \in Logged(t) =>
                     sendLog'[k][a] < sendLog'[k][b]
    <3>1. Len(sendLog'[k]) \in Nat /\ Len(sendLog'[k]) <= Len(sendLog[k]) + 1
      BY <1>3, <1>5
    <3>2. a \in 1..Len(sendLog[k]) /\ sendLog'[k][a] = sendLog[k][a]
      BY <2>1, <3>1, <1>5, <1>6
    <3>3. CASE b \in 1..Len(sendLog[k]) /\ sendLog'[k][b] = sendLog[k][b]
      BY <2>1, <3>2, <3>3 DEF DeliveryInv, ShownOnce
    <3>4. CASE sendLog'[k][b] = hand[s]
      BY <3>2, <3>4, <1>1, HandIsNew
    <3> QED BY <3>3, <3>4, <1>6
  <2>2. \A t \in Sub : Logged(t)' = Logged(t)
    BY <1>2 DEF Logged
  <2> QED BY <2>1, <2>2 DEF ShownOnce
<1> QED BY <1>2, <1>7, <1>8, LogsFrame DEF DeliveryInv

\* The steps of the store and the hub move no message.
LEMMA StillDelivery ==
  ASSUME HubInv, DeliveryInv,
         \/ \E u \in User : \/ \E k \in Conn : Register(u, k)
                            \/ \E r \in Room : JoinStore(r, u) \/ Leaves(r, u)
                            \/ Unregister(u) \/ LeaveAllSnapshot(u) \/ LeaveAll(u)
         \/ JoinCount \/ JoinFail \/ CloseLock \/ CloseStore \/ UNCHANGED vars
  PROVE  DeliveryInv'
<1>1. UNCHANGED <<busVars, bridgeVars, sendLog>>
  BY DEF Register, JoinStore, Leaves, LeaveRoom, Unregister, LeaveAllSnapshot, LeaveAll,
     LeaveAllSkip, LeaveAllRoom, LeaveAllReturn, JoinCount, JoinFail, CloseLock, CloseStore,
     sendVars, storeVars, vars
<1>2. UNCHANGED <<busLog, busRd, busLast, busOffering, hand, bridge, sendLog>>
  BY <1>1 DEF busVars, bridgeVars
<1> QED BY <1>2, DeliveryFrame

\* DeliveryInv holds before a step, hence after it.
LEMMA DeliveryNextStep ==
  ASSUME HubInv, DeliveryInv, [Next]_vars
  PROVE  DeliveryInv'
<1>1. ASSUME NEW s \in Sub, JoinSubscribe(s) PROVE DeliveryInv'
  <2>1. /\ Bus!Subscribe(call.room, s) /\ bridge' = [bridge EXCEPT ![s] = "select"]
        /\ UNCHANGED <<storeVars, hand>>
    BY <1>1 DEF JoinSubscribe
  <2>2. busChan[s] = "free" /\ UNCHANGED <<busLog, busRd, busLast, busOffering>>
    BY <2>1 DEF Bus!Subscribe
  <2>3. bridge[s] = "none"
    BY <2>2 DEF HubInv, BusConsistent
  <2>4. \A t \in Sub : bridge'[t] = "holding" <=> bridge[t] = "holding"
    BY <2>1, <2>3 DEF HubInv, TypeOK, HubTypeOK
  <2>5. UNCHANGED sendLog
    BY <2>1 DEF storeVars, sendVars
  <2> QED BY <2>1, <2>2, <2>4, <2>5, DeliveryFrame
<1>2. CASE LeaveRelease
  <2>1. /\ call.op = "leave" /\ BusUnsubscribe(call.room)
        /\ UNCHANGED <<storeVars, bridge, hand>>
    BY <1>2 DEF LeaveRelease
  <2>2. call.room \in Room /\ entry[call.room] # None
    BY <2>1 DEF HubInv, RefsConsistent
  <2>3. UNCHANGED <<busLog, busRd, busLast, busOffering>>
    BY <2>1, <2>2, BusUnsubscribeBus
  <2> QED BY <2>1, <2>3, DeliveryFrame DEF storeVars, sendVars
<1>3. ASSUME NEW r \in Room, CloseRoom(r) PROVE DeliveryInv'
  <2>1. /\ entry[r] # None /\ BusUnsubscribe(r) /\ UNCHANGED <<storeVars, bridge, hand>>
    BY <1>3 DEF CloseRoom
  <2>2. UNCHANGED <<busLog, busRd, busLast, busOffering>>
    BY <2>1, BusUnsubscribeBus
  <2> QED BY <2>1, <2>2, DeliveryFrame DEF storeVars, sendVars
<1>4. ASSUME NEW s \in Sub, BridgeStop(s) PROVE DeliveryInv'
  <2>1. /\ bridge[s] = "select" /\ bridge' = [bridge EXCEPT ![s] = "done"]
        /\ UNCHANGED <<busVars, storeVars, hand>>
    BY <1>4 DEF BridgeStop
  <2>2. \A t \in Sub : bridge'[t] = "holding" <=> bridge[t] = "holding"
    BY <2>1 DEF HubInv, TypeOK, HubTypeOK
  <2>3. UNCHANGED <<busLog, busRd, busLast, busOffering, sendLog>>
    BY <2>1 DEF busVars, storeVars, sendVars
  <2> QED BY <2>1, <2>2, <2>3, DeliveryFrame
<1>5. CASE BusClose
  <2>1. Bus!Close /\ UNCHANGED <<storeVars, bridgeVars>>
    BY <1>5 DEF BusClose
  <2>2. UNCHANGED <<busLog, busRd, busLast, busOffering>>
    BY <2>1 DEF Bus!Close
  <2> QED BY <2>1, <2>2, DeliveryFrame DEF storeVars, sendVars, bridgeVars
<1>6. ASSUME NEW s \in Sub, Bridge(s) \/ Offer(s) PROVE DeliveryInv'
  BY <1>4, <1>6, ReceiveDelivery, DeliverDelivery, OfferDelivery DEF Bridge
<1> QED BY <1>1, <1>2, <1>3, <1>5, <1>6, ArriveDelivery, StillDelivery
   DEF Next, JoinStep, CloseStep

\* What is true of the rooms, and where every message is that was delivered.
THEOREM Invariance == Spec => []Inv
<1>1. Init => DeliveryInv
  BY DEF Init, Bus!Init, DeliveryInv, LogsDisjoint, SentTaken, ShownOnce, Logged
<1>2. HubInv /\ HubInv' /\ DeliveryInv /\ [Next]_vars => DeliveryInv'
  BY DeliveryNextStep
<1>3. HubInv /\ DeliveryInv => Inv
  BY DEF Inv
<1> QED BY <1>1, <1>2, <1>3, HubInvariance, PTL DEF Spec

\* No connection gets a message twice, and the messages of one bus subscription
\* reach it in order, whoever joins and leaves in between (Hub.bridge,
\* WSStore.DeliverToRoom and the bus subscription of JoinRoom and LeaveRoom).
THEOREM EventsShownOnce == Spec => []ShownOnce
<1>1. Inv => ShownOnce
  BY DEF Inv, DeliveryInv
<1> QED BY <1>1, Invariance, PTL
=============================================================================

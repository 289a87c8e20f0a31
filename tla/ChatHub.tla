------------------------------ MODULE ChatHub ------------------------------
(***************************************************************************)
(* chat.Hub (internal/chat/hub.go) and its WSStore (wsstore.go): who is in *)
(* which room on this gateway, the one connection of each user, and one    *)
(* bus subscription with a bridge per room that has members.               *)
(*                                                                         *)
(* No command of the repository calls the hub yet, so that any method may  *)
(* be called at any time, by any number of goroutines.  Hub.mu serialises  *)
(* JoinRoom, LeaveRoom and Close, each of which is cut where it calls the  *)
(* store or the bus; Register, Unregister, RoomsForUser and DeliverToRoom  *)
(* take the store's lock only and run in between.  LeaveAllForUser holds   *)
(* no lock between its calls of LeaveRoom.                                 *)
(***************************************************************************)
EXTENDS Naturals, Sequences, FiniteSets

CONSTANTS Room, User,
          Conn,         \* Go channels made by Register: a user's connections
          Sub,          \* Go channels made by bus.Subscribe, and their bridges
          SubBuffer,
          MaxMsg,       \* how many messages are published
          None

ASSUME ChatHubAssumption ==
    /\ SubBuffer \in Nat \ {0} /\ MaxMsg \in Nat
    /\ None \notin Conn /\ None \notin Sub /\ None \notin Room /\ None \notin User
    /\ IsFiniteSet(User)

VARIABLES
    busSubs, busChan, busLog, busRd, busLast, busOffering, busClosed,
    \* WSStore
    clients,    \* user -> the connection registered, or None
    members,    \* rooms: room -> users
    userRooms,  \* user -> rooms
    send,       \* connection -> its Go channel: "free", "open" or "closed"
    sendLog,    \* connection -> events ever sent to it
    \* Hub
    call,       \* the method inside Hub.mu, as [op, room, user]
    entry,      \* room -> the bus subscription of its roomEntry, or None
    refs,       \* room -> roomEntry.refs
    bridge, hand, serves, cancelled,    \* as in FeedHub
    \* calls of LeaveAllForUser
    leaving,    \* users for whom one is under way
    pending,    \* user -> rooms of its snapshot still to be left
    rejoined    \* user -> rooms joined since its snapshot and not left again

Bus == INSTANCE PubSub WITH
    Channel <- Room, Msg <- 1..MaxMsg, subs <- busSubs, chan <- busChan,
    log <- busLog, rd <- busRd, last <- busLast, offering <- busOffering,
    closed <- busClosed

busVars == <<busSubs, busChan, busLog, busRd, busLast, busOffering, busClosed>>
memberVars == <<members, userRooms>>
sendVars == <<send, sendLog>>
storeVars == <<clients, memberVars, sendVars>>
hubVars == <<call, entry, refs>>
bridgeVars == <<bridge, hand, serves, cancelled>>
leaveVars == <<leaving, pending, rejoined>>
vars == <<busVars, storeVars, hubVars, bridgeVars, leaveVars>>

\* Nobody holds Hub.mu.
Idle == [op |-> "none", room |-> None, user |-> None]

Init ==
    /\ Bus!Init
    /\ clients = [u \in User |-> None]
    /\ members = [r \in Room |-> {}]
    /\ userRooms = [u \in User |-> {}]
    /\ send = [k \in Conn |-> "free"]
    /\ sendLog = [k \in Conn |-> << >>]
    /\ call = Idle
    /\ entry = [r \in Room |-> None]
    /\ refs = [r \in Room |-> 0]
    /\ bridge = [s \in Sub |-> "none"]
    /\ hand = [s \in Sub |-> 0]
    /\ serves = [s \in Sub |-> None]
    /\ cancelled = {}
    /\ leaving = {}
    /\ pending = [u \in User |-> {}]
    /\ rejoined = [u \in User |-> {}]

-----------------------------------------------------------------------------
(* WSStore: connections                                                    *)

Closing(k) == IF k = None THEN send ELSE [send EXCEPT ![k] = "closed"]

\* Wrong: the old connection is replaced and stays open for ever.
Register_KeepsOld(u, k) ==
    /\ send[k] = "free"
    /\ send' = [send EXCEPT ![k] = "open"]
    /\ clients' = [clients EXCEPT ![u] = k]
    /\ UNCHANGED <<busVars, memberVars, sendLog, hubVars, bridgeVars, leaveVars>>

\* A second connection of the user closes the first and takes its place; the
\* rooms stay.
Register(u, k) ==
    /\ send[k] = "free"
    /\ send' = [Closing(clients[u]) EXCEPT ![k] = "open"]
    /\ clients' = [clients EXCEPT ![u] = k]
    /\ UNCHANGED <<busVars, memberVars, sendLog, hubVars, bridgeVars, leaveVars>>

\* Whatever connection the user has now is closed, not the caller's; the rooms
\* stay.
Unregister(u) ==
    /\ clients[u] # None
    /\ send' = Closing(clients[u])
    /\ clients' = [clients EXCEPT ![u] = None]
    /\ UNCHANGED <<busVars, memberVars, sendLog, hubVars, bridgeVars, leaveVars>>

-----------------------------------------------------------------------------
(* WSStore: membership, called inside Hub.mu                               *)

Enter(r, u) ==
    /\ members' = [members EXCEPT ![r] = @ \cup {u}]
    /\ userRooms' = [userRooms EXCEPT ![u] = @ \cup {r}]

Leave(r, u) ==
    /\ members' = [members EXCEPT ![r] = @ \ {u}]
    /\ userRooms' = [userRooms EXCEPT ![u] = @ \ {r}]

-----------------------------------------------------------------------------
(* Hub.JoinRoom                                                            *)

\* The store adds the user, who must be connected and not in the room yet;
\* otherwise JoinRoom returns without effect.
JoinStore(r, u) ==
    /\ call = Idle
    /\ clients[u] # None /\ r \notin userRooms[u]
    /\ Enter(r, u)
    /\ rejoined' = IF u \in leaving THEN [rejoined EXCEPT ![u] = @ \cup {r}] ELSE rejoined
    /\ call' = [op |-> "join", room |-> r, user |-> u]
    /\ UNCHANGED <<busVars, clients, sendVars, entry, refs, bridgeVars, leaving, pending>>

\* The first member of the room: subscribe on the bus and start a bridge.
JoinSubscribe(s) ==
    LET r == call.room IN
    /\ call.op = "join" /\ entry[r] = None
    /\ Bus!Subscribe(r, s)
    /\ entry' = [entry EXCEPT ![r] = s]
    /\ refs' = [refs EXCEPT ![r] = 1]
    /\ bridge' = [bridge EXCEPT ![s] = "select"]
    /\ serves' = [serves EXCEPT ![s] = r]
    /\ call' = Idle
    /\ UNCHANGED <<storeVars, hand, cancelled, leaveVars>>

JoinCount ==
    /\ call.op = "join" /\ entry[call.room] # None
    /\ refs' = [refs EXCEPT ![call.room] = @ + 1]
    /\ call' = Idle
    /\ UNCHANGED <<busVars, storeVars, entry, bridgeVars, leaveVars>>

\* Wrong: the error is returned and the user stays in the room.
JoinFail_NoUndo ==
    /\ call.op = "join" /\ entry[call.room] = None
    /\ call' = Idle
    /\ UNCHANGED <<busVars, storeVars, entry, refs, bridgeVars, leaveVars>>

\* bus.Subscribe fails: the store is put back.
JoinFail ==
    /\ call.op = "join" /\ entry[call.room] = None
    /\ Leave(call.room, call.user)
    /\ call' = Idle
    /\ rejoined' = [rejoined EXCEPT ![call.user] = @ \ {call.room}]
    /\ UNCHANGED <<busVars, clients, sendVars, entry, refs, bridgeVars, leaving, pending>>

-----------------------------------------------------------------------------
(* Hub.LeaveRoom and LeaveAllForUser                                       *)

\* The store drops the user and the entry its reference; if the room is empty
\* the method goes on to give the subscription back.
LeaveRoom(r, u) ==
    /\ call = Idle
    /\ u \in members[r]
    /\ Leave(r, u)
    /\ refs' = IF entry[r] = None THEN refs ELSE [refs EXCEPT ![r] = @ - 1]
    /\ call' = IF entry[r] # None /\ members[r] = {u}
               THEN [op |-> "leave", room |-> r, user |-> u] ELSE Idle
    /\ rejoined' = [rejoined EXCEPT ![u] = @ \ {r}]
    /\ UNCHANGED <<busVars, clients, sendVars, entry, bridgeVars, leaving>>

Leaves(r, u) == LeaveRoom(r, u) /\ UNCHANGED pending

\* bus.Unsubscribe, whose error is ignored.
BusUnsubscribe(r) ==
    \/ Bus!Unsubscribe(r, entry[r])
    \/ (busClosed \/ entry[r] \notin busSubs[r]) /\ UNCHANGED busVars

\* Wrong: the bridge is told to stop and the bus goes on sending to it.
LeaveRelease_KeepsSub ==
    LET r == call.room IN
    /\ call.op = "leave"
    /\ cancelled' = cancelled \cup {entry[r]}
    /\ entry' = [entry EXCEPT ![r] = None]
    /\ refs' = [refs EXCEPT ![r] = 0]
    /\ call' = Idle
    /\ UNCHANGED <<busVars, storeVars, bridge, hand, serves, leaveVars>>

LeaveRelease ==
    LET r == call.room IN
    /\ call.op = "leave"
    /\ cancelled' = cancelled \cup {entry[r]}
    /\ BusUnsubscribe(r)
    /\ entry' = [entry EXCEPT ![r] = None]
    /\ refs' = [refs EXCEPT ![r] = 0]
    /\ call' = Idle
    /\ UNCHANGED <<storeVars, bridge, hand, serves, leaveVars>>

\* RoomsForUser copies the rooms, under the store's lock alone.
LeaveAllSnapshot(u) ==
    /\ u \notin leaving
    /\ leaving' = leaving \cup {u}
    /\ pending' = [pending EXCEPT ![u] = userRooms[u]]
    /\ UNCHANGED <<busVars, storeVars, hubVars, bridgeVars, rejoined>>

\* Wrong: the loop ends at the first room that was left already.
LeaveAllSkip_Stops(u, r) ==
    /\ u \in leaving /\ r \in pending[u]
    /\ call = Idle /\ u \notin members[r]
    /\ pending' = [pending EXCEPT ![u] = {}]
    /\ UNCHANGED <<busVars, storeVars, hubVars, bridgeVars, leaving, rejoined>>

\* A room of the snapshot that somebody else left in the meantime.
LeaveAllSkip(u, r) ==
    /\ u \in leaving /\ r \in pending[u]
    /\ call = Idle /\ u \notin members[r]
    /\ pending' = [pending EXCEPT ![u] = @ \ {r}]
    /\ UNCHANGED <<busVars, storeVars, hubVars, bridgeVars, leaving, rejoined>>

LeaveAllRoom(u, r) ==
    /\ u \in leaving /\ r \in pending[u]
    /\ LeaveRoom(r, u)
    /\ pending' = [pending EXCEPT ![u] = @ \ {r}]

LeaveAllReturn(u) ==
    /\ u \in leaving /\ pending[u] = {}
    /\ leaving' = leaving \ {u}
    /\ rejoined' = [rejoined EXCEPT ![u] = {}]
    /\ UNCHANGED <<busVars, storeVars, hubVars, bridgeVars, pending>>

-----------------------------------------------------------------------------
(* Hub.bridge and WSStore.DeliverToRoom                                    *)

BridgeReceive(s) ==
    /\ bridge[s] = "select"
    /\ Bus!Receive(s)
    /\ hand' = [hand EXCEPT ![s] = busLog[s][busRd[s] + 1]]
    /\ bridge' = [bridge EXCEPT ![s] = "holding"]
    /\ UNCHANGED <<storeVars, hubVars, serves, cancelled, leaveVars>>

\* The event goes to the members' connections, but for those whose buffer is
\* full; how far a connection's writer has got is not followed.
DeliverToRoom(r, n) ==
    \E K \in SUBSET {clients[u] : u \in members[r]} :
        sendLog' = [k \in Conn |-> IF k \in K THEN Append(sendLog[k], n) ELSE sendLog[k]]

BridgeDeliver(s) ==
    /\ bridge[s] = "holding"
    /\ DeliverToRoom(serves[s], hand[s])
    /\ hand' = [hand EXCEPT ![s] = 0]
    /\ bridge' = [bridge EXCEPT ![s] = "select"]
    /\ UNCHANGED <<busVars, clients, memberVars, send, hubVars, serves, cancelled, leaveVars>>

BridgeStop(s) ==
    /\ bridge[s] = "select"
    /\ \/ s \in cancelled
       \/ busChan[s] = "closed" /\ busRd[s] = Len(busLog[s])
    /\ bridge' = [bridge EXCEPT ![s] = "done"]
    /\ UNCHANGED <<busVars, storeVars, hubVars, hand, serves, cancelled, leaveVars>>

-----------------------------------------------------------------------------
(* Hub.Close, and the bus                                                  *)

CloseLock ==
    /\ call = Idle
    /\ call' = [Idle EXCEPT !.op = "close"]
    /\ UNCHANGED <<busVars, storeVars, entry, refs, bridgeVars, leaveVars>>

CloseRoom(r) ==
    /\ call.op = "close"
    /\ entry[r] # None /\ entry[r] \notin cancelled
    /\ cancelled' = cancelled \cup {entry[r]}
    /\ BusUnsubscribe(r)
    /\ UNCHANGED <<storeVars, hubVars, bridge, hand, serves, leaveVars>>

CloseStore ==
    /\ call.op = "close"
    /\ \A r \in Room : entry[r] # None => entry[r] \in cancelled
    /\ entry' = [r \in Room |-> None]
    /\ refs' = [r \in Room |-> 0]
    /\ send' = [k \in Conn |-> IF \E u \in User : clients[u] = k
                               THEN "closed" ELSE send[k]]
    /\ clients' = [u \in User |-> None]
    /\ members' = [r \in Room |-> {}]
    /\ userRooms' = [u \in User |-> {}]
    /\ call' = Idle
    /\ rejoined' = [u \in User |-> {}]
    /\ UNCHANGED <<busVars, sendLog, bridgeVars, leaving, pending>>

Arrive(r) ==
    /\ busLast < MaxMsg
    /\ Bus!Arrive(r, busLast + 1)
    /\ UNCHANGED <<storeVars, hubVars, bridgeVars, leaveVars>>

Offer(s) == Bus!Offer(s) /\ UNCHANGED <<storeVars, hubVars, bridgeVars, leaveVars>>

BusClose == Bus!Close /\ UNCHANGED <<storeVars, hubVars, bridgeVars, leaveVars>>

-----------------------------------------------------------------------------
JoinStep == (\E s \in Sub : JoinSubscribe(s)) \/ JoinCount \/ JoinFail
CloseStep == (\E r \in Room : CloseRoom(r)) \/ CloseStore
LeaveAll(u) == \/ \E r \in Room : LeaveAllSkip(u, r) \/ LeaveAllRoom(u, r)
               \/ LeaveAllReturn(u)
Bridge(s) == BridgeReceive(s) \/ BridgeDeliver(s) \/ BridgeStop(s)

Next ==
    \/ \E u \in User : \/ \E k \in Conn : Register(u, k)
                       \/ \E r \in Room : JoinStore(r, u) \/ Leaves(r, u)
                       \/ Unregister(u) \/ LeaveAllSnapshot(u) \/ LeaveAll(u)
    \/ \E s \in Sub : Bridge(s) \/ Offer(s)
    \/ \E r \in Room : Arrive(r)
    \/ JoinStep \/ LeaveRelease \/ CloseLock \/ CloseStep \/ BusClose

Spec == Init /\ [][Next]_vars

-----------------------------------------------------------------------------
(* Properties                                                              *)

BusTypeOK ==
    /\ busSubs \in [Room -> SUBSET Sub]
    /\ busChan \in [Sub -> {"free", "open", "closed"}]
    /\ busLog \in [Sub -> Seq(1..MaxMsg)]
    /\ busRd \in [Sub -> Nat]
    /\ busLast \in 0..MaxMsg
    /\ busOffering \in SUBSET Sub
    /\ busClosed \in BOOLEAN

StoreTypeOK ==
    /\ clients \in [User -> Conn \cup {None}]
    /\ members \in [Room -> SUBSET User]
    /\ userRooms \in [User -> SUBSET Room]
    /\ send \in [Conn -> {"free", "open", "closed"}]
    /\ sendLog \in [Conn -> Seq(1..MaxMsg)]

HubTypeOK ==
    /\ call \in [op : {"none", "join", "leave", "close"},
                 room : Room \cup {None}, user : User \cup {None}]
    /\ entry \in [Room -> Sub \cup {None}]
    /\ refs \in [Room -> Nat]
    /\ bridge \in [Sub -> {"none", "select", "holding", "done"}]
    /\ hand \in [Sub -> 0..MaxMsg]
    /\ serves \in [Sub -> Room \cup {None}]
    /\ cancelled \in SUBSET Sub

LeaveTypeOK ==
    /\ leaving \in SUBSET User
    /\ pending \in [User -> SUBSET Room]
    /\ rejoined \in [User -> SUBSET Room]

TypeOK == BusTypeOK /\ StoreTypeOK /\ HubTypeOK /\ LeaveTypeOK

\* Between calls, a room has an entry iff it has members, refs is their number,
\* its one bus subscription is the entry's, and the bridge of that runs; every
\* other bridge has been told to stop.  It holds across failed joins and across
\* Close, after which the hub is empty and can be used again.
RoomsServed ==
    call = Idle =>
        /\ \A r \in Room :
              /\ refs[r] = Cardinality(members[r])
              /\ entry[r] = None <=> members[r] = {}
              /\ ~busClosed => busSubs[r] = IF entry[r] = None THEN {} ELSE {entry[r]}
              /\ entry[r] # None =>
                    /\ entry[r] \notin cancelled /\ serves[entry[r]] = r
                    /\ ~busClosed => bridge[entry[r]] \in {"select", "holding"}
        /\ \A s \in Sub : bridge[s] \in {"select", "holding"} =>
              s \in cancelled \/ \E r \in Room : entry[r] = s

\* Every open connection is the registered one of exactly one user: no bridge
\* sends on a closed channel, none is closed twice and none is left open with
\* nobody to close it.
NoPanic ==
    /\ \A u \in User : clients[u] # None => send[clients[u]] = "open"
    /\ \A k \in Conn : send[k] = "open" =>
          \E u \in User : clients[u] = k /\ \A v \in User \ {u} : clients[v] # k

\* When LeaveAllForUser returns, the user is in no room but those joined while
\* it ran.
LeaveAllLeaves ==
    \A u \in leaving : userRooms[u] \subseteq pending[u] \cup rejoined[u]

\* Whatever bridges a room had, with joins and leaves in between, no connection
\* gets a message twice, and those of one bus subscription come in order.
Logged(s) == {busLog[s][i] : i \in 1..Len(busLog[s])}

ShownOnce ==
    \A k \in Conn : \A a, b \in 1..Len(sendLog[k]) : a < b =>
        /\ sendLog[k][a] # sendLog[k][b]
        /\ \A s \in Sub : sendLog[k][a] \in Logged(s) /\ sendLog[k][b] \in Logged(s) =>
              sendLog[k][a] < sendLog[k][b]

-----------------------------------------------------------------------------
(* The inductive invariant behind the first three                          *)

MembersMirrored == \A r \in Room, u \in User : u \in members[r] <=> r \in userRooms[u]

\* refs lacks the member inside JoinRoom, and is 0 before LeaveRoom deletes the
\* entry.
RefsConsistent ==
    /\ call.op \in {"join", "leave"} => call.room \in Room /\ call.user \in User
    /\ call.op = "join" => call.user \in members[call.room]
    /\ call.op = "leave" => entry[call.room] # None /\ refs[call.room] = 0
    /\ \A r \in Room :
          /\ Cardinality(members[r]) =
                refs[r] + (IF call.op = "join" /\ call.room = r THEN 1 ELSE 0)
          /\ entry[r] = None => refs[r] = 0
          /\ entry[r] # None => refs[r] > 0 \/ (call.op = "leave" /\ call.room = r)

\* A Go channel that was not made has no bridge, a subscribed one is open; what
\* is passed on is a message.
BusConsistent ==
    /\ \A s \in Sub : busChan[s] = "free" =>
          bridge[s] = "none" /\ s \notin cancelled /\ \A r \in Room : entry[r] # s
    /\ \A r \in Room : \A s \in busSubs[r] : busChan[s] = "open"
    /\ \A s \in Sub : bridge[s] = "holding" => hand[s] # 0
    /\ busOffering # {} => busLast # 0

\* An entry goes with its bus subscription and its bridge; Close cancels the
\* entries before it drops them.
EntryConsistent ==
    \A r \in Room :
        /\ ~busClosed => busSubs[r] = IF entry[r] = None \/ entry[r] \in cancelled
                                     THEN {} ELSE {entry[r]}
        /\ entry[r] # None =>
              /\ serves[entry[r]] = r
              /\ entry[r] \in cancelled => call.op = "close"
              /\ entry[r] \notin cancelled /\ ~busClosed =>
                    bridge[entry[r]] \in {"select", "holding"}

BridgesOwned ==
    \A s \in Sub : bridge[s] \in {"select", "holding"} =>
        s \in cancelled \/ \E r \in Room : entry[r] = s

HubInv == /\ TypeOK /\ MembersMirrored /\ RefsConsistent /\ BusConsistent
          /\ EntryConsistent /\ BridgesOwned /\ NoPanic /\ LeaveAllLeaves

-----------------------------------------------------------------------------
(* and behind the last                                                     *)

\* A room has one bus subscription at a time, so that a message is in one log.
LogsDisjoint ==
    /\ \A s, t \in busOffering : s = t
    /\ \A s, t \in Sub : s # t => Logged(s) \cap Logged(t) = {}
    /\ \A s \in Sub : \A i, j \in 1..Len(busLog[s]) : i < j => busLog[s][i] < busLog[s][j]
    /\ \A s \in Sub : \A n \in Logged(s) : n < busLast \/ (n = busLast /\ busOffering = {})

\* What a connection was sent some bridge took and holds no more; what that bridge
\* took later it was sent later.
SentTaken ==
    /\ \A s \in Sub : busRd[s] <= Len(busLog[s])
    /\ \A s \in Sub : bridge[s] = "holding" => busRd[s] > 0 /\ hand[s] = busLog[s][busRd[s]]
    /\ \A k \in Conn : \A a \in 1..Len(sendLog[k]) : \E s \in Sub : \E i \in 1..busRd[s] :
          sendLog[k][a] = busLog[s][i] /\ (bridge[s] = "holding" => i # busRd[s])

DeliveryInv == LogsDisjoint /\ SentTaken /\ ShownOnce

Inv == HubInv /\ DeliveryInv
=============================================================================

------------------------------ MODULE FeedHub ------------------------------
(***************************************************************************)
(* The realtime gateway: feed.Hub (internal/feed/hub.go) between the bus   *)
(* (PubSub) and the per-browser channels (SubscriptionStore), the SSE      *)
(* handlers that call it (internal/handlers/sse.go) and the shutdown of    *)
(* cmd/gateway/main.go.                                                    *)
(*                                                                         *)
(* Goroutines: one handler per connection, one bridge per bus              *)
(* subscription, main.  Hub.mu is held across the calls into the bus and   *)
(* into the store, each of which has a lock of its own: every method of    *)
(* the hub is therefore several actions, between which bridges, the bus    *)
(* and handlers that do not need Hub.mu go on.                             *)
(***************************************************************************)
EXTENDS Naturals, Sequences, FiniteSets

CONSTANTS Post,         \* post IDs; the bus channel "post:<id>" is one to one
          Conn,         \* browser connections
          Sub,          \* Go channels made by bus.Subscribe, and their bridges
          SubBuffer, LocalBuffer,
          MaxMsg,       \* how many messages are published
          Main, None

ASSUME FeedHubAssumption ==
    /\ SubBuffer \in Nat \ {0} /\ LocalBuffer \in Nat \ {0}
    /\ MaxMsg \in Nat
    /\ Main \notin Conn /\ None \notin Conn /\ Main # None
    /\ None \notin Sub /\ None \notin Post
    /\ IsFiniteSet(Conn)

VARIABLES
    busSubs, busChan, busLog, busRd, busLast, busOffering, busClosed,
    storeSubs, local, localLog, localRd,
    \* Hub
    mu,         \* holder of Hub.mu: a connection's handler, Main or None
    entry,      \* post -> the bus subscription of its postEntry, or None
    refs,       \* post -> postEntry.refs
    \* bridges, by bus subscription
    bridge,     \* "none", "select", "holding" or "done"
    hand,       \* the message a bridge holds, 0 if none
    serves,     \* the post it publishes to, or None
    cancelled,  \* bridges whose context is cancelled
    \* SSE handlers
    pc,         \* "idle", "acquiring", "registering", "streaming",
                \* "releasing", "unregistered" or "done"
    viewing,    \* connection -> post of its request, or None
    gone,       \* connections whose browser is gone
    main        \* "serving", "shutdown", "hubclose", "closing", "busclose"
                \* or "exited"

Bus == INSTANCE PubSub WITH
    Channel <- Post, Msg <- 1..MaxMsg, subs <- busSubs, chan <- busChan,
    log <- busLog, rd <- busRd, last <- busLast, offering <- busOffering,
    closed <- busClosed

Store == INSTANCE SubscriptionStore WITH
    subs <- storeSubs, chan <- local, log <- localLog, rd <- localRd

busVars == <<busSubs, busChan, busLog, busRd, busLast, busOffering, busClosed>>
storeVars == <<storeSubs, local, localLog, localRd>>
hubVars == <<mu, entry, refs>>
bridgeVars == <<bridge, hand, serves, cancelled>>
connVars == <<pc, viewing, gone>>
vars == <<busVars, storeVars, hubVars, bridgeVars, connVars, main>>

\* The process exists; no goroutine outlives it.
Running == main # "exited"

Init ==
    /\ Bus!Init /\ Store!Init
    /\ mu = None
    /\ entry = [p \in Post |-> None]
    /\ refs = [p \in Post |-> 0]
    /\ bridge = [s \in Sub |-> "none"]
    /\ hand = [s \in Sub |-> 0]
    /\ serves = [s \in Sub |-> None]
    /\ cancelled = {}
    /\ pc = [c \in Conn |-> "idle"]
    /\ viewing = [c \in Conn |-> None]
    /\ gone = {}
    /\ main = "serving"

-----------------------------------------------------------------------------
(* Wrong variants of the operations below, against which the properties    *)
(* are tested.                                                             *)

\* Acquire looks the entry up before it takes mu, so that two first viewers
\* of a post both subscribe.
AcquireFirst_Unchecked(c, s) ==
    LET p == viewing[c] IN
    /\ Running
    /\ pc[c] = "acquiring" /\ mu = None
    /\ Bus!Subscribe(p, s)
    /\ mu' = c
    /\ entry' = [entry EXCEPT ![p] = s]
    /\ bridge' = [bridge EXCEPT ![s] = "select"]
    /\ serves' = [serves EXCEPT ![s] = p]
    /\ pc' = [pc EXCEPT ![c] = "registering"]
    /\ UNCHANGED <<storeVars, refs, hand, cancelled, viewing, gone, main>>

\* A failing handler has registered already and returns without Release.
SeeGone_NoRelease(c) ==
    /\ Running
    /\ pc[c] = "streaming"
    /\ c \in gone
    /\ pc' = [pc EXCEPT ![c] = "done"]
    /\ UNCHANGED <<busVars, storeVars, hubVars, bridgeVars, viewing, gone, main>>

\* Release leaves refs alone while other viewers remain.
ReleaseKeep_NoDecrement(c) ==
    /\ Running
    /\ pc[c] = "unregistered"
    /\ entry[viewing[c]] = None \/ refs[viewing[c]] > 1
    /\ mu' = None
    /\ pc' = [pc EXCEPT ![c] = "done"]
    /\ UNCHANGED <<busVars, storeVars, entry, refs, bridgeVars, viewing, gone, main>>

\* Release forgets to unlock on the path where other viewers remain.
ReleaseKeep_Locked(c) ==
    LET p == viewing[c] IN
    /\ Running
    /\ pc[c] = "unregistered"
    /\ entry[p] = None \/ refs[p] > 1
    /\ refs' = IF entry[p] = None THEN refs ELSE [refs EXCEPT ![p] = @ - 1]
    /\ pc' = [pc EXCEPT ![c] = "done"]
    /\ UNCHANGED <<busVars, storeVars, mu, entry, bridgeVars, viewing, gone, main>>

\* The bridge watches neither its context nor the close of its channel.
BridgeStop_Never(s) == FALSE /\ UNCHANGED vars

\* The bridge runs under the context of a request instead of a detached one.
BridgeStop_RequestContext(s) ==
    /\ Running
    /\ bridge[s] = "select"
    /\ \/ s \in cancelled
       \/ \E c \in gone : viewing[c] = serves[s]
       \/ busChan[s] = "closed" /\ busRd[s] = Len(busLog[s])
    /\ bridge' = [bridge EXCEPT ![s] = "done"]
    /\ UNCHANGED <<busVars, storeVars, hubVars, hand, serves, cancelled, connVars, main>>

-----------------------------------------------------------------------------
(* SubscribePost up to Acquire                                             *)

\* A request passes the checks of the handler; the server accepts no new
\* connection once Shutdown was called.
Request(c, p) ==
    /\ main = "serving"
    /\ pc[c] = "idle"
    /\ pc' = [pc EXCEPT ![c] = "acquiring"]
    /\ viewing' = [viewing EXCEPT ![c] = p]
    /\ UNCHANGED <<busVars, storeVars, hubVars, bridgeVars, gone, main>>

\* No claims, no post ID or a wrong Accept header.
Reject(c) ==
    /\ main = "serving"
    /\ pc[c] = "idle"
    /\ pc' = [pc EXCEPT ![c] = "done"]
    /\ UNCHANGED <<busVars, storeVars, hubVars, bridgeVars, viewing, gone, main>>

-----------------------------------------------------------------------------
(* Hub.Acquire                                                             *)

\* The post has no entry: subscribe on the bus, start a bridge.
AcquireFirst(c, s) ==
    LET p == viewing[c] IN
    /\ Running
    /\ pc[c] = "acquiring" /\ mu = None
    /\ entry[p] = None
    /\ Bus!Subscribe(p, s)
    /\ mu' = c
    /\ entry' = [entry EXCEPT ![p] = s]
    /\ bridge' = [bridge EXCEPT ![s] = "select"]
    /\ serves' = [serves EXCEPT ![s] = p]
    /\ pc' = [pc EXCEPT ![c] = "registering"]
    /\ UNCHANGED <<storeVars, refs, hand, cancelled, viewing, gone, main>>

AcquireNext(c) ==
    /\ Running
    /\ pc[c] = "acquiring" /\ mu = None
    /\ entry[viewing[c]] # None
    /\ mu' = c
    /\ pc' = [pc EXCEPT ![c] = "registering"]
    /\ UNCHANGED <<busVars, storeVars, entry, refs, bridgeVars, viewing, gone, main>>

\* bus.Subscribe fails (Redis unreachable, bus closed): the handler answers 500
\* and has nothing to release.
AcquireFail(c) ==
    /\ Running
    /\ pc[c] = "acquiring" /\ mu = None
    /\ entry[viewing[c]] = None
    /\ pc' = [pc EXCEPT ![c] = "done"]
    /\ UNCHANGED <<busVars, storeVars, hubVars, bridgeVars, viewing, gone, main>>

AcquireRegister(c) ==
    LET p == viewing[c] IN
    /\ Running
    /\ pc[c] = "registering"
    /\ refs' = [refs EXCEPT ![p] = @ + 1]
    /\ Store!Subscribe(p, c)
    /\ mu' = None
    /\ pc' = [pc EXCEPT ![c] = "streaming"]
    /\ UNCHANGED <<busVars, entry, bridgeVars, viewing, gone, main>>

-----------------------------------------------------------------------------
(* The loop of SubscribePost                                               *)

\* An event is received and written; writing to a browser that is gone may
\* fail, which ends the loop.
Deliver(c) ==
    /\ Running
    /\ pc[c] = "streaming"
    /\ Store!Receive(c)
    /\ \/ UNCHANGED pc
       \/ c \in gone /\ pc' = [pc EXCEPT ![c] = "releasing"]
    /\ UNCHANGED <<busVars, hubVars, bridgeVars, viewing, gone, main>>

\* The request context is done, or the keepalive cannot be written.
SeeGone(c) ==
    /\ Running
    /\ pc[c] = "streaming"
    /\ c \in gone
    /\ pc' = [pc EXCEPT ![c] = "releasing"]
    /\ UNCHANGED <<busVars, storeVars, hubVars, bridgeVars, viewing, gone, main>>

\* The local channel is closed and drained.
SeeClosed(c) ==
    /\ Running
    /\ pc[c] = "streaming"
    /\ local[c] = "closed" /\ localRd[c] = Len(localLog[c])
    /\ pc' = [pc EXCEPT ![c] = "releasing"]
    /\ UNCHANGED <<busVars, storeVars, hubVars, bridgeVars, viewing, gone, main>>

-----------------------------------------------------------------------------
(* Hub.Release                                                             *)

ReleaseUnregister(c) ==
    /\ Running
    /\ pc[c] = "releasing" /\ mu = None
    /\ mu' = c
    /\ Store!Unsubscribe(viewing[c], c)
    /\ pc' = [pc EXCEPT ![c] = "unregistered"]
    /\ UNCHANGED <<busVars, entry, refs, bridgeVars, viewing, gone, main>>

\* No entry (the hub was closed), or other viewers remain.
ReleaseKeep(c) ==
    LET p == viewing[c] IN
    /\ Running
    /\ pc[c] = "unregistered"
    /\ entry[p] = None \/ refs[p] > 1
    /\ refs' = IF entry[p] = None THEN refs ELSE [refs EXCEPT ![p] = @ - 1]
    /\ mu' = None
    /\ pc' = [pc EXCEPT ![c] = "done"]
    /\ UNCHANGED <<busVars, storeVars, entry, bridgeVars, viewing, gone, main>>

\* bus.Unsubscribe, whose error is ignored: a closed bus returns one, a bus that
\* does not know the subscription does nothing.
BusUnsubscribe(p) ==
    \/ Bus!Unsubscribe(p, entry[p])
    \/ (busClosed \/ entry[p] \notin busSubs[p]) /\ UNCHANGED busVars

\* The last viewer leaves: cancel the bridge, unsubscribe, delete the entry.
ReleaseLast(c) ==
    LET p == viewing[c] IN
    /\ Running
    /\ pc[c] = "unregistered"
    /\ entry[p] # None /\ refs[p] <= 1
    /\ cancelled' = cancelled \cup {entry[p]}
    /\ BusUnsubscribe(p)
    /\ entry' = [entry EXCEPT ![p] = None]
    /\ refs' = [refs EXCEPT ![p] = 0]
    /\ mu' = None
    /\ pc' = [pc EXCEPT ![c] = "done"]
    /\ UNCHANGED <<storeVars, bridge, hand, serves, viewing, gone, main>>

-----------------------------------------------------------------------------
(* Hub.bridge                                                              *)

\* select takes a ready case at random: a message may be received although the
\* context is cancelled, and a closed channel yields what it had buffered.
BridgeReceive(s) ==
    /\ Running
    /\ bridge[s] = "select"
    /\ Bus!Receive(s)
    /\ hand' = [hand EXCEPT ![s] = busLog[s][busRd[s] + 1]]
    /\ bridge' = [bridge EXCEPT ![s] = "holding"]
    /\ UNCHANGED <<storeVars, hubVars, serves, cancelled, connVars, main>>

BridgePublish(s) ==
    /\ Running
    /\ bridge[s] = "holding"
    /\ Store!Publish(serves[s], hand[s])
    /\ hand' = [hand EXCEPT ![s] = 0]
    /\ bridge' = [bridge EXCEPT ![s] = "select"]
    /\ UNCHANGED <<busVars, hubVars, serves, cancelled, connVars, main>>

BridgeStop(s) ==
    /\ Running
    /\ bridge[s] = "select"
    /\ \/ s \in cancelled
       \/ busChan[s] = "closed" /\ busRd[s] = Len(busLog[s])
    /\ bridge' = [bridge EXCEPT ![s] = "done"]
    /\ UNCHANGED <<busVars, storeVars, hubVars, hand, serves, cancelled, connVars, main>>

-----------------------------------------------------------------------------
(* Shutdown of the gateway                                                 *)

\* SIGINT or SIGTERM, or the server failed.
Signal ==
    /\ main = "serving"
    /\ main' = "shutdown"
    /\ UNCHANGED <<busVars, storeVars, hubVars, bridgeVars, connVars>>

Drained == \A c \in Conn : pc[c] \in {"idle", "done"}

\* srv.Shutdown returns when every handler has returned ...
ShutdownDrained ==
    /\ main = "shutdown" /\ Drained
    /\ main' = "hubclose"
    /\ UNCHANGED <<busVars, storeVars, hubVars, bridgeVars, connVars>>

\* ... or after ten seconds.  It does not cancel the contexts of open streams.
ShutdownTimeout ==
    /\ main = "shutdown" /\ ~Drained
    /\ main' = "hubclose"
    /\ UNCHANGED <<busVars, storeVars, hubVars, bridgeVars, connVars>>

HubCloseLock ==
    /\ main = "hubclose" /\ mu = None
    /\ mu' = Main
    /\ main' = "closing"
    /\ UNCHANGED <<busVars, storeVars, entry, refs, bridgeVars, connVars>>

HubCloseEntry(p) ==
    /\ main = "closing"
    /\ entry[p] # None /\ entry[p] \notin cancelled
    /\ cancelled' = cancelled \cup {entry[p]}
    /\ BusUnsubscribe(p)
    /\ UNCHANGED <<storeVars, hubVars, bridge, hand, serves, connVars, main>>

HubCloseStore ==
    /\ main = "closing"
    /\ \A p \in Post : entry[p] # None => entry[p] \in cancelled
    /\ entry' = [p \in Post |-> None]
    /\ refs' = [p \in Post |-> 0]
    /\ Store!Close
    /\ mu' = None
    /\ main' = "busclose"
    /\ UNCHANGED <<busVars, bridgeVars, connVars>>

\* The deferred bus.Close; then main returns and the process ends.
BusClose ==
    /\ main = "busclose"
    /\ Bus!Close
    /\ UNCHANGED <<storeVars, hubVars, bridgeVars, connVars, main>>

Exit ==
    /\ main = "busclose" /\ busClosed
    /\ main' = "exited"
    /\ UNCHANGED <<busVars, storeVars, hubVars, bridgeVars, connVars>>

-----------------------------------------------------------------------------
(* The outside: browsers and the messages of the dispatcher                *)

Disconnect(c) ==
    /\ Running
    /\ pc[c] \notin {"idle", "done"} /\ c \notin gone
    /\ gone' = gone \cup {c}
    /\ UNCHANGED <<busVars, storeVars, hubVars, bridgeVars, pc, viewing, main>>

Arrive(p) ==
    /\ Running
    /\ busLast < MaxMsg
    /\ Bus!Arrive(p, busLast + 1)
    /\ UNCHANGED <<storeVars, hubVars, bridgeVars, connVars, main>>

Offer(s) ==
    /\ Running
    /\ Bus!Offer(s)
    /\ UNCHANGED <<storeVars, hubVars, bridgeVars, connVars, main>>

-----------------------------------------------------------------------------
(* The steps that wait for Hub.mu, and the others, of each goroutine.      *)

HandlerLock(c) == (\E s \in Sub : AcquireFirst(c, s)) \/ AcquireNext(c)
                    \/ AcquireFail(c) \/ ReleaseUnregister(c)

HandlerStep(c) == AcquireRegister(c) \/ Deliver(c) \/ SeeGone(c) \/ SeeClosed(c)
                    \/ ReleaseKeep(c) \/ ReleaseLast(c)

Bridge(s) == BridgeReceive(s) \/ BridgePublish(s) \/ BridgeStop(s)

MainStep == ShutdownDrained \/ ShutdownTimeout
              \/ (\E p \in Post : HubCloseEntry(p)) \/ HubCloseStore
              \/ BusClose \/ Exit

Next ==
    \/ \E c \in Conn : \/ \E p \in Post : Request(c, p)
                       \/ Reject(c) \/ Disconnect(c)
                       \/ HandlerLock(c) \/ HandlerStep(c)
    \/ \E s \in Sub : Bridge(s) \/ Offer(s)
    \/ \E p \in Post : Arrive(p)
    \/ Signal \/ HubCloseLock \/ MainStep

Spec == Init /\ [][Next]_vars

\* Goroutines run on, a goroutine queued for Hub.mu gets it, the bus finishes a
\* fan-out it began, the ten seconds of Shutdown pass.  A select that could take
\* several cases need only take one of them: that is less than what Go's random
\* choice gives.  Nothing obliges browsers, publishers or operators to act.
Fairness ==
    /\ \A c \in Conn : /\ SF_vars(HandlerLock(c))
                       /\ WF_vars(HandlerStep(c))
    /\ \A s \in Sub : WF_vars(Bridge(s)) /\ WF_vars(Offer(s))
    /\ SF_vars(HubCloseLock) /\ WF_vars(MainStep)

FairSpec == Spec /\ Fairness

-----------------------------------------------------------------------------
(* Properties                                                              *)

TypeOK ==
    /\ busSubs \in [Post -> SUBSET Sub]
    /\ busChan \in [Sub -> {"free", "open", "closed"}]
    /\ busLog \in [Sub -> Seq(1..MaxMsg)]
    /\ busRd \in [Sub -> Nat]
    /\ busLast \in 0..MaxMsg
    /\ busOffering \in SUBSET Sub
    /\ busClosed \in BOOLEAN
    /\ storeSubs \in [Post -> SUBSET Conn]
    /\ local \in [Conn -> {"free", "open", "closed"}]
    /\ localLog \in [Conn -> Seq(1..MaxMsg)]
    /\ localRd \in [Conn -> Nat]
    /\ mu \in Conn \cup {Main, None}
    /\ entry \in [Post -> Sub \cup {None}]
    /\ refs \in [Post -> Nat]
    /\ bridge \in [Sub -> {"none", "select", "holding", "done"}]
    /\ hand \in [Sub -> 0..MaxMsg]
    /\ serves \in [Sub -> Post \cup {None}]
    /\ cancelled \in SUBSET Sub
    /\ pc \in [Conn -> {"idle", "acquiring", "registering", "streaming",
                        "releasing", "unregistered", "done"}]
    /\ viewing \in [Conn -> Post \cup {None}]
    /\ gone \in SUBSET Conn
    /\ main \in {"serving", "shutdown", "hubclose", "closing", "busclose", "exited"}

\* Hub.Close has not begun.
HubOpen == main \in {"serving", "shutdown", "hubclose"}

\* As long as the hub is open and nobody is inside it, the refcount is the
\* number of connections the store has for the post; the post has an entry iff
\* it has viewers; an entry's bus subscription is the only one of the post and
\* its bridge is running, so that viewers are served and no Redis subscription
\* outlives them (hub.go:7-9).
ViewersServed ==
    HubOpen /\ mu = None =>
        \A p \in Post :
            /\ refs[p] = Cardinality(storeSubs[p])
            /\ entry[p] = None <=> storeSubs[p] = {}
            /\ busSubs[p] = IF entry[p] = None THEN {} ELSE {entry[p]}
            /\ entry[p] # None => /\ entry[p] \notin cancelled
                                  /\ serves[entry[p]] = p
                                  /\ bridge[entry[p]] \in {"select", "holding"}

\* No bridge sends on a closed connection channel and Close closes none twice:
\* whatever the store refers to is open and registered under one post.
NoPanic ==
    /\ \A p \in Post : \A c \in storeSubs[p] : local[c] = "open"
    /\ \A p, q \in Post : p # q => storeSubs[p] \cap storeSubs[q] = {}

\* Ran(log) is the set of messages in a log.
Ran(q) == {q[i] : i \in 1..Len(q)}

\* A handler whose browser has gone returns, having released its subscription.
GoneReleased ==
    \A c \in Conn : c \in gone ~>
        \/ pc[c] = "done" /\ \A p \in Post : c \notin storeSubs[p]
        \/ main = "exited"

\* A cancelled bridge ends: no goroutine is leaked per post that was viewed.
CancelledBridgeStops ==
    \A s \in Sub : s \in cancelled ~> bridge[s] = "done" \/ main = "exited"

\* While the gateway serves, what waits in the subscription of a post reaches
\* each connection that views it, or the connection leaves.  (Checked with
\* channels large enough for all messages, so that none is dropped.)
EventuallyForwarded ==
    \A p \in Post, c \in Conn, n \in 1..MaxMsg :
        (/\ c \in storeSubs[p] /\ entry[p] # None
         /\ \E i \in busRd[entry[p]] + 1 .. Len(busLog[entry[p]]) :
               busLog[entry[p]][i] = n)
        ~> (n \in Ran(localLog[c]) \/ c \notin storeSubs[p] \/ main # "serving")

\* The gateway exits after a signal, with streams open or not.
ShutdownTerminates == main = "shutdown" ~> main = "exited"

-----------------------------------------------------------------------------
(* The inductive invariant behind ViewersServed and NoPanic                *)

\* Hub.mu is held by the one handler, or by main, that is inside a method.
LockConsistent ==
    /\ \A c \in Conn : mu = c <=> pc[c] \in {"registering", "unregistered"}
    /\ mu = Main <=> main = "closing"
    /\ \A c \in Conn : pc[c] \notin {"idle", "done"} => viewing[c] # None

\* A registered connection has a running handler and an open channel; while the
\* hub is open, a handler that streams is registered.
StoreConsistent ==
    /\ \A p \in Post : \A c \in storeSubs[p] :
          viewing[c] = p /\ pc[c] \in {"streaming", "releasing"} /\ local[c] = "open"
    /\ HubOpen => \A c \in Conn : pc[c] \in {"streaming", "releasing"} =>
                                   c \in storeSubs[viewing[c]]

\* A Go channel that was not made has no bridge; a subscribed one is open, and
\* subscribed for the post its bridge serves; what is passed on is a message.
BusConsistent ==
    /\ \A s \in Sub : busChan[s] = "free" =>
          bridge[s] = "none" /\ s \notin cancelled /\ \A p \in Post : entry[p] # s
    /\ \A p \in Post : \A s \in busSubs[p] : busChan[s] = "open" /\ serves[s] = p
    /\ HubOpen => ~busClosed
    /\ \A s \in Sub : bridge[s] = "holding" => hand[s] # 0
    /\ busOffering # {} => busLast # 0

\* An entry goes with its bus subscription and its running bridge.
EntryConsistent ==
    HubOpen => \A p \in Post :
        /\ busSubs[p] = IF entry[p] = None THEN {} ELSE {entry[p]}
        /\ entry[p] # None => /\ entry[p] \notin cancelled
                              /\ serves[entry[p]] = p
                              /\ bridge[entry[p]] \in {"select", "holding"}

\* The handler inside Release has left the store and still counts in refs; the
\* handler inside Acquire has an entry and does not count yet.
Leaving(p) == {c \in Conn : pc[c] = "unregistered" /\ viewing[c] = p}
Joining(p) == {c \in Conn : pc[c] = "registering" /\ viewing[c] = p}

RefsConsistent ==
    HubOpen => \A p \in Post :
        /\ refs[p] = Cardinality(storeSubs[p]) + (IF Leaving(p) = {} THEN 0 ELSE 1)
        /\ entry[p] = None => refs[p] = 0 /\ Joining(p) = {}
        /\ entry[p] # None => refs[p] > 0 \/ Joining(p) # {}

Inv == /\ TypeOK /\ LockConsistent /\ StoreConsistent /\ BusConsistent
       /\ EntryConsistent /\ RefsConsistent
=============================================================================

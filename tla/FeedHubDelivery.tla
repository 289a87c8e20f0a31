--------------------------- MODULE FeedHubDelivery ---------------------------
(***************************************************************************)
(* FeedHub implements Feed.  The promise speaks of what the hub does not   *)
(* remember, so two history variables are added to FeedHub: the post each  *)
(* message arrived for, and where the message numbers stood when a         *)
(* connection began to watch.  They are written and never read.            *)
(***************************************************************************)
EXTENDS FeedHub, TLC

VARIABLES arrived,  \* post -> the messages that arrived for it
          since     \* connection -> busLast at its AcquireRegister, or None

varsH == <<vars, arrived, since>>

InitH ==
    /\ Init
    /\ arrived = [p \in Post |-> {}]
    /\ since = [c \in Conn |-> None]

ArriveH(p) ==
    /\ Arrive(p)
    /\ arrived' = [arrived EXCEPT ![p] = @ \cup {busLast'}]
    /\ UNCHANGED since

OtherH ==
    /\ Next /\ busLast' = busLast
    /\ since' = [c \in Conn |-> IF pc[c] = "registering" /\ pc'[c] = "streaming"
                                THEN busLast ELSE since[c]]
    /\ UNCHANGED arrived

NextH == (\E p \in Post : ArriveH(p)) \/ OtherH

SpecH == InitH /\ [][NextH]_varsH

Watching(c) == IF \E p \in Post : c \in storeSubs[p] THEN viewing[c] ELSE None

Gateway == INSTANCE Feed WITH
    Msg <- 1..MaxMsg, last <- busLast, watching <- [c \in Conn |-> Watching(c)],
    received <- localLog, closing <- ~HubOpen

\* However viewers come, go and overlap, and also while the hub is closed under
\* its handlers, a browser is sent what arrived for the post it asked for, no
\* event twice, and reordered only by a bridge that its first viewers left
\* behind (hub.go:1-9, 144-157).
ImplementsFeed == Gateway!Spec

-----------------------------------------------------------------------------
(* The inductive invariant behind it                                       *)

\* On the bus a post has no subscription but that of its entry, also while the
\* hub is closed under its handlers.
SubsOwned ==
    \A p \in Post : /\ busSubs[p] \subseteq {entry[p]} \ cancelled
                    /\ entry[p] # None => serves[entry[p]] = p
ClosedEmpty == busClosed => \A p \in Post : busSubs[p] = {}

\* A fan-out goes on to the one subscription of a post, which has not got the
\* message yet.
OfferedOnce ==
    \A s \in busOffering :
        /\ serves[s] \in Post /\ s \in busSubs[serves[s]]
        /\ busLast \in arrived[serves[s]]
        /\ \A t \in Sub : busLast \notin Ran(busLog[t])
        /\ busOffering = {s}

\* A bus subscription is sent messages of its post, in the order of their
\* arrival, and no other is sent one of them.
LogsOrdered ==
    \A s \in Sub :
        /\ busChan[s] = "free" => busLog[s] = << >>
        /\ \A m \in Ran(busLog[s]) :
              /\ serves[s] \in Post /\ m \in arrived[serves[s]] /\ m <= busLast
              /\ \A t \in Sub \ {s} : m \notin Ran(busLog[t])
        /\ \A i, j \in 1..Len(busLog[s]) : i < j => busLog[s][i] < busLog[s][j]

\* A bridge holds the last message that it received.
HandsCurrent ==
    \A s \in Sub : /\ busRd[s] <= Len(busLog[s])
                   /\ bridge[s] = "holding" => busRd[s] > 0 /\ hand[s] = busLog[s][busRd[s]]

\* How many messages a bridge has published.
Published(s) == IF bridge[s] = "holding" THEN busRd[s] - 1 ELSE busRd[s]

\* What a connection was sent was published by a bridge of its post.
SentOnward ==
    \A c \in Conn : \A m \in Ran(localLog[c]) : \E s \in Sub :
        serves[s] = viewing[c] /\ \E i \in 1..Published(s) : busLog[s][i] = m

\* A connection begins to watch once, when it is registered.
SinceKnown ==
    /\ \A c \in Conn : pc[c] \in {"idle", "acquiring", "registering"} =>
          since[c] = None /\ localLog[c] = << >>
    /\ \A p \in Post : \A c \in storeSubs[p] : since[c] \in 0..busLast

\* What a bridge without an entry still has came before the viewers of today.
OldLogsSeen ==
    HubOpen => \A p \in Post, s \in Sub : serves[s] = p /\ entry[p] # s =>
        \A c \in storeSubs[p] : \A m \in Ran(busLog[s]) : m <= since[c]

HistoryTypeOK ==
    /\ arrived \in [Post -> SUBSET (1..MaxMsg)]
    /\ since \in [Conn -> 0..MaxMsg \cup {None}]

InvH == /\ Inv /\ HistoryTypeOK /\ SubsOwned /\ ClosedEmpty /\ OfferedOnce
        /\ LogsOrdered /\ HandsCurrent /\ SentOnward /\ SinceKnown /\ OldLogsSeen

Symmetry == Permutations(Post) \cup Permutations(Conn) \cup Permutations(Sub)
=============================================================================

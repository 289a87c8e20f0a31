-------------------------------- MODULE Watch --------------------------------
(***************************************************************************)
(* The whole path of an event: the dispatcher (FeedService) stores and     *)
(* publishes, Redis hands what it accepted to a gateway, and the gateway   *)
(* serves its browsers as Feed promises.                                   *)
(***************************************************************************)
EXTENDS FeedService

CONSTANTS Conn, MaxEvents

ASSUME WatchAssumption == MaxEvents \in Nat /\ None \notin 0..MaxEvents

VARIABLES arrived, last, watching, since, received, closing

gatewayVars == <<arrived, last, watching, since, received, closing>>
varsW == <<vars, gatewayVars>>

Gateway == INSTANCE Feed WITH Msg <- 1..MaxEvents

\* The dispatcher serves already; its start is FeedService's subject.
InitW == InitData /\ main = "serving" /\ stopping = FALSE /\ Gateway!Init

\* Redis numbers what it accepts and passes on some of it to each gateway, on
\* the channel of its post (feed.go:117, channels.go:25-27).
Arrive(p, n) ==
    /\ n <= Len(events) /\ req[events[n]].post = p
    /\ Gateway!Arrive(p, n)

GatewayNext ==
    \/ \E p \in Post, n \in 1..MaxEvents : Arrive(p, n)
    \/ \E c \in Conn, p \in Post : Gateway!Watch(c, p)
    \/ \E c \in Conn : watching[c] # None /\ Gateway!Leave(c)
    \/ \E n \in 1..MaxEvents, C \in SUBSET Conn \ {{}} : Gateway!Deliver(n, C)
    \/ ~closing /\ Gateway!Close
    \/ Gateway!Drop

NextW ==
    \/ Next /\ UNCHANGED gatewayVars
    \/ GatewayNext /\ UNCHANGED vars

SpecW == InitW /\ [][NextW]_varsW

-----------------------------------------------------------------------------
(* Properties                                                              *)

\* What reaches a browser is a row of Postgres, on the post that it watches,
\* whatever fails between the two.
SentRows ==
    \A c \in Conn : watching[c] # None => \A n \in Ran(received[c]) :
        events[n] \in rows /\ req[events[n]].post = watching[c]

\* A write whose answer a client had before it sent another is not shown after
\* it, but for events from before the browser began to watch and for a gateway
\* that closes: service, bus, hub and store keep the order together.
CausalOrder ==
    \A c \in Conn : \A i, j \in DOMAIN received[c] :
        i < j /\ events[received[c][j]] \in after[events[received[c][i]]] =>
            received[c][j] <= since[c] \/ closing

\* The reactions of u on p were written one after the other: none is under way
\* and any two were ordered by an answer.
Reactions(p, u) ==
    {r \in Request : /\ pc[r] # "idle" /\ answer[r] # "invalid"
                     /\ req[r] = [kind |-> "reaction", post |-> p, user |-> u]}
Sequential(p, u) ==
    \A r, q \in Reactions(p, u) :
        pc[r] = "answered" /\ (r = q \/ r \in after[q] \/ q \in after[r])

\* The events on p that were published since c began to watch.
NewsFor(c, p) == {n \in 1..Len(events) : n > since[c] /\ req[events[n]].post = p}

\* A browser that missed nothing ends with the reaction that is stored, when the
\* user reacts once at a time and neither query nor publish reported an error:
\* the last of the user's reactions that it was shown, whatever came after it.
WatcherAgrees ==
    \A c \in Conn, p \in Post, u \in User :
        LET mine == {i \in DOMAIN received[c] : /\ received[c][i] > since[c]
                                              /\ events[received[c][i]] \in Reactions(p, u)}
        IN  /\ ~closing /\ watching[c] = p /\ NewsFor(c, p) \subseteq Ran(received[c])
            /\ Sequential(p, u)
            => \A i \in mine : (\A j \in mine : j <= i) =>
                  \/ events[received[c][i]] = current[p][u]
                  \/ current[p][u] \in missed
                  \/ answer[current[p][u]] = "error"

-----------------------------------------------------------------------------
(* The invariant behind them                                               *)

GatewayTypeOK ==
    /\ arrived \in [Post -> SUBSET (1..MaxEvents)]
    /\ last \in 0..MaxEvents
    /\ watching \in [Conn -> Post \cup {None}]
    /\ since \in [Conn -> 0..MaxEvents \cup {None}]
    /\ received \in [Conn -> Seq(1..MaxEvents)]
    /\ closing \in BOOLEAN

\* Messages are what was published, on the channels of their posts.
ArrivedPublished ==
    \A p \in Post : \A n \in arrived[p] : n <= Len(events) /\ req[events[n]].post = p

\* A connection that was sent something began to watch; what it was sent was
\* published, and on its post.
ReceivedPublished ==
    \A c \in Conn :
        /\ watching[c] # None \/ received[c] # << >> => since[c] # None
        /\ \A n \in Ran(received[c]) :
              /\ n <= Len(events)
              /\ watching[c] # None => req[events[n]].post = watching[c]

\* Only what is older than the connection is out of order.
ReceivedOrder ==
    \A c \in Conn : \A i, j \in DOMAIN received[c] :
        i < j => \/ received[c][i] < received[c][j]
                 \/ received[c][j] <= since[c] \/ closing

InvW == Inv /\ GatewayTypeOK /\ ArrivedPublished /\ ReceivedPublished /\ ReceivedOrder

Symmetry == Permutations(Request)
=============================================================================

-------------------------------- MODULE Feed --------------------------------
(***************************************************************************)
(* What a gateway promises to the browsers that watch posts, whatever      *)
(* feed.Hub, the bus and the subscription store do to keep it              *)
(* (hub.go:1-9).  A browser is sent the events of its post, none twice,    *)
(* and those that reach the gateway after it began to watch in the order   *)
(* in which they do.  It may miss some, since buffers are bounded; older   *)
(* ones may slip in, while a bridge of earlier viewers still runs; and     *)
(* once the gateway closes the order is no longer promised.                *)
(*                                                                         *)
(* FeedHub is shown to implement this module (FeedHubDelivery), and the    *)
(* whole path of an event (Watch) is built on it.                          *)
(***************************************************************************)
EXTENDS Naturals, Sequences, SequencesExt

CONSTANTS Post, Conn,
          Msg,          \* numbers of messages, in the order of the Redis server
          None

VARIABLES arrived,      \* post -> messages for it that reached the gateway
          last,         \* the latest of them, 0 before the first
          watching,     \* connection -> the post it watches, or None
          since,        \* connection -> last when it began to watch, or None
          received,     \* connection -> the messages it was sent
          closing       \* the gateway is closing its hub

vars == <<arrived, last, watching, since, received, closing>>

Init ==
    /\ arrived = [p \in Post |-> {}]
    /\ last = 0
    /\ watching = [c \in Conn |-> None]
    /\ since = [c \in Conn |-> None]
    /\ received = [c \in Conn |-> << >>]
    /\ closing = FALSE

Arrive(p, n) ==
    /\ n > last
    /\ last' = n
    /\ arrived' = [arrived EXCEPT ![p] = @ \cup {n}]
    /\ UNCHANGED <<watching, since, received, closing>>

\* A connection watches one post, once.
Watch(c, p) ==
    /\ since[c] = None
    /\ watching' = [watching EXCEPT ![c] = p]
    /\ since' = [since EXCEPT ![c] = last]
    /\ UNCHANGED <<arrived, last, received, closing>>

Leave(c) ==
    /\ watching' = [watching EXCEPT ![c] = None]
    /\ UNCHANGED <<arrived, last, since, received, closing>>

\* Wrong: every message travels in a goroutine of its own.
InOrder_Any(c, n) == TRUE

\* What came while c watches is sent in order.
InOrder(c, n) ==
    n > since[c] => \A i \in DOMAIN received[c] : received[c][i] < n

\* The connections C are sent message n.
Deliver(n, C) ==
    /\ \A c \in C : /\ watching[c] # None /\ n \in arrived[watching[c]]
                    /\ n \notin Range(received[c])
                    /\ closing \/ InOrder(c, n)
    /\ received' = [c \in Conn |-> IF c \in C THEN Append(received[c], n)
                                   ELSE received[c]]
    /\ UNCHANGED <<arrived, last, watching, since, closing>>

Close ==
    /\ closing' = TRUE
    /\ UNCHANGED <<arrived, last, watching, since, received>>

\* All streams end.
Drop ==
    /\ closing
    /\ watching' = [c \in Conn |-> None]
    /\ UNCHANGED <<arrived, last, since, received, closing>>

Next ==
    \/ \E p \in Post, n \in Msg : Arrive(p, n)
    \/ \E c \in Conn : Leave(c) \/ \E p \in Post : Watch(c, p)
    \/ \E n \in Msg, C \in SUBSET Conn : Deliver(n, C)
    \/ Close \/ Drop

Spec == Init /\ [][Next]_vars
=============================================================================

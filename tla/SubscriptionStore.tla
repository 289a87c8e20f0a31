------------------------- MODULE SubscriptionStore -------------------------
(***************************************************************************)
(* subscription.Store (internal/subscription/inmemorystore.go): which      *)
(* browser connections watch which post on this gateway, and the bounded   *)
(* Go channel of each.  Every method runs under the store's own lock and   *)
(* is one action.  (Publish holds it shared and sends to one channel after *)
(* the other; a send depends on that channel alone, so that receives by    *)
(* the handlers in between can be moved before or after the whole.)        *)
(*                                                                         *)
(* A connection subscribes once, with a Go channel of its own, so the      *)
(* element of Conn stands for connectionID and for that channel.  As in    *)
(* PubSub a Go channel is a log with a read index.                         *)
(***************************************************************************)
EXTENDS Naturals, Sequences

CONSTANTS Post, Conn,
          LocalBuffer   \* capacity of a connection's channel (64 in Hub.Acquire)

VARIABLES subs,   \* post -> connections subscribed to it
          chan,   \* connection -> its Go channel: "free", "open" or "closed"
          log,    \* connection -> events ever sent to it
          rd      \* connection -> how many of them its handler received

Init ==
    /\ subs = [p \in Post |-> {}]
    /\ chan = [c \in Conn |-> "free"]
    /\ log = [c \in Conn |-> << >>]
    /\ rd = [c \in Conn |-> 0]

Subscribe(p, c) ==
    /\ chan' = [chan EXCEPT ![c] = "open"]
    /\ subs' = [subs EXCEPT ![p] = @ \cup {c}]
    /\ UNCHANGED <<log, rd>>

\* The Go channel stays open; an unknown connection changes nothing.
Unsubscribe(p, c) ==
    /\ subs' = [subs EXCEPT ![p] = @ \ {c}]
    /\ UNCHANGED <<chan, log, rd>>

\* A connection whose buffer is full misses the event; the others do not wait.
Publish(p, ev) ==
    /\ log' = [c \in Conn |-> IF c \in subs[p] /\ Len(log[c]) - rd[c] < LocalBuffer
                              THEN Append(log[c], ev) ELSE log[c]]
    /\ UNCHANGED <<subs, chan, rd>>

\* The handler receives, also what was buffered before a close.
Receive(c) ==
    /\ rd[c] < Len(log[c])
    /\ rd' = [rd EXCEPT ![c] = @ + 1]
    /\ UNCHANGED <<subs, chan, log>>

\* Wrong: the channels are closed and the map is kept.
Close_KeepsSubs ==
    /\ chan' = [c \in Conn |-> IF \E p \in Post : c \in subs[p]
                               THEN "closed" ELSE chan[c]]
    /\ UNCHANGED <<subs, log, rd>>

Close ==
    /\ chan' = [c \in Conn |-> IF \E p \in Post : c \in subs[p]
                               THEN "closed" ELSE chan[c]]
    /\ subs' = [p \in Post |-> {}]
    /\ UNCHANGED <<log, rd>>
=============================================================================

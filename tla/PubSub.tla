------------------------------- MODULE PubSub -------------------------------
(***************************************************************************)
(* The contract of the interface pubsub.PubSub (internal/pubsub/pubsub.go) *)
(* as a gateway sees it.  A call of Subscribe hands out a fresh Go channel *)
(* (an element of Sub); a message that reaches the gateway is offered to   *)
(* every channel subscribed under its name, one after the other and        *)
(* without waiting for a full one; Unsubscribe and Close close the         *)
(* channels they release, and never in the middle of a fan-out.            *)
(*                                                                         *)
(* RedisPubSub is shown to implement this module, FeedHub is built on it.  *)
(*                                                                         *)
(* A Go channel is an append-only log of the messages ever put into it     *)
(* with a read index, so its buffer is the unread part of the log.  A      *)
(* message is its number: messages are numbered in the order in which the  *)
(* Redis server accepted them.                                             *)
(***************************************************************************)
EXTENDS Naturals, Sequences

CONSTANTS Channel,    \* names of Redis channels
          Sub,        \* identities of the Go channels that Subscribe makes
          SubBuffer,  \* capacity of such a channel (defaultSubBuffer)
          Msg         \* numbers of messages

VARIABLES subs,      \* channel name -> Go channels subscribed under it
          chan,      \* Go channel -> "free" (not made yet), "open" or "closed"
          log,       \* Go channel -> messages ever sent on it
          rd,        \* Go channel -> how many of them have been received
          last,      \* number of the last message fanned out
          offering,  \* Go channels that message has still to be offered to
          closed     \* Close has been called

vars == <<subs, chan, log, rd, last, offering, closed>>

Unread(s) == Len(log[s]) - rd[s]

Init ==
    /\ subs = [ch \in Channel |-> {}]
    /\ chan = [s \in Sub |-> "free"]
    /\ log = [s \in Sub |-> << >>]
    /\ rd = [s \in Sub |-> 0]
    /\ last = 0
    /\ offering = {}
    /\ closed = FALSE

\* Each call returns a distinct Go channel, also for the same name.
Subscribe(ch, s) ==
    /\ ~closed /\ offering = {}
    /\ chan[s] = "free"
    /\ chan' = [chan EXCEPT ![s] = "open"]
    /\ subs' = [subs EXCEPT ![ch] = @ \cup {s}]
    /\ UNCHANGED <<log, rd, last, offering, closed>>

\* The pair (ch, s) names the subscription that is dropped.
Unsubscribe(ch, s) ==
    /\ ~closed /\ offering = {}
    /\ s \in subs[ch]
    /\ chan' = [chan EXCEPT ![s] = "closed"]
    /\ subs' = [subs EXCEPT ![ch] = @ \ {s}]
    /\ UNCHANGED <<log, rd, last, offering, closed>>

\* Message n arrives on ch: everyone subscribed now will be offered it.
Arrive(ch, n) ==
    /\ ~closed /\ offering = {}
    /\ n > last
    /\ last' = n
    /\ offering' = subs[ch]
    /\ UNCHANGED <<subs, chan, log, rd, closed>>

\* s takes the message, or misses it when its buffer is full.
Offer(s) ==
    /\ s \in offering
    /\ offering' = offering \ {s}
    /\ log' = IF Unread(s) < SubBuffer
              THEN [log EXCEPT ![s] = Append(@, last)] ELSE log
    /\ UNCHANGED <<subs, chan, rd, last, closed>>

\* A consumer receives; a closed channel still yields what it buffered.
Receive(s) ==
    /\ rd[s] < Len(log[s])
    /\ rd' = [rd EXCEPT ![s] = @ + 1]
    /\ UNCHANGED <<subs, chan, log, last, offering, closed>>

Close ==
    /\ ~closed /\ offering = {}
    /\ closed' = TRUE
    /\ chan' = [s \in Sub |-> IF \E ch \in Channel : s \in subs[ch]
                              THEN "closed" ELSE chan[s]]
    /\ subs' = [ch \in Channel |-> {}]
    /\ UNCHANGED <<log, rd, last, offering>>

Next ==
    \/ \E ch \in Channel, s \in Sub : Subscribe(ch, s) \/ Unsubscribe(ch, s)
    \/ \E ch \in Channel, n \in Msg : Arrive(ch, n)
    \/ \E s \in Sub : Offer(s) \/ Receive(s)
    \/ Close

Spec == Init /\ [][Next]_vars
=============================================================================

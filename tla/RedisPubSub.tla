---------------------------- MODULE RedisPubSub ----------------------------
(***************************************************************************)
(* RedisPubSub, the implementation of PubSub over one Redis subscriber     *)
(* connection (internal/pubsub/redis.go).                                  *)
(*                                                                         *)
(* Callers, Close and the reader goroutine interleave; what one of them    *)
(* does between two points where another can intervene is one action.      *)
(* mu is held across the Redis command of Subscribe and Unsubscribe and    *)
(* across the sends of fanOut, so those are several actions.               *)
(*                                                                         *)
(* The go-redis client and the Redis server are external: SUBSCRIBE takes  *)
(* effect at the server some time after the command was written, the       *)
(* connection may drop and be re-established, commands may fail, and the   *)
(* channel that ps.Channel() returns may end for good.                     *)
(***************************************************************************)
EXTENDS Naturals, Sequences, FiniteSets

CONSTANTS Channel,    \* names of Redis channels
          Sub,        \* the Go channels Subscribe may make (bounds its calls)
          SubBuffer,  \* defaultSubBuffer
          MaxMsg,     \* how many messages the server accepts (bounds publishers)
          Closer,     \* concurrent calls of Close
          None        \* no channel name

ASSUME RedisPubSubAssumption ==
    /\ SubBuffer \in Nat \ {0}
    /\ MaxMsg \in Nat
    /\ None \notin Channel

VARIABLES
    \* the fields of the struct
    mu,          \* who holds mu: "free", "reader", "subscribe", "unsubscribe"
    subs,        \* channel name -> consumers
    ps,          \* "nil", "open", "closed" by Close, or "lost" for good
    closed,
    \* the goroutines
    cmd,         \* channel name of the Redis command under way
    reader,      \* "none", "ranging", "locking", "sending" or "done"
    msg,         \* the message the reader is fanning out, 0 if none
    targets,     \* the consumers it has still to try
    last,        \* number of the last message it fanned out
    closer,      \* call of Close -> "idle", "unlocked", "waiting" or "done"
    publishing,  \* names on which a Publish call has passed the closed check
    \* the Go channels of the consumers
    chan, log, rd,
    \* go-redis and the server
    wanted,      \* names go-redis (re)subscribes on its connection
    broker,      \* names the server has subscribed for this connection
    failed,      \* names whose last Redis command returned an error
    sent,        \* the name each accepted message was published under
    feed         \* numbers of the messages waiting in ps.Channel()

structVars == <<mu, subs, ps, closed>>
readerVars == <<reader, msg, targets, last>>
chanVars == <<chan, log, rd>>
redisVars == <<wanted, broker, failed, sent, feed>>
vars == <<structVars, cmd, readerVars, closer, publishing, chanVars, redisVars>>

Msg == 1..MaxMsg

Unread(s) == Len(log[s]) - rd[s]

Init ==
    /\ mu = "free" /\ ps = "nil" /\ closed = FALSE
    /\ subs = [ch \in Channel |-> {}]
    /\ cmd = None
    /\ reader = "none" /\ msg = 0 /\ targets = {} /\ last = 0
    /\ closer = [c \in Closer |-> "idle"]
    /\ publishing = {}
    /\ chan = [s \in Sub |-> "free"]
    /\ log = [s \in Sub |-> << >>]
    /\ rd = [s \in Sub |-> 0]
    /\ wanted = {} /\ broker = {} /\ failed = {}
    /\ sent = << >> /\ feed = << >>

-----------------------------------------------------------------------------
(* Wrong variants of the operations below, against which the properties    *)
(* are tested.                                                             *)

\* fanOut copies the list and releases mu before it sends.
FanOutLock_Unlocked ==
    /\ reader = "locking" /\ mu = "free"
    /\ reader' = IF closed THEN "ranging" ELSE "sending"
    /\ targets' = IF closed THEN {} ELSE subs[sent[msg]]
    /\ msg' = IF closed THEN 0 ELSE msg
    /\ last' = IF closed THEN last ELSE msg
    /\ UNCHANGED <<structVars, cmd, closer, publishing, chanVars, redisVars>>

\* UNSUBSCRIBE is sent for every consumer that leaves, not for the last one.
Unsubscribe_Always(ch, s) ==
    /\ mu = "free" /\ ~closed
    /\ s \in subs[ch]
    /\ chan' = [chan EXCEPT ![s] = "closed"]
    /\ subs' = [subs EXCEPT ![ch] = @ \ {s}]
    /\ mu' = "unsubscribe" /\ cmd' = ch
    /\ UNCHANGED <<ps, closed, readerVars, closer, publishing, log, rd, redisVars>>

\* Close waits for the reader without having closed the transport.
ClosePs_Skipped(c) ==
    /\ closer[c] = "unlocked"
    /\ closer' = [closer EXCEPT ![c] = "waiting"]
    /\ UNCHANGED <<structVars, cmd, readerVars, publishing, chanVars, redisVars>>

\* A full buffer ends the loop: the consumers after it are not tried.
FanOutSend_StopAtFull(s) ==
    /\ reader = "sending"
    /\ s \in targets
    /\ targets' = IF Unread(s) < SubBuffer THEN targets \ {s} ELSE {}
    /\ log' = IF Unread(s) < SubBuffer
              THEN [log EXCEPT ![s] = Append(@, msg)] ELSE log
    /\ UNCHANGED <<structVars, cmd, reader, msg, last, closer, publishing, chan, rd,
                   redisVars>>

-----------------------------------------------------------------------------
(* Subscribe                                                               *)

\* The new Go channel s joins the consumers of ch.
AddConsumer(ch, s) ==
    /\ chan[s] = "free"
    /\ chan' = [chan EXCEPT ![s] = "open"]
    /\ subs' = [subs EXCEPT ![ch] = @ \cup {s}]
    /\ UNCHANGED <<log, rd>>

\* The first consumer of ch: SUBSCRIBE is written while mu is held.  The very
\* first call makes the connection and starts the reader, whatever follows.
SubscribeFirst(ch) ==
    /\ mu = "free" /\ ~closed
    /\ subs[ch] = {}
    /\ mu' = "subscribe" /\ cmd' = ch
    /\ ps' = IF ps = "nil" THEN "open" ELSE ps
    /\ reader' = IF ps = "nil" THEN "ranging" ELSE reader
    /\ UNCHANGED <<subs, closed, msg, targets, last, closer, publishing,
                   chanVars, redisVars>>

SubscribeDone(s) ==
    /\ mu = "subscribe" /\ ps = "open"
    /\ AddConsumer(cmd, s)
    /\ mu' = "free" /\ cmd' = None
    /\ wanted' = wanted \cup {cmd}
    /\ failed' = failed \ {cmd}
    /\ UNCHANGED <<ps, closed, readerVars, closer, publishing, broker, sent, feed>>

\* The command fails: no consumer is added, go-redis may keep the name.
SubscribeFail ==
    /\ mu = "subscribe"
    /\ mu' = "free" /\ cmd' = None
    /\ wanted' \in {wanted, wanted \cup {cmd}}
    /\ failed' = failed \cup {cmd}
    /\ UNCHANGED <<subs, ps, closed, readerVars, closer, publishing, chanVars,
                   broker, sent, feed>>

\* A further consumer of ch costs no Redis command.
SubscribeJoin(ch, s) ==
    /\ mu = "free" /\ ~closed
    /\ subs[ch] # {}
    /\ AddConsumer(ch, s)
    /\ UNCHANGED <<mu, ps, closed, cmd, readerVars, closer, publishing, redisVars>>

-----------------------------------------------------------------------------
(* Unsubscribe                                                             *)

\* s is closed and leaves the list; the last one to leave issues UNSUBSCRIBE.
\* A pair (ch, s) that is not subscribed, and a closed bus, change nothing.
Unsubscribe(ch, s) ==
    /\ mu = "free" /\ ~closed
    /\ s \in subs[ch]
    /\ chan' = [chan EXCEPT ![s] = "closed"]
    /\ subs' = [subs EXCEPT ![ch] = @ \ {s}]
    /\ IF subs'[ch] = {} THEN mu' = "unsubscribe" /\ cmd' = ch
                         ELSE UNCHANGED <<mu, cmd>>
    /\ UNCHANGED <<ps, closed, readerVars, closer, publishing, log, rd, redisVars>>

UnsubscribeDone ==
    /\ mu = "unsubscribe"
    /\ mu' = "free" /\ cmd' = None
    /\ wanted' = wanted \ {cmd}
    /\ failed' = failed \ {cmd}
    /\ UNCHANGED <<subs, ps, closed, readerVars, closer, publishing, chanVars,
                   broker, sent, feed>>

UnsubscribeFail ==
    /\ mu = "unsubscribe"
    /\ mu' = "free" /\ cmd' = None
    /\ wanted' \in {wanted, wanted \ {cmd}}
    /\ failed' = failed \cup {cmd}
    /\ UNCHANGED <<subs, ps, closed, readerVars, closer, publishing, chanVars,
                   broker, sent, feed>>

-----------------------------------------------------------------------------
(* Close                                                                   *)

\* Under mu: mark, close every consumer, forget the lists.  The transport is
\* closed after mu was released.  A second call returns at once.
CloseMark(c) ==
    /\ closer[c] = "idle"
    /\ mu = "free"
    /\ closed' = TRUE
    /\ chan' = [s \in Sub |-> IF \E ch \in Channel : s \in subs[ch]
                              THEN "closed" ELSE chan[s]]
    /\ subs' = [ch \in Channel |-> {}]
    /\ closer' = [closer EXCEPT ![c] = IF closed \/ ps = "nil" THEN "done"
                                                               ELSE "unlocked"]
    /\ UNCHANGED <<mu, ps, cmd, readerVars, publishing, log, rd, redisVars>>

ClosePs(c) ==
    /\ closer[c] = "unlocked"
    /\ ps' = "closed"
    /\ broker' = {}
    /\ closer' = [closer EXCEPT ![c] = "waiting"]
    /\ UNCHANGED <<mu, subs, closed, cmd, readerVars, publishing, chanVars,
                   wanted, failed, sent, feed>>

CloseReturn(c) ==
    /\ closer[c] = "waiting"
    /\ reader = "done"
    /\ closer' = [closer EXCEPT ![c] = "done"]
    /\ UNCHANGED <<structVars, cmd, readerVars, publishing, chanVars, redisVars>>

-----------------------------------------------------------------------------
(* The reader goroutine and fanOut                                         *)

ReaderReceive ==
    /\ reader = "ranging"
    /\ feed # << >>
    /\ msg' = Head(feed) /\ feed' = Tail(feed)
    /\ reader' = "locking"
    /\ UNCHANGED <<structVars, cmd, targets, last, closer, publishing, chanVars,
                   wanted, broker, failed, sent>>

\* fanOut takes mu and, unless the bus was closed meanwhile, turns to the
\* consumers of the message's name.
FanOutLock ==
    /\ reader = "locking"
    /\ mu = "free"
    /\ IF closed
         THEN /\ reader' = "ranging" /\ msg' = 0
              /\ UNCHANGED <<mu, targets, last>>
         ELSE /\ reader' = "sending" /\ mu' = "reader"
              /\ targets' = subs[sent[msg]]
              /\ last' = msg
              /\ UNCHANGED msg
    /\ UNCHANGED <<subs, ps, closed, cmd, closer, publishing, chanVars, redisVars>>

\* A non-blocking send: a consumer whose buffer is full misses the message.
FanOutSend(s) ==
    /\ reader = "sending"
    /\ s \in targets
    /\ targets' = targets \ {s}
    /\ log' = IF Unread(s) < SubBuffer
              THEN [log EXCEPT ![s] = Append(@, msg)] ELSE log
    /\ UNCHANGED <<structVars, cmd, reader, msg, last, closer, publishing, chan, rd,
                   redisVars>>

FanOutUnlock ==
    /\ reader = "sending"
    /\ targets = {}
    /\ reader' = "ranging" /\ msg' = 0
    /\ mu' = "free"
    /\ UNCHANGED <<subs, ps, closed, cmd, targets, last, closer, publishing, chanVars,
                   redisVars>>

\* ps.Channel() is closed and drained: the range loop ends.
ReaderExit ==
    /\ reader = "ranging"
    /\ ps \in {"closed", "lost"}
    /\ feed = << >>
    /\ reader' = "done"
    /\ UNCHANGED <<structVars, cmd, msg, targets, last, closer, publishing, chanVars,
                   redisVars>>

-----------------------------------------------------------------------------
(* Publish, by this bus or by another process                              *)

\* The server accepts a message and pushes it to this connection if the name
\* is subscribed there.
Accept(ch) ==
    /\ Len(sent) < MaxMsg
    /\ sent' = Append(sent, ch)
    /\ feed' = IF ch \in broker /\ ps = "open"
               THEN Append(feed, Len(sent) + 1) ELSE feed
    /\ UNCHANGED <<structVars, cmd, readerVars, closer, chanVars,
                   wanted, broker, failed>>

\* closed is only checked before the command; mu is free while it runs.
PublishCheck(ch) ==
    /\ mu = "free" /\ ~closed
    /\ Len(sent) < MaxMsg
    /\ publishing' = publishing \cup {ch}
    /\ UNCHANGED <<structVars, cmd, readerVars, closer, chanVars, redisVars>>

PublishSend(ch) ==
    /\ ch \in publishing
    /\ Accept(ch)
    /\ publishing' = publishing \ {ch}

PublishFail(ch) ==
    /\ ch \in publishing
    /\ publishing' = publishing \ {ch}
    /\ UNCHANGED <<structVars, cmd, readerVars, closer, chanVars, redisVars>>

PublishElsewhere(ch) ==
    /\ Accept(ch)
    /\ UNCHANGED publishing

-----------------------------------------------------------------------------
(* Consumers, go-redis and the server                                      *)

Receive(s) ==
    /\ rd[s] < Len(log[s])
    /\ rd' = [rd EXCEPT ![s] = @ + 1]
    /\ UNCHANGED <<structVars, cmd, readerVars, closer, publishing, chan, log, redisVars>>

\* The server processes the commands written for ch.
BrokerApply(ch) ==
    /\ ps = "open"
    /\ ch \in (wanted \ broker) \cup (broker \ wanted)
    /\ broker' = IF ch \in wanted THEN broker \cup {ch} ELSE broker \ {ch}
    /\ UNCHANGED <<structVars, cmd, readerVars, closer, publishing, chanVars,
                   wanted, failed, sent, feed>>

\* The connection breaks: go-redis dials again and re-subscribes what it
\* wants; what was published meanwhile is lost.
ConnDrop ==
    /\ ps = "open" /\ broker # {}
    /\ broker' = {}
    /\ UNCHANGED <<structVars, cmd, readerVars, closer, publishing, chanVars,
                   wanted, failed, sent, feed>>

\* The connection is gone for good and ps.Channel() ends.
TransportLost ==
    /\ ps = "open"
    /\ ps' = "lost"
    /\ broker' = {}
    /\ UNCHANGED <<mu, subs, closed, cmd, readerVars, closer, publishing, chanVars,
                   wanted, failed, sent, feed>>

-----------------------------------------------------------------------------
Reader == ReaderReceive \/ FanOutLock \/ (\E s \in Sub : FanOutSend(s))
            \/ FanOutUnlock \/ ReaderExit

Next ==
    \/ \E ch \in Channel :
          \/ SubscribeFirst(ch)
          \/ \E s \in Sub : SubscribeJoin(ch, s) \/ Unsubscribe(ch, s)
          \/ PublishCheck(ch) \/ PublishSend(ch) \/ PublishFail(ch)
          \/ PublishElsewhere(ch)
          \/ BrokerApply(ch)
    \/ \E s \in Sub : SubscribeDone(s) \/ Receive(s)
    \/ SubscribeFail \/ UnsubscribeDone \/ UnsubscribeFail
    \/ \E c \in Closer : CloseMark(c) \/ ClosePs(c) \/ CloseReturn(c)
    \/ Reader
    \/ ConnDrop \/ TransportLost

Spec == Init /\ [][Next]_vars

\* Goroutines run on, a Redis command returns or times out, and a goroutine
\* queued for mu gets it (sync.Mutex hands over after a millisecond).  Nothing
\* obliges callers, publishers, consumers or the server to act.
Fairness ==
    /\ WF_vars(ReaderReceive) /\ SF_vars(FanOutLock)
    /\ WF_vars(\E s \in Sub : FanOutSend(s))
    /\ WF_vars(FanOutUnlock) /\ WF_vars(ReaderExit)
    /\ WF_vars(SubscribeFail \/ \E s \in Sub : SubscribeDone(s))
    /\ WF_vars(UnsubscribeDone \/ UnsubscribeFail)
    /\ \A c \in Closer : WF_vars(ClosePs(c)) /\ WF_vars(CloseReturn(c))

FairSpec == Spec /\ Fairness
-----------------------------------------------------------------------------
(* Properties                                                              *)

TypeOK ==
    /\ mu \in {"free", "reader", "subscribe", "unsubscribe"}
    /\ subs \in [Channel -> SUBSET Sub]
    /\ ps \in {"nil", "open", "closed", "lost"}
    /\ closed \in BOOLEAN
    /\ cmd \in Channel \cup {None}
    /\ reader \in {"none", "ranging", "locking", "sending", "done"}
    /\ msg \in 0..MaxMsg /\ last \in 0..MaxMsg
    /\ targets \in SUBSET Sub
    /\ closer \in [Closer -> {"idle", "unlocked", "waiting", "done"}]
    /\ publishing \in SUBSET Channel
    /\ chan \in [Sub -> {"free", "open", "closed"}]
    /\ log \in [Sub -> Seq(Msg)]
    /\ rd \in [Sub -> Nat]
    /\ wanted \in SUBSET Channel /\ broker \in SUBSET Channel
    /\ failed \in SUBSET Channel
    /\ sent \in Seq(Channel) /\ feed \in Seq(Msg)

\* No goroutine ever sends on a closed Go channel or closes one twice, both of
\* which panic: whatever fanOut, Unsubscribe and Close still refer to is open,
\* and no channel is in two lists.  (redis.go:16-18: mu covers the sends.)
NoPanic ==
    /\ \A s \in targets : chan[s] = "open"
    /\ \A ch \in Channel : \A s \in subs[ch] : chan[s] = "open"
    /\ \A c, d \in Channel : c # d => subs[c] \cap subs[d] = {}

\* One Redis subscription per name, exactly while the name has consumers: when
\* nobody is inside a critical section, go-redis keeps a name subscribed iff
\* some consumer is listed under it, unless its last command failed.
SubscribedExactly ==
    (mu = "free" /\ ~closed) =>
        \A ch \in Channel \ failed : subs[ch] # {} <=> ch \in wanted

\* Every consumer sees a subsequence of what was published under its name, in
\* the order the server accepted it and without duplicates, also across
\* reconnections and re-subscriptions.
StreamInOrder ==
    /\ \A s \in Sub : \A i, j \in 1..Len(log[s]) : i < j => log[s][i] < log[s][j]
    /\ \A ch \in Channel : \A s \in subs[ch] :
          \A i \in 1..Len(log[s]) : sent[log[s][i]] = ch

\* After Close no consumer is left waiting on an open Go channel, a Subscribe
\* that was talking to Redis when Close was called included.
ClosedReleasesAll == closed => \A s \in Sub : chan[s] # "open"

\* There is one reader, started by the first Subscribe call even if its Redis
\* command fails; Close waits for the one it knows of.
ReaderOwnsConnection == (ps = "nil") <=> (reader = "none")

\* Close returns: it does not wait for the reader under mu, and closing the
\* transport ends the reader's loop.
CloseReturns ==
    \A c \in Closer : closer[c] \in {"unlocked", "waiting"} ~> closer[c] = "done"

\* What the interface promises for a transport that drops for good
\* (pubsub.go:34-37): the consumers' channels are closed.
TransportLossEndsStreams ==
    ps = "lost" ~> \A s \in Sub : chan[s] # "open"

Contract == INSTANCE PubSub WITH offering <- targets

\* RedisPubSub implements the interface's contract: in particular a message the
\* reader takes is offered to every consumer listed at that moment, and only a
\* full buffer makes one of them miss it.
ImplementsPubSub == Contract!Spec
-----------------------------------------------------------------------------
(* The inductive invariant behind the properties                           *)

\* mu: who holds it is where it says it is, and nobody holds it once closed.
LockConsistent ==
    /\ mu = "reader" <=> reader = "sending"
    /\ mu \in {"subscribe", "unsubscribe"} <=> cmd # None
    /\ cmd # None => subs[cmd] = {} /\ ps # "nil"
    /\ closed => mu = "free" /\ \A ch \in Channel : subs[ch] = {}
    /\ reader # "sending" => targets = {}
    /\ reader \in {"locking", "sending"} <=> msg # 0
    /\ ps = "nil" => \A ch \in Channel : subs[ch] = {}
    /\ \A c \in Closer : closer[c] \in {"unlocked", "waiting"} => ps # "nil"

\* The Go channels: exactly the open ones are listed, under one name; the reader
\* only tries consumers that are listed under the name of its message.
ConsumersConsistent ==
    /\ \A s \in Sub : chan[s] = "open" <=> \E ch \in Channel : s \in subs[ch]
    /\ \A c, d \in Channel : c # d => subs[c] \cap subs[d] = {}
    /\ reader = "sending" => targets \subseteq subs[sent[msg]]
    /\ \A s \in Sub : chan[s] = "free" => log[s] = << >>

\* go-redis: what it keeps subscribed while a command may be under way.
WantedConsistent ==
    ~closed => \A ch \in Channel \ failed :
                  ch # cmd => (subs[ch] # {} <=> ch \in wanted)

\* Messages move on in order: logs, then the one at hand, then the feed.
OrderConsistent ==
    /\ \A i \in 1..Len(feed) : last < feed[i] /\ msg < feed[i] /\ feed[i] <= Len(sent)
    /\ \A i, j \in 1..Len(feed) : i < j => feed[i] < feed[j]
    /\ msg <= Len(sent) /\ last <= Len(sent)
    /\ reader = "locking" => last < msg
    /\ reader = "sending" => last = msg
    /\ \A s \in Sub : \A i \in 1..Len(log[s]) :
          log[s][i] <= last /\ (s \in targets => log[s][i] < last)
    /\ Len(sent) <= MaxMsg

Inv ==
    /\ TypeOK /\ LockConsistent /\ ConsumersConsistent /\ WantedConsistent
    /\ OrderConsistent /\ StreamInOrder /\ ReaderOwnsConnection
=============================================================================

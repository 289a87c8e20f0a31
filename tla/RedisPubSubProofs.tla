------------------------- MODULE RedisPubSubProofs -------------------------
(***************************************************************************)
(* Proofs about RedisPubSub, for any sets of names, consumers and Close    *)
(* calls, any buffer size and any number of messages: Inv is inductive,    *)
(* the safety properties the runs check follow from it, and every step is  *)
(* a step of the contract PubSub or leaves its variables alone.            *)
(***************************************************************************)
EXTENDS RedisPubSub, TLAPS

-----------------------------------------------------------------------------
(* Three steps that change a log or a sequence of messages                 *)

\* What the server accepts is one more message, numbered next.
LEMMA AcceptTypes ==
  ASSUME Inv, NEW ch \in Channel, Accept(ch)
  PROVE  sent' \in Seq(Channel) /\ feed' \in Seq(Msg)
<1>1. sent \in Seq(Channel) /\ feed \in Seq(Msg) /\ MaxMsg \in Nat
  BY RedisPubSubAssumption DEF Inv, TypeOK
<1>2. Len(sent) + 1 \in Msg
  BY <1>1, SMT DEF Accept, Msg
<1>3. sent' = Append(sent, ch) /\ (feed' = feed \/ feed' = Append(feed, Len(sent) + 1))
  BY DEF Accept
<1> QED
  BY <1>1, <1>2, <1>3, SMT

\* mu protects the sends: the consumer the reader tries is listed under the name
\* of the message, and what it was sent before is older.
LEMMA FanOutSendFacts ==
  ASSUME Inv, NEW s \in Sub, FanOutSend(s)
  PROVE  /\ msg \in Msg /\ msg <= Len(sent) /\ msg = last /\ sent[msg] \in Channel
         /\ s \in subs[sent[msg]]
         /\ \A ch \in Channel : s \in subs[ch] => ch = sent[msg]
         /\ chan[s] = "open"
         /\ log[s] \in Seq(Msg)
         /\ \A i \in 1..Len(log[s]) : log[s][i] < msg
<1>1. msg \in Msg /\ msg <= Len(sent) /\ msg = last /\ sent[msg] \in Channel
  BY RedisPubSubAssumption, SMT DEF Inv, TypeOK, LockConsistent,
     OrderConsistent, FanOutSend, Msg
<1>2. s \in subs[sent[msg]]
  BY <1>1 DEF Inv, ConsumersConsistent, FanOutSend
<1>3. \A ch \in Channel : s \in subs[ch] => ch = sent[msg]
  BY <1>1, <1>2 DEF Inv, ConsumersConsistent
<1>4. chan[s] = "open" /\ log[s] \in Seq(Msg)
  BY <1>1, <1>2 DEF Inv, TypeOK, ConsumersConsistent
<1>5. \A i \in 1..Len(log[s]) : log[s][i] < msg
  BY <1>1 DEF Inv, OrderConsistent, FanOutSend
<1> QED
  BY <1>1, <1>2, <1>3, <1>4, <1>5

\* A send does not change which Go channels are open.
LEMMA FanOutSendConsumers ==
  ASSUME Inv, NEW s \in Sub, FanOutSend(s)
  PROVE  ConsumersConsistent'
<1>1. \A x \in Sub : x # s => log'[x] = log[x]
  BY DEF FanOutSend, Inv, TypeOK
<1> QED
  BY <1>1, FanOutSendFacts, SMT DEF FanOutSend, Inv, ConsumersConsistent,
     structVars, redisVars

\* A send keeps every log sorted and of one name.
LEMMA FanOutSendStream ==
  ASSUME Inv, NEW s \in Sub, FanOutSend(s)
  PROVE  StreamInOrder'
<1> DEFINE Sorted(q) == \A i, j \in 1..Len(q) : i < j => q[i] < q[j]
           Own(q, ch) == \A i \in 1..Len(q) : sent[q[i]] = ch
<1>1. \A x \in Sub : x # s => log'[x] = log[x]
  BY DEF FanOutSend, Inv, TypeOK
<1>2. subs' = subs /\ sent' = sent
  BY DEF FanOutSend, structVars, redisVars
<1>3. /\ \A x \in Sub : Sorted(log[x])
      /\ \A ch \in Channel : \A x \in subs[ch] : Own(log[x], ch)
  BY DEF Inv, StreamInOrder
<1>4. log'[s] = log[s] \/ log'[s] = Append(log[s], msg)
  BY DEF FanOutSend, Inv, TypeOK
<1>5. Sorted(log'[s])
  <2>1. CASE log'[s] = log[s]
    BY <2>1, <1>3
  <2>2. CASE log'[s] = Append(log[s], msg)
    <3>1. log[s] \in Seq(Nat) /\ msg \in Nat
      BY FanOutSendFacts, RedisPubSubAssumption, SMT DEF Msg
    <3>2. \A i \in 1..Len(log[s]) : log[s][i] < msg
      BY FanOutSendFacts
    <3>3. Sorted(log[s])
      BY <1>3
    <3> QED
      BY <2>2, <3>1, <3>2, <3>3, SMT
  <2> QED BY <2>1, <2>2, <1>4
<1>6. \A ch \in Channel : s \in subs[ch] => Own(log'[s], ch)
  <2> SUFFICES ASSUME NEW ch \in Channel, s \in subs[ch] PROVE Own(log'[s], ch)
    OBVIOUS
  <2>1. ch = sent[msg] /\ Own(log[s], ch)
    BY <1>3, FanOutSendFacts
  <2>2. CASE log'[s] = log[s]
    BY <2>1, <2>2
  <2>3. CASE log'[s] = Append(log[s], msg)
    BY <2>1, <2>3, FanOutSendFacts, SMT DEF Msg
  <2> QED BY <2>2, <2>3, <1>4
<1>7. \A x \in Sub : Sorted(log'[x])
  BY <1>1, <1>3, <1>5
<1>8. \A ch \in Channel : \A x \in subs[ch] : Own(log'[x], ch)
  <2> SUFFICES ASSUME NEW ch \in Channel, NEW x \in subs[ch] PROVE Own(log'[x], ch)
    OBVIOUS
  <2>1. x \in Sub
    BY DEF Inv, TypeOK
  <2> QED BY <2>1, <1>1, <1>3, <1>6
<1> QED
  BY <1>2, <1>7, <1>8 DEF StreamInOrder

-----------------------------------------------------------------------------
(* One lemma per action                                                    *)

\* Taking mu for SUBSCRIBE; the reader is started together with the connection.
LEMMA SubscribeFirstStep ==
  ASSUME Inv, NEW ch \in Channel, SubscribeFirst(ch)
  PROVE  Inv'
<1>1. TypeOK' /\ ConsumersConsistent' /\ OrderConsistent' /\
      ReaderOwnsConnection'
  BY RedisPubSubAssumption, SMTT(30) DEF Inv, TypeOK, ConsumersConsistent,
      OrderConsistent, ReaderOwnsConnection, SubscribeFirst, structVars,
      readerVars, chanVars, redisVars, Msg
<1>2. StreamInOrder'
  BY RedisPubSubAssumption, SMTT(30) DEF Inv, TypeOK, StreamInOrder,
      LockConsistent, SubscribeFirst, structVars, readerVars, chanVars,
      redisVars, Msg
<1>3. LockConsistent'
  <2>1. reader # "sending" /\ cmd = None /\ (ps = "nil" => msg = 0)
    BY DEF Inv, LockConsistent, ReaderOwnsConnection, SubscribeFirst
  <2> QED
    BY <2>1, RedisPubSubAssumption, SMT DEF Inv, LockConsistent,
       ReaderOwnsConnection, SubscribeFirst
<1>4. WantedConsistent'
  <2>1. /\ cmd = None /\ cmd' = ch
        /\ UNCHANGED <<subs, wanted, failed, closed>>
    BY RedisPubSubAssumption, SMT DEF Inv, TypeOK, LockConsistent, SubscribeFirst,
       redisVars
  <2> QED
    BY <2>1, RedisPubSubAssumption DEF Inv, WantedConsistent
<1> QED BY <1>1, <1>2, <1>3, <1>4 DEF Inv

\* The new Go channel has an empty log and is listed under no other name.
LEMMA SubscribeDoneStep ==
  ASSUME Inv, NEW s \in Sub, SubscribeDone(s)
  PROVE  Inv'
<1>1. LockConsistent' /\ OrderConsistent' /\ ReaderOwnsConnection'
  BY RedisPubSubAssumption, SMTT(30) DEF Inv, TypeOK, LockConsistent,
      OrderConsistent, ReaderOwnsConnection, SubscribeDone, AddConsumer,
      structVars, readerVars, chanVars, redisVars, Msg
<1>2. TypeOK' /\ ConsumersConsistent'
  BY RedisPubSubAssumption, SMTT(30) DEF Inv, TypeOK, ConsumersConsistent,
      LockConsistent, SubscribeDone, AddConsumer, structVars, readerVars,
      chanVars, redisVars, Msg
<1>3. StreamInOrder'
  BY RedisPubSubAssumption, SMTT(30) DEF Inv, TypeOK, StreamInOrder,
      LockConsistent, ConsumersConsistent, SubscribeDone, AddConsumer,
      structVars, readerVars, chanVars, redisVars, Msg
<1>4. WantedConsistent'
  <2>1. cmd \in Channel /\ cmd' = None /\ closed' = closed
    BY DEF Inv, TypeOK, LockConsistent, SubscribeDone
  <2>2. subs'[cmd] # {} /\ cmd \in wanted'
    BY <2>1 DEF Inv, TypeOK, SubscribeDone, AddConsumer
  <2>3. \A ch \in Channel : ch # cmd =>
           /\ subs'[ch] = subs[ch]
           /\ ch \in wanted' <=> ch \in wanted
           /\ ch \in failed' <=> ch \in failed
    BY <2>1 DEF Inv, TypeOK, SubscribeDone, AddConsumer
  <2> QED
    BY <2>1, <2>2, <2>3 DEF Inv, WantedConsistent
<1> QED BY <1>1, <1>2, <1>3, <1>4 DEF Inv

\* The name is recorded as failed, nothing else changes.
LEMMA SubscribeFailStep ==
  ASSUME Inv, SubscribeFail
  PROVE  Inv'
<1>1. LockConsistent' /\ ConsumersConsistent' /\ WantedConsistent' /\
      OrderConsistent' /\ ReaderOwnsConnection'
  BY RedisPubSubAssumption, SMTT(30) DEF Inv, TypeOK, LockConsistent,
      ConsumersConsistent, WantedConsistent, OrderConsistent,
      ReaderOwnsConnection, SubscribeFail, structVars, readerVars, chanVars,
      redisVars, Msg
<1>2. TypeOK' /\ StreamInOrder'
  BY RedisPubSubAssumption, SMTT(30) DEF Inv, TypeOK, StreamInOrder,
      LockConsistent, SubscribeFail, structVars, readerVars, chanVars,
      redisVars, Msg
<1> QED BY <1>1, <1>2 DEF Inv

\* The name has consumers, hence is subscribed already.
LEMMA SubscribeJoinStep ==
  ASSUME Inv, NEW ch \in Channel, NEW s \in Sub, SubscribeJoin(ch, s)
  PROVE  Inv'
<1>1. TypeOK' /\ LockConsistent' /\ ConsumersConsistent' /\ OrderConsistent'
      /\ ReaderOwnsConnection'
  BY RedisPubSubAssumption, SMTT(30) DEF Inv, TypeOK, LockConsistent,
      ConsumersConsistent, OrderConsistent, ReaderOwnsConnection,
      SubscribeJoin, AddConsumer, structVars, readerVars, chanVars,
      redisVars, Msg
<1>2. StreamInOrder'
  BY RedisPubSubAssumption, SMTT(30) DEF Inv, TypeOK, StreamInOrder,
      LockConsistent, ConsumersConsistent, SubscribeJoin, AddConsumer,
      structVars, readerVars, chanVars, redisVars, Msg
<1>3. WantedConsistent'
  <2>1. \A x \in Channel : subs'[x] # {} <=> subs[x] # {}
    BY DEF Inv, TypeOK, SubscribeJoin, AddConsumer
  <2> QED
    BY <2>1 DEF Inv, WantedConsistent, SubscribeJoin, redisVars
<1> QED BY <1>1, <1>2, <1>3 DEF Inv

\* The closed Go channel leaves the only list it is in.
LEMMA UnsubscribeStep ==
  ASSUME Inv, NEW ch \in Channel, NEW s \in Sub, Unsubscribe(ch, s)
  PROVE  Inv'
<1>1. TypeOK' /\ OrderConsistent' /\ ReaderOwnsConnection'
  BY RedisPubSubAssumption, SMTT(30) DEF Inv, TypeOK, OrderConsistent,
      ReaderOwnsConnection, Unsubscribe, structVars, readerVars, chanVars,
      redisVars, Msg
<1>2. ConsumersConsistent' /\ StreamInOrder'
  BY RedisPubSubAssumption, SMTT(30) DEF Inv, TypeOK, ConsumersConsistent,
      StreamInOrder, LockConsistent, Unsubscribe, structVars, readerVars,
      chanVars, redisVars, Msg
<1>3. WantedConsistent'
  BY RedisPubSubAssumption, SMTT(30) DEF Inv, TypeOK, WantedConsistent,
      LockConsistent, ConsumersConsistent, OrderConsistent, Unsubscribe,
      structVars, readerVars, chanVars, redisVars, Msg
<1>4. LockConsistent'
  <2>1. ps # "nil" /\ ch # None /\ subs' \in [Channel -> SUBSET Sub]
    BY RedisPubSubAssumption, SMT DEF Inv, TypeOK, LockConsistent, Unsubscribe
  <2>2. \A c \in Channel : subs[c] = {} => subs'[c] = {}
    BY <2>1, SMT DEF Inv, TypeOK, Unsubscribe
  <2>3. reader # "sending" /\ cmd = None
    BY DEF Inv, LockConsistent, Unsubscribe
  <2> QED
    BY <2>1, <2>2, <2>3, SMT DEF Inv, LockConsistent, Unsubscribe, readerVars
<1> QED BY <1>1, <1>2, <1>3, <1>4 DEF Inv

\* The name has no consumer, and is no longer wanted.
LEMMA UnsubscribeDoneStep ==
  ASSUME Inv, UnsubscribeDone
  PROVE  Inv'
<1>1. TypeOK' /\ LockConsistent' /\ ConsumersConsistent' /\ OrderConsistent'
      /\ ReaderOwnsConnection'
  BY RedisPubSubAssumption, SMTT(30) DEF Inv, TypeOK, LockConsistent,
      ConsumersConsistent, OrderConsistent, ReaderOwnsConnection,
      UnsubscribeDone, structVars, readerVars, chanVars, redisVars, Msg
<1>2. WantedConsistent' /\ StreamInOrder'
  BY RedisPubSubAssumption, SMTT(30) DEF Inv, TypeOK, WantedConsistent,
      StreamInOrder, LockConsistent, UnsubscribeDone, structVars,
      readerVars, chanVars, redisVars, Msg
<1> QED BY <1>1, <1>2 DEF Inv

\* The name is recorded as failed, nothing else changes.
LEMMA UnsubscribeFailStep ==
  ASSUME Inv, UnsubscribeFail
  PROVE  Inv'
<1>1. LockConsistent' /\ ConsumersConsistent' /\ WantedConsistent' /\
      OrderConsistent' /\ ReaderOwnsConnection'
  BY RedisPubSubAssumption, SMTT(30) DEF Inv, TypeOK, LockConsistent,
      ConsumersConsistent, WantedConsistent, OrderConsistent,
      ReaderOwnsConnection, UnsubscribeFail, structVars, readerVars,
      chanVars, redisVars, Msg
<1>2. TypeOK' /\ StreamInOrder'
  BY RedisPubSubAssumption, SMTT(30) DEF Inv, TypeOK, StreamInOrder,
      LockConsistent, UnsubscribeFail, structVars, readerVars, chanVars,
      redisVars, Msg
<1> QED BY <1>1, <1>2 DEF Inv

\* Every open Go channel is listed, so Close closes all of them.
LEMMA CloseMarkStep ==
  ASSUME Inv, NEW c \in Closer, CloseMark(c)
  PROVE  Inv'
<1>1. TypeOK' /\ LockConsistent' /\ WantedConsistent' /\ OrderConsistent' /\
      ReaderOwnsConnection'
  BY RedisPubSubAssumption, SMTT(30) DEF Inv, TypeOK, LockConsistent,
      WantedConsistent, OrderConsistent, ReaderOwnsConnection, CloseMark,
      structVars, readerVars, chanVars, redisVars, Msg
<1>2. ConsumersConsistent' /\ StreamInOrder'
  BY RedisPubSubAssumption, SMTT(60) DEF Inv, TypeOK, ConsumersConsistent,
      StreamInOrder, LockConsistent, CloseMark, structVars, readerVars,
      chanVars, redisVars, Msg
<1> QED BY <1>1, <1>2 DEF Inv

\* The connection had been made, and so has a reader.
LEMMA ClosePsStep ==
  ASSUME Inv, NEW c \in Closer, ClosePs(c)
  PROVE  Inv'
<1>1. TypeOK' /\ LockConsistent' /\ ConsumersConsistent' /\
      WantedConsistent' /\ OrderConsistent' /\ StreamInOrder'
  BY RedisPubSubAssumption, SMTT(30) DEF Inv, TypeOK, LockConsistent,
      ConsumersConsistent, WantedConsistent, OrderConsistent, StreamInOrder,
      ClosePs, structVars, readerVars, chanVars, redisVars, Msg
<1>2. ReaderOwnsConnection'
  BY RedisPubSubAssumption, SMTT(30) DEF Inv, TypeOK, ReaderOwnsConnection,
      LockConsistent, ClosePs, structVars, readerVars, chanVars, redisVars,
      Msg
<1> QED BY <1>1, <1>2 DEF Inv

\* Only closer changes.
LEMMA CloseReturnStep ==
  ASSUME Inv, NEW c \in Closer, CloseReturn(c)
  PROVE  Inv'
<1>1. TypeOK' /\ LockConsistent' /\ ConsumersConsistent' /\
      WantedConsistent' /\ OrderConsistent' /\ StreamInOrder' /\
      ReaderOwnsConnection'
  BY RedisPubSubAssumption, SMTT(30) DEF Inv, TypeOK, LockConsistent,
      ConsumersConsistent, WantedConsistent, OrderConsistent, StreamInOrder,
      ReaderOwnsConnection, CloseReturn, structVars, readerVars, chanVars,
      redisVars, Msg
<1> QED BY <1>1 DEF Inv

\* The head of the feed is the least message in it.
LEMMA ReaderReceiveStep ==
  ASSUME Inv, ReaderReceive
  PROVE  Inv'
<1>1. TypeOK' /\ LockConsistent' /\ ConsumersConsistent' /\
      WantedConsistent' /\ OrderConsistent' /\ ReaderOwnsConnection'
  BY RedisPubSubAssumption, SMTT(30) DEF Inv, TypeOK, LockConsistent,
      ConsumersConsistent, WantedConsistent, OrderConsistent,
      ReaderOwnsConnection, ReaderReceive, structVars, readerVars, chanVars,
      redisVars, Msg
<1>2. StreamInOrder'
  BY RedisPubSubAssumption, SMTT(30) DEF Inv, TypeOK, StreamInOrder,
      LockConsistent, ReaderReceive, structVars, readerVars, chanVars,
      redisVars, Msg
<1> QED BY <1>1, <1>2 DEF Inv

\* The message at hand is newer than everything fanned out before.
LEMMA FanOutLockStep ==
  ASSUME Inv, FanOutLock
  PROVE  Inv'
<1>1. LockConsistent' /\ ConsumersConsistent' /\ WantedConsistent' /\
      OrderConsistent' /\ ReaderOwnsConnection'
  BY RedisPubSubAssumption, SMTT(30) DEF Inv, TypeOK, LockConsistent,
      ConsumersConsistent, WantedConsistent, OrderConsistent,
      ReaderOwnsConnection, FanOutLock, structVars, readerVars, chanVars,
      redisVars, Msg
<1>2. StreamInOrder'
  BY RedisPubSubAssumption, SMTT(30) DEF Inv, TypeOK, StreamInOrder,
      LockConsistent, FanOutLock, structVars, readerVars, chanVars,
      redisVars, Msg
<1>3. TypeOK'
  BY RedisPubSubAssumption, SMTT(30) DEF Inv, TypeOK, LockConsistent,
      ConsumersConsistent, OrderConsistent, FanOutLock, structVars,
      readerVars, chanVars, redisVars, Msg
<1> QED BY <1>1, <1>2, <1>3 DEF Inv

\* mu is held, so that the target is still listed, and therefore open.
LEMMA FanOutSendStep ==
  ASSUME Inv, NEW s \in Sub, FanOutSend(s)
  PROVE  Inv'
<1>1. LockConsistent' /\ WantedConsistent' /\ OrderConsistent' /\
      ReaderOwnsConnection'
  BY RedisPubSubAssumption, SMTT(30) DEF Inv, TypeOK, LockConsistent,
      WantedConsistent, OrderConsistent, ReaderOwnsConnection, FanOutSend,
      Unread, structVars, readerVars, chanVars, redisVars, Msg
<1>2. TypeOK'
  BY RedisPubSubAssumption, SMTT(30) DEF Inv, TypeOK, LockConsistent,
      FanOutSend, Unread, structVars, readerVars, chanVars, redisVars, Msg
<1>3. ConsumersConsistent'
  BY FanOutSendConsumers
<1>4. StreamInOrder'
  BY FanOutSendStream
<1> QED BY <1>1, <1>2, <1>3, <1>4 DEF Inv

\* The reader gives mu back.
LEMMA FanOutUnlockStep ==
  ASSUME Inv, FanOutUnlock
  PROVE  Inv'
<1>1. TypeOK' /\ LockConsistent' /\ ConsumersConsistent' /\
      WantedConsistent' /\ OrderConsistent' /\ ReaderOwnsConnection'
  BY RedisPubSubAssumption, SMTT(30) DEF Inv, TypeOK, LockConsistent,
      ConsumersConsistent, WantedConsistent, OrderConsistent,
      ReaderOwnsConnection, FanOutUnlock, structVars, readerVars, chanVars,
      redisVars, Msg
<1>2. StreamInOrder'
  BY RedisPubSubAssumption, SMTT(30) DEF Inv, TypeOK, StreamInOrder,
      LockConsistent, FanOutUnlock, structVars, readerVars, chanVars,
      redisVars, Msg
<1> QED BY <1>1, <1>2 DEF Inv

\* The reader was ranging, not holding mu.
LEMMA ReaderExitStep ==
  ASSUME Inv, ReaderExit
  PROVE  Inv'
<1>1. TypeOK' /\ LockConsistent' /\ ConsumersConsistent' /\
      WantedConsistent' /\ OrderConsistent' /\ StreamInOrder' /\
      ReaderOwnsConnection'
  BY RedisPubSubAssumption, SMTT(30) DEF Inv, TypeOK, LockConsistent,
      ConsumersConsistent, WantedConsistent, OrderConsistent, StreamInOrder,
      ReaderOwnsConnection, ReaderExit, structVars, readerVars, chanVars,
      redisVars, Msg
<1> QED BY <1>1 DEF Inv

\* Only publishing changes.
LEMMA PublishCheckStep ==
  ASSUME Inv, NEW ch \in Channel, PublishCheck(ch)
  PROVE  Inv'
<1>1. TypeOK' /\ LockConsistent' /\ ConsumersConsistent' /\
      WantedConsistent' /\ OrderConsistent' /\ ReaderOwnsConnection'
  BY RedisPubSubAssumption, SMTT(30) DEF Inv, TypeOK, LockConsistent,
      ConsumersConsistent, WantedConsistent, OrderConsistent,
      ReaderOwnsConnection, PublishCheck, structVars, readerVars, chanVars,
      redisVars, Msg
<1>2. StreamInOrder'
  BY RedisPubSubAssumption, SMTT(30) DEF Inv, TypeOK, StreamInOrder,
      LockConsistent, PublishCheck, structVars, readerVars, chanVars,
      redisVars, Msg
<1> QED BY <1>1, <1>2 DEF Inv

\* The new message is newer than all others.
LEMMA PublishSendStep ==
  ASSUME Inv, NEW ch \in Channel, PublishSend(ch)
  PROVE  Inv'
<1>1. LockConsistent' /\ WantedConsistent' /\ OrderConsistent' /\
      ReaderOwnsConnection'
  BY RedisPubSubAssumption, SMTT(30) DEF Inv, TypeOK, LockConsistent,
      WantedConsistent, OrderConsistent, ReaderOwnsConnection, PublishSend,
      Accept, structVars, readerVars, chanVars, redisVars, Msg
<1>2. ConsumersConsistent'
  BY RedisPubSubAssumption, SMTT(30) DEF Inv, TypeOK, ConsumersConsistent,
      LockConsistent, OrderConsistent, PublishSend, Accept, structVars,
      readerVars, chanVars, redisVars, Msg
<1>3. StreamInOrder'
  BY RedisPubSubAssumption, SMTT(30) DEF Inv, TypeOK, StreamInOrder,
      LockConsistent, ConsumersConsistent, OrderConsistent, PublishSend,
      Accept, structVars, readerVars, chanVars, redisVars, Msg
<1>4. TypeOK'
  <2>1. Accept(ch)
    BY DEF PublishSend
  <2> QED
    BY <2>1, AcceptTypes, SMT DEF PublishSend, Accept, Inv, TypeOK, structVars,
       readerVars, chanVars
<1> QED BY <1>1, <1>2, <1>3, <1>4 DEF Inv

\* Only publishing changes.
LEMMA PublishFailStep ==
  ASSUME Inv, NEW ch \in Channel, PublishFail(ch)
  PROVE  Inv'
<1>1. TypeOK' /\ LockConsistent' /\ ConsumersConsistent' /\
      WantedConsistent' /\ OrderConsistent' /\ ReaderOwnsConnection'
  BY RedisPubSubAssumption, SMTT(30) DEF Inv, TypeOK, LockConsistent,
      ConsumersConsistent, WantedConsistent, OrderConsistent,
      ReaderOwnsConnection, PublishFail, structVars, readerVars, chanVars,
      redisVars, Msg
<1>2. StreamInOrder'
  BY RedisPubSubAssumption, SMTT(30) DEF Inv, TypeOK, StreamInOrder,
      LockConsistent, PublishFail, structVars, readerVars, chanVars,
      redisVars, Msg
<1> QED BY <1>1, <1>2 DEF Inv

\* As PublishSend.
LEMMA PublishElsewhereStep ==
  ASSUME Inv, NEW ch \in Channel, PublishElsewhere(ch)
  PROVE  Inv'
<1>1. LockConsistent' /\ WantedConsistent' /\ ReaderOwnsConnection'
  BY RedisPubSubAssumption, SMTT(30) DEF Inv, TypeOK, LockConsistent,
      WantedConsistent, ReaderOwnsConnection, PublishElsewhere, Accept,
      structVars, readerVars, chanVars, redisVars, Msg
<1>2. OrderConsistent'
  BY RedisPubSubAssumption, SMTT(30) DEF Inv, TypeOK, OrderConsistent,
      LockConsistent, PublishElsewhere, Accept, structVars, readerVars,
      chanVars, redisVars, Msg
<1>3. ConsumersConsistent'
  BY RedisPubSubAssumption, SMTT(30) DEF Inv, TypeOK, ConsumersConsistent,
      LockConsistent, OrderConsistent, PublishElsewhere, Accept, structVars,
      readerVars, chanVars, redisVars, Msg
<1>4. StreamInOrder'
  BY RedisPubSubAssumption, SMTT(30) DEF Inv, TypeOK, StreamInOrder,
      LockConsistent, ConsumersConsistent, OrderConsistent,
      PublishElsewhere, Accept, structVars, readerVars, chanVars, redisVars,
      Msg
<1>5. TypeOK'
  <2>1. Accept(ch)
    BY DEF PublishElsewhere
  <2> QED
    BY <2>1, AcceptTypes, SMT DEF PublishElsewhere, Accept, Inv, TypeOK, structVars,
       readerVars, chanVars
<1> QED BY <1>1, <1>2, <1>3, <1>4, <1>5 DEF Inv

\* Only a read index changes.
LEMMA ReceiveStep ==
  ASSUME Inv, NEW s \in Sub, Receive(s)
  PROVE  Inv'
<1>1. TypeOK' /\ LockConsistent' /\ ConsumersConsistent' /\
      WantedConsistent' /\ OrderConsistent' /\ ReaderOwnsConnection'
  BY RedisPubSubAssumption, SMTT(30) DEF Inv, TypeOK, LockConsistent,
      ConsumersConsistent, WantedConsistent, OrderConsistent,
      ReaderOwnsConnection, Receive, structVars, readerVars, chanVars,
      redisVars, Msg
<1>2. StreamInOrder'
  BY RedisPubSubAssumption, SMTT(30) DEF Inv, TypeOK, StreamInOrder,
      LockConsistent, Receive, structVars, readerVars, chanVars, redisVars,
      Msg
<1> QED BY <1>1, <1>2 DEF Inv

\* Only the server's side changes.
LEMMA BrokerApplyStep ==
  ASSUME Inv, NEW ch \in Channel, BrokerApply(ch)
  PROVE  Inv'
<1>1. TypeOK' /\ LockConsistent' /\ ConsumersConsistent' /\
      WantedConsistent' /\ OrderConsistent' /\ ReaderOwnsConnection'
  BY RedisPubSubAssumption, SMTT(30) DEF Inv, TypeOK, LockConsistent,
      ConsumersConsistent, WantedConsistent, OrderConsistent,
      ReaderOwnsConnection, BrokerApply, structVars, readerVars, chanVars,
      redisVars, Msg
<1>2. StreamInOrder'
  BY RedisPubSubAssumption, SMTT(30) DEF Inv, TypeOK, StreamInOrder,
      LockConsistent, BrokerApply, structVars, readerVars, chanVars,
      redisVars, Msg
<1> QED BY <1>1, <1>2 DEF Inv

\* Only the server's side changes.
LEMMA ConnDropStep ==
  ASSUME Inv, ConnDrop
  PROVE  Inv'
<1>1. TypeOK' /\ LockConsistent' /\ ConsumersConsistent' /\
      WantedConsistent' /\ OrderConsistent' /\ ReaderOwnsConnection'
  BY RedisPubSubAssumption, SMTT(30) DEF Inv, TypeOK, LockConsistent,
      ConsumersConsistent, WantedConsistent, OrderConsistent,
      ReaderOwnsConnection, ConnDrop, structVars, readerVars, chanVars,
      redisVars, Msg
<1>2. StreamInOrder'
  BY RedisPubSubAssumption, SMTT(30) DEF Inv, TypeOK, StreamInOrder,
      LockConsistent, ConnDrop, structVars, readerVars, chanVars, redisVars,
      Msg
<1> QED BY <1>1, <1>2 DEF Inv

\* The connection had been made.
LEMMA TransportLostStep ==
  ASSUME Inv, TransportLost
  PROVE  Inv'
<1>1. TypeOK' /\ LockConsistent' /\ ConsumersConsistent' /\
      WantedConsistent' /\ OrderConsistent' /\ ReaderOwnsConnection'
  BY RedisPubSubAssumption, SMTT(30) DEF Inv, TypeOK, LockConsistent,
      ConsumersConsistent, WantedConsistent, OrderConsistent,
      ReaderOwnsConnection, TransportLost, structVars, readerVars, chanVars,
      redisVars, Msg
<1>2. StreamInOrder'
  BY RedisPubSubAssumption, SMTT(30) DEF Inv, TypeOK, StreamInOrder,
      LockConsistent, TransportLost, structVars, readerVars, chanVars,
      redisVars, Msg
<1> QED BY <1>1, <1>2 DEF Inv

-----------------------------------------------------------------------------
(* The invariant                                                           *)

\* Every step preserves Inv.
LEMMA NextPreservesInv == Inv /\ [Next]_vars => Inv'
<1> SUFFICES ASSUME Inv, [Next]_vars PROVE Inv'
  OBVIOUS
<1>1. ASSUME NEW ch \in Channel,
             \/ SubscribeFirst(ch) \/ PublishCheck(ch) \/ PublishSend(ch)
             \/ PublishFail(ch) \/ PublishElsewhere(ch) \/ BrokerApply(ch)
      PROVE  Inv'
  BY <1>1, SubscribeFirstStep, PublishCheckStep, PublishSendStep, PublishFailStep,
     PublishElsewhereStep, BrokerApplyStep
<1>2. ASSUME NEW ch \in Channel, NEW s \in Sub, SubscribeJoin(ch, s) \/ Unsubscribe(ch, s)
      PROVE  Inv'
  BY <1>2, SubscribeJoinStep, UnsubscribeStep
<1>3. ASSUME NEW s \in Sub, SubscribeDone(s) \/ Receive(s) \/ FanOutSend(s)
      PROVE  Inv'
  BY <1>3, SubscribeDoneStep, ReceiveStep, FanOutSendStep
<1>4. ASSUME SubscribeFail \/ UnsubscribeDone \/ UnsubscribeFail PROVE Inv'
  BY <1>4, SubscribeFailStep, UnsubscribeDoneStep, UnsubscribeFailStep
<1>5. ASSUME NEW c \in Closer, CloseMark(c) \/ ClosePs(c) \/ CloseReturn(c)
      PROVE  Inv'
  BY <1>5, CloseMarkStep, ClosePsStep, CloseReturnStep
<1>6. ASSUME ReaderReceive \/ FanOutLock \/ FanOutUnlock \/ ReaderExit PROVE Inv'
  BY <1>6, ReaderReceiveStep, FanOutLockStep, FanOutUnlockStep, ReaderExitStep
<1>7. ASSUME ConnDrop \/ TransportLost PROVE Inv'
  BY <1>7, ConnDropStep, TransportLostStep
<1>8. CASE UNCHANGED vars
  BY <1>8, SMT DEF vars, structVars, readerVars, chanVars, redisVars, Inv, TypeOK,
     LockConsistent, ConsumersConsistent, WantedConsistent, OrderConsistent,
     StreamInOrder, ReaderOwnsConnection
<1> QED
  BY <1>1, <1>2, <1>3, <1>4, <1>5, <1>6, <1>7, <1>8 DEF Next, Reader

\* Inv holds in every reachable state.
THEOREM Invariance == Spec => []Inv
<1>1. Init => Inv
  <2> SUFFICES ASSUME Init PROVE Inv
    OBVIOUS
  <2>1. TypeOK
    <3>1. << >> \in Seq(Msg) /\ << >> \in Seq(Channel) /\ 0 \in 0..MaxMsg
      BY RedisPubSubAssumption, SMT
    <3> QED BY <3>1 DEF Init, TypeOK
  <2>2. LockConsistent /\ ConsumersConsistent /\ WantedConsistent /\ ReaderOwnsConnection
    BY RedisPubSubAssumption, SMT DEF Init, LockConsistent, ConsumersConsistent,
       WantedConsistent, ReaderOwnsConnection
  <2>3. OrderConsistent /\ StreamInOrder
    BY RedisPubSubAssumption, SMT DEF Init, OrderConsistent, StreamInOrder
  <2> QED BY <2>1, <2>2, <2>3 DEF Inv
<1> QED
  BY <1>1, NextPreservesInv, PTL DEF Spec

\* The variables keep their types.
THEOREM TypeCorrect == Spec => []TypeOK
BY Invariance, PTL DEF Inv

\* No send on and no close of a closed Go channel, whatever the interleaving of
\* fanOut with Subscribe, Unsubscribe and Close.
THEOREM NeverPanics == Spec => []NoPanic
<1>1. Inv => NoPanic
  <2> SUFFICES ASSUME Inv PROVE NoPanic
    OBVIOUS
  <2>1. \A ch \in Channel : \A s \in subs[ch] : s \in Sub /\ chan[s] = "open"
    BY DEF Inv, TypeOK, ConsumersConsistent
  <2>2. ASSUME NEW s \in targets PROVE chan[s] = "open"
    <3>1. reader = "sending" /\ s \in subs[sent[msg]]
      BY <2>2 DEF Inv, LockConsistent, ConsumersConsistent
    <3>2. sent[msg] \in Channel
      BY <3>1, RedisPubSubAssumption, SMT DEF Inv, TypeOK, LockConsistent,
         OrderConsistent, Msg
    <3> QED BY <2>1, <3>1, <3>2
  <2> QED BY <2>1, <2>2 DEF NoPanic, Inv, ConsumersConsistent
<1> QED BY <1>1, Invariance, PTL

\* A name is subscribed at Redis exactly while it has consumers.
THEOREM SubscribedWhileNeeded == Spec => []SubscribedExactly
<1>1. Inv => SubscribedExactly
  BY RedisPubSubAssumption DEF Inv, LockConsistent, WantedConsistent, SubscribedExactly
<1> QED BY <1>1, Invariance, PTL

\* Consumers see their name's messages in order and once.
THEOREM StreamsInOrder == Spec => []StreamInOrder
BY Invariance, PTL DEF Inv

\* Close leaves no consumer with an open Go channel.
THEOREM CloseReleasesAll == Spec => []ClosedReleasesAll
<1>1. Inv => ClosedReleasesAll
  BY DEF Inv, LockConsistent, ConsumersConsistent, ClosedReleasesAll
<1> QED BY <1>1, Invariance, PTL

-----------------------------------------------------------------------------
(* The contract is implemented                                             *)

\* A consumer receives.
LEMMA ReceiveR ==
  ASSUME NEW s \in Sub, Receive(s)
  PROVE  [Contract!Next]_(Contract!vars)
<1>1. Contract!Receive(s)
  BY DEF Receive, Contract!Receive, structVars, readerVars
<1> QED BY <1>1 DEF Contract!Next

\* A send of fanOut is an Offer.
LEMMA FanOutSendR ==
  ASSUME Inv, NEW s \in Sub, FanOutSend(s)
  PROVE  [Contract!Next]_(Contract!vars)
<1>1. msg = last
  BY DEF Inv, OrderConsistent, FanOutSend
<1>2. Contract!Offer(s)
  BY <1>1 DEF FanOutSend, Contract!Offer, Contract!Unread, Unread, structVars
<1> QED BY <1>2 DEF Contract!Next

\* The first consumer of a name is added when SUBSCRIBE was written.
LEMMA SubscribeDoneR ==
  ASSUME Inv, NEW s \in Sub, SubscribeDone(s)
  PROVE  [Contract!Next]_(Contract!vars)
<1>1. cmd \in Channel /\ ~closed /\ targets = {}
  BY DEF Inv, TypeOK, LockConsistent, SubscribeDone
<1>2. Contract!Subscribe(cmd, s)
  BY <1>1 DEF SubscribeDone, AddConsumer, Contract!Subscribe, readerVars
<1> QED BY <1>1, <1>2 DEF Contract!Next

\* A further consumer is added at once.
LEMMA SubscribeJoinR ==
  ASSUME Inv, NEW ch \in Channel, NEW s \in Sub, SubscribeJoin(ch, s)
  PROVE  [Contract!Next]_(Contract!vars)
<1>1. targets = {}
  BY DEF Inv, LockConsistent, SubscribeJoin
<1>2. Contract!Subscribe(ch, s)
  BY <1>1 DEF SubscribeJoin, AddConsumer, Contract!Subscribe, readerVars
<1> QED BY <1>2 DEF Contract!Next

\* A consumer leaves when its Go channel is closed, before UNSUBSCRIBE is written.
LEMMA UnsubscribeR ==
  ASSUME Inv, NEW ch \in Channel, NEW s \in Sub, Unsubscribe(ch, s)
  PROVE  [Contract!Next]_(Contract!vars)
<1>1. targets = {}
  BY DEF Inv, LockConsistent, Unsubscribe
<1>2. Contract!Unsubscribe(ch, s)
  BY <1>1 DEF Unsubscribe, Contract!Unsubscribe, readerVars
<1> QED BY <1>2 DEF Contract!Next

\* The first Close is the contract's Close; a later one changes nothing.
LEMMA CloseMarkR ==
  ASSUME Inv, NEW c \in Closer, CloseMark(c)
  PROVE  [Contract!Next]_(Contract!vars)
<1>1. targets = {}
  BY DEF Inv, LockConsistent, CloseMark
<1>2. CASE ~closed
  <2>1. Contract!Close
    BY <1>1, <1>2 DEF CloseMark, Contract!Close, readerVars
  <2> QED BY <2>1 DEF Contract!Next
<1>3. CASE closed
  <2>1. \A ch \in Channel : subs[ch] = {}
    BY <1>3 DEF Inv, LockConsistent
  <2>2. subs' = subs
    BY <2>1 DEF CloseMark, Inv, TypeOK
  <2>3. chan' = chan
    BY <2>1 DEF CloseMark, Inv, TypeOK
  <2> QED BY <1>3, <2>2, <2>3 DEF CloseMark, Contract!vars, readerVars
<1> QED BY <1>2, <1>3

\* fanOut of a message on an open bus is an Arrive; on a closed one it is a stutter.
LEMMA FanOutLockR ==
  ASSUME Inv, FanOutLock
  PROVE  [Contract!Next]_(Contract!vars)
BY RedisPubSubAssumption, SMTT(20) DEF Contract!vars, Contract!Next, Contract!Arrive,
   Inv, TypeOK, LockConsistent, OrderConsistent, FanOutLock, chanVars, redisVars, Msg

\* Every step of the implementation is a step of the contract or a stutter.
LEMMA NextImplements == Inv /\ [Next]_vars => [Contract!Next]_(Contract!vars)
<1> SUFFICES ASSUME Inv, [Next]_vars PROVE [Contract!Next]_(Contract!vars)
  OBVIOUS
<1>1. ASSUME NEW ch \in Channel,
             \/ SubscribeFirst(ch) \/ PublishCheck(ch) \/ PublishSend(ch)
             \/ PublishFail(ch) \/ PublishElsewhere(ch) \/ BrokerApply(ch)
      PROVE  UNCHANGED Contract!vars
  BY <1>1 DEF SubscribeFirst, PublishCheck, PublishSend, PublishFail, PublishElsewhere,
     Accept, BrokerApply, Contract!vars, structVars, readerVars, chanVars
<1>2. ASSUME \/ SubscribeFail \/ UnsubscribeDone \/ UnsubscribeFail
             \/ ReaderReceive \/ FanOutUnlock \/ ReaderExit
             \/ ConnDrop \/ TransportLost
      PROVE  UNCHANGED Contract!vars
  BY <1>2 DEF SubscribeFail, UnsubscribeDone, UnsubscribeFail, ReaderReceive,
     FanOutUnlock, ReaderExit, ConnDrop, TransportLost, Contract!vars, structVars,
     readerVars, chanVars
<1>3. ASSUME NEW c \in Closer, ClosePs(c) \/ CloseReturn(c)
      PROVE  UNCHANGED Contract!vars
  BY <1>3 DEF ClosePs, CloseReturn, Contract!vars, structVars, readerVars, chanVars
<1>4. ASSUME NEW ch \in Channel, NEW s \in Sub, SubscribeJoin(ch, s) \/ Unsubscribe(ch, s)
      PROVE  [Contract!Next]_(Contract!vars)
  BY <1>4, SubscribeJoinR, UnsubscribeR
<1>5. ASSUME NEW s \in Sub, SubscribeDone(s) \/ Receive(s) \/ FanOutSend(s)
      PROVE  [Contract!Next]_(Contract!vars)
  BY <1>5, SubscribeDoneR, ReceiveR, FanOutSendR
<1>6. ASSUME NEW c \in Closer, CloseMark(c) PROVE [Contract!Next]_(Contract!vars)
  BY <1>6, CloseMarkR
<1>7. ASSUME FanOutLock PROVE [Contract!Next]_(Contract!vars)
  BY <1>7, FanOutLockR
<1>8. CASE UNCHANGED vars
  BY <1>8 DEF vars, Contract!vars, structVars, readerVars, chanVars
<1> QED
  BY <1>1, <1>2, <1>3, <1>4, <1>5, <1>6, <1>7, <1>8 DEF Next, Reader

\* RedisPubSub implements the contract of pubsub.PubSub.
THEOREM Implementation == Spec => ImplementsPubSub
<1>1. Init => Contract!Init
  BY DEF Init, Contract!Init
<1> QED
  BY <1>1, NextImplements, Invariance, PTL DEF Spec, ImplementsPubSub, Contract!Spec
=============================================================================

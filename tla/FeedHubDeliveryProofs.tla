------------------------ MODULE FeedHubDeliveryProofs ------------------------
(***************************************************************************)
(* Proofs about FeedHub and FeedHubDelivery, for any sets of posts, of     *)
(* finitely many connections, any buffers and number of messages.          *)
(*                                                                         *)
(* First FeedHub: Inv is inductive, and ViewersServed and NoPanic follow   *)
(* from it.  The argument about refs is one about who is inside Hub.mu:    *)
(* outside of it refs[p] is the number of connections the store has for p, *)
(* and the handler inside is the only one by which they may differ.        *)
(*                                                                         *)
(* Then the promise of Feed: InvH is inductive, and every step of the hub  *)
(* is a step of Feed or a stutter.  The argument about order is one about  *)
(* old bridges.  A message is sent to the one subscription its post has on *)
(* the bus, and the logs of the subscriptions are disjoint and increase.   *)
(* A bridge that is not the post's any more is sent nothing after it was   *)
(* replaced, hence nothing after its present viewers came.                 *)
(***************************************************************************)
EXTENDS FeedHubDelivery, TLAPS, FiniteSetTheorems

-----------------------------------------------------------------------------
(* Facts about states                                                      *)

\* An element of a sequence.
LEMMA Element ==
  ASSUME NEW S, NEW q \in Seq(S), NEW i \in 1..Len(q)
  PROVE  q[i] \in S
OBVIOUS

\* A handler at work has a post.
LEMMA Views ==
  ASSUME Inv, NEW c \in Conn, pc[c] \notin {"idle", "done"}
  PROVE  viewing[c] \in Post
BY DEF Inv, TypeOK, LockConsistent

\* The connections of a post can be counted.
LEMMA Viewers ==
  ASSUME Inv, NEW p \in Post
  PROVE  IsFiniteSet(storeSubs[p]) /\ Cardinality(storeSubs[p]) \in Nat
<1>1. storeSubs[p] \subseteq Conn
  BY DEF Inv, TypeOK
<1>2. IsFiniteSet(storeSubs[p])
  BY <1>1, FS_Subset, FeedHubAssumption
<1> QED BY <1>2, FS_CardinalityType

\* The handler that holds mu is the only one inside.
LEMMA Inside ==
  ASSUME Inv, NEW c \in Conn, mu = c, NEW p \in Post
  PROVE  Leaving(p) = (IF pc[c] = "unregistered" /\ viewing[c] = p THEN {c} ELSE {}) /\
         Joining(p) = (IF pc[c] = "registering" /\ viewing[c] = p THEN {c} ELSE {})
BY DEF Inv, LockConsistent, Leaving, Joining

\* While no handler holds mu, none is inside.
LEMMA Outside ==
  ASSUME Inv, mu \notin Conn, NEW p \in Post
  PROVE  Leaving(p) = {} /\ Joining(p) = {}
BY DEF Inv, LockConsistent, Leaving, Joining

\* Nor when the one that held it moves on.
LEMMA OutsideAfter ==
  ASSUME NEW c \in Conn, Inv, mu = c, NEW a, a \notin {"registering",
         "unregistered"},
         pc' = [pc EXCEPT ![c] = a], NEW p \in Post
  PROVE  Leaving(p)' = {} /\ Joining(p)' = {}
BY DEF Inv, TypeOK, LockConsistent, Leaving, Joining

-----------------------------------------------------------------------------
(* The steps that disturb a part of the invariant, one lemma for each part *)

\* A release on the bus keeps its types.
LEMMA BusUnsubscribeTypes == ASSUME TypeOK, NEW p \in Post, entry[p] # None, BusUnsubscribe(p)
PROVE /\ busSubs' \in [Post -> SUBSET Sub]
      /\ busChan' \in [Sub -> {"free", "open", "closed"}]
      /\ UNCHANGED <<busLog, busRd, busLast, busOffering, busClosed>>
<1>1. CASE Bus!Unsubscribe(p, entry[p])
  BY <1>1 DEF TypeOK, Bus!Unsubscribe
<1>2. CASE UNCHANGED busVars
  BY <1>2 DEF TypeOK, busVars
<1> QED BY <1>1, <1>2 DEF BusUnsubscribe

\* It closes a Go channel that is subscribed nowhere else.
LEMMA BusUnsubscribe_Consistent ==
  ASSUME Inv, NEW p \in Post, entry[p] # None, BusUnsubscribe(p)
  PROVE  /\ \A s \in Sub : busChan'[s] = "free" <=> busChan[s] = "free"
         /\ \A q \in Post : \A s \in busSubs'[q] : s \in busSubs[q] /\ busChan'[s] = "open"
         /\ UNCHANGED <<busLog, busRd, busLast, busOffering, busClosed>>
<1>1. CASE Bus!Unsubscribe(p, entry[p])
  BY <1>1 DEF Inv, TypeOK, BusConsistent, Bus!Unsubscribe
<1>2. CASE UNCHANGED busVars
  BY <1>2 DEF Inv, BusConsistent, busVars
<1> QED BY <1>1, <1>2 DEF BusUnsubscribe

\* Request preserves LockConsistent.
LEMMA RequestLock ==
  ASSUME Inv, NEW c \in Conn, NEW p \in Post, Request(c, p)
  PROVE  LockConsistent'
<1>1. mu' = mu /\ main' = main BY DEF Request, hubVars
<1>2. mu # c BY FeedHubAssumption DEF Request, Inv, LockConsistent, TypeOK
<1>3. p # None
  BY FeedHubAssumption
<1> QED BY <1>1, <1>2, <1>3 DEF Inv, TypeOK, LockConsistent, Request, hubVars

\* AcquireFirst preserves TypeOK.
LEMMA AcquireFirstTypes ==
  ASSUME Inv, NEW c \in Conn, NEW s \in Sub, AcquireFirst(c, s)
  PROVE  TypeOK'
<1>1. viewing[c] \in Post BY Views DEF AcquireFirst
<1>2. busSubs' \in [Post -> SUBSET Sub] /\ busChan' \in [Sub -> {"free", "open", "closed"}]
  BY <1>1 DEF Inv, TypeOK, AcquireFirst, Bus!Subscribe
<1>3. entry' \in [Post -> Sub \cup {None}] /\ serves' \in [Sub -> Post \cup {None}]
      /\ bridge' \in [Sub -> {"none", "select", "holding", "done"}]
  BY <1>1 DEF Inv, TypeOK, AcquireFirst
<1>4. pc' \in [Conn -> {"idle", "acquiring", "registering", "streaming",
                        "releasing", "unregistered", "done"}]
  BY DEF Inv, TypeOK, AcquireFirst
<1> QED BY <1>2, <1>3, <1>4 DEF Inv, TypeOK, AcquireFirst, Bus!Subscribe,
   storeVars

\* AcquireFirst preserves EntryConsistent.
LEMMA AcquireFirstEntry ==
  ASSUME Inv, NEW c \in Conn, NEW s \in Sub, AcquireFirst(c, s)
  PROVE  EntryConsistent'
<1> DEFINE p == viewing[c]
<1>1. p \in Post BY Views DEF AcquireFirst
<1>2. s \notin cancelled /\ \A q \in Post : entry[q] # s
  BY DEF Inv, BusConsistent, AcquireFirst, Bus!Subscribe
<1>3. HubOpen => busSubs[p] = {}
  BY <1>1 DEF Inv, EntryConsistent, AcquireFirst
<1>4. s # None BY FeedHubAssumption
<1>5. busSubs' = [busSubs EXCEPT ![p] = @ \cup {s}] /\ entry' = [entry EXCEPT ![p] = s]
      /\ bridge' = [bridge EXCEPT ![s] = "select"] /\ serves' = [serves EXCEPT ![s] = p]
      /\ cancelled' = cancelled /\ main' = main
  BY DEF AcquireFirst, Bus!Subscribe
<1>6. ASSUME HubOpen, NEW q \in Post, q # p
      PROVE  /\ busSubs'[q] = busSubs[q] /\ entry'[q] = entry[q]
             /\ entry[q] # None => /\ bridge'[entry[q]] = bridge[entry[q]]
                                   /\ serves'[entry[q]] = serves[entry[q]]
  BY <1>1, <1>2, <1>5, <1>6 DEF Inv, TypeOK
<1>7. HubOpen => busSubs'[p] = {s} /\ entry'[p] = s /\ bridge'[s] = "select" /\ serves'[s] = p
  BY <1>1, <1>3, <1>5 DEF Inv, TypeOK
<1>8. HubOpen' = HubOpen
  BY <1>5 DEF HubOpen
<1>9. SUFFICES ASSUME HubOpen, NEW q \in Post
               PROVE  /\ busSubs'[q] = IF entry'[q] = None THEN {} ELSE {entry'[q]}
                      /\ entry'[q] # None => /\ entry'[q] \notin cancelled'
                                             /\ serves'[entry'[q]] = q
                                             /\ bridge'[entry'[q]] \in {"select", "holding"}
  BY <1>8 DEF EntryConsistent
<1>10. CASE q = p
  <2>1. cancelled' = cancelled
    BY <1>5
  <2> QED BY <1>2, <1>4, <1>7, <1>9, <1>10, <2>1, Zenon
<1>11. CASE q # p
  <2>1. /\ busSubs'[q] = busSubs[q] /\ entry'[q] = entry[q]
        /\ entry[q] # None => bridge'[entry[q]] = bridge[entry[q]] /\ serves'[entry[q]] = serves[entry[q]]
    BY <1>6, <1>9, <1>11
  <2> QED BY <1>5, <1>9, <2>1 DEF Inv, EntryConsistent
<1> QED BY <1>10, <1>11

\* AcquireRegister preserves TypeOK.
LEMMA AcquireRegisterTypes ==
  ASSUME Inv, NEW c \in Conn, AcquireRegister(c)
  PROVE  TypeOK'
<1>1. viewing[c] \in Post BY Views DEF AcquireRegister
<1>9. pc' \in [Conn -> {"idle", "acquiring", "registering", "streaming",
                        "releasing", "unregistered", "done"}]
  BY DEF Inv, TypeOK, AcquireRegister
<1>2. refs' \in [Post -> Nat]
  BY <1>1 DEF Inv, TypeOK, AcquireRegister
<1>3. storeSubs' \in [Post -> SUBSET Conn] /\ local' \in [Conn -> {"free", "open", "closed"}]
  BY <1>1 DEF Inv, TypeOK, AcquireRegister, Store!Subscribe
<1> QED BY <1>2, <1>3, <1>9 DEF Inv, TypeOK, AcquireRegister, Store!Subscribe,
   busVars, bridgeVars

\* AcquireRegister preserves StoreConsistent.
LEMMA AcquireRegisterStore ==
  ASSUME Inv, NEW c \in Conn, AcquireRegister(c)
  PROVE  StoreConsistent'
<1> DEFINE p == viewing[c]
<1>1. p \in Post BY Views DEF AcquireRegister
<1>2. /\ pc' = [pc EXCEPT ![c] = "streaming"]
      /\ storeSubs' = [storeSubs EXCEPT ![p] = @ \cup {c}]
      /\ local' = [local EXCEPT ![c] = "open"]
      /\ viewing' = viewing /\ main' = main /\ pc[c] = "registering"
  BY DEF AcquireRegister, Store!Subscribe
<1>3. ASSUME NEW q \in Post, NEW d \in storeSubs'[q]
      PROVE  viewing'[d] = q /\ pc'[d] \in {"streaming", "releasing"} /\ local'[d] = "open"
  <2>1. d \in Conn /\ (d = c => q = p) /\ (d # c => d \in storeSubs[q])
    BY <1>1, <1>2, <1>3 DEF Inv, TypeOK, StoreConsistent
  <2>2. CASE d = c
    BY <1>2, <2>1, <2>2 DEF Inv, TypeOK
  <2>3. CASE d # c
    BY <1>2, <2>1, <2>3 DEF Inv, TypeOK, StoreConsistent
  <2> QED BY <2>2, <2>3
<1>4. ASSUME HubOpen', NEW d \in Conn, pc'[d] \in {"streaming", "releasing"}
      PROVE  d \in storeSubs'[viewing'[d]]
  <2>1. HubOpen
    BY <1>2, <1>4 DEF HubOpen
  <2>2. CASE d = c
    BY <1>1, <1>2, <2>2 DEF Inv, TypeOK
  <2>3. CASE d # c
    <3>1. pc[d] \in {"streaming", "releasing"}
      BY <1>2, <1>4, <2>3 DEF Inv, TypeOK
    <3>2. viewing[d] \in Post /\ d \in storeSubs[viewing[d]]
      BY <2>1, <3>1, Views DEF Inv, StoreConsistent
    <3> QED BY <1>1, <1>2, <3>2 DEF Inv, TypeOK
  <2> QED BY <2>2, <2>3
<1> QED BY <1>3, <1>4 DEF StoreConsistent

\* AcquireRegister preserves RefsConsistent.
LEMMA AcquireRegisterRefs ==
  ASSUME Inv, NEW c \in Conn, AcquireRegister(c)
  PROVE  RefsConsistent'
<1> DEFINE p == viewing[c]
<1>1. p \in Post BY Views DEF AcquireRegister
<1>2. mu = c /\ pc[c] = "registering"
  BY DEF Inv, LockConsistent, AcquireRegister
<1>3. c \notin storeSubs[p]
  BY <1>1, <1>2 DEF Inv, StoreConsistent
<1>4. Cardinality(storeSubs[p] \cup {c}) = Cardinality(storeSubs[p]) + 1
  BY <1>1, <1>3, Viewers, FS_AddElement
<1>5. SUFFICES ASSUME HubOpen, NEW q \in Post
               PROVE  /\ refs'[q] = Cardinality(storeSubs'[q]) + 0
                      /\ entry[q] = None => refs'[q] = 0
                      /\ entry[q] # None => refs'[q] > 0
  BY <1>2, OutsideAfter DEF RefsConsistent, HubOpen, AcquireRegister
<1>6. Leaving(q) = {} /\ Joining(q) = IF q = p THEN {c} ELSE {}
  BY <1>2, Inside
<1>7. /\ refs[q] = Cardinality(storeSubs[q])
      /\ entry[q] = None => refs[q] = 0 /\ q # p
      /\ entry[q] # None => refs[q] > 0 \/ q = p
  BY <1>1, <1>5, <1>6, Viewers DEF Inv, RefsConsistent
<1>8. /\ refs'[q] = IF q = p THEN refs[q] + 1 ELSE refs[q]
      /\ storeSubs'[q] = IF q = p THEN storeSubs[q] \cup {c} ELSE storeSubs[q]
  BY <1>1 DEF Inv, TypeOK, AcquireRegister, Store!Subscribe
<1>9. refs[q] \in Nat
  BY DEF Inv, TypeOK
<1>10. CASE q = p
  <2>1. storeSubs'[q] = storeSubs[q] \cup {c} /\ refs'[q] = refs[q] + 1
    BY <1>8, <1>10
  <2>2. Cardinality(storeSubs'[q]) = Cardinality(storeSubs[q]) + 1
    BY <1>4, <1>10, <2>1
  <2> QED BY <1>7, <1>9, <1>10, <2>1, <2>2
<1>11. CASE q # p
  BY <1>7, <1>8, <1>9, <1>11
<1> QED BY <1>10, <1>11

\* Deliver preserves TypeOK.
LEMMA DeliverTypes ==
  ASSUME Inv, NEW c \in Conn, Deliver(c)
  PROVE  TypeOK'
<1>1. localRd' \in [Conn -> Nat]
  BY DEF Inv, TypeOK, Deliver, Store!Receive
<1>2. pc' \in [Conn -> {"idle", "acquiring", "registering", "streaming",
                        "releasing", "unregistered", "done"}]
  BY DEF Inv, TypeOK, Deliver
<1> QED BY <1>1, <1>2 DEF Inv, TypeOK, Deliver, Store!Receive, busVars,
   hubVars, bridgeVars

\* Deliver preserves LockConsistent.
LEMMA DeliverLock ==
  ASSUME Inv, NEW c \in Conn, Deliver(c)
  PROVE  LockConsistent'
<1>1. CASE pc' = pc
  BY <1>1 DEF Inv, LockConsistent, Deliver, hubVars
<1>2. CASE pc' = [pc EXCEPT ![c] = "releasing"]
  BY <1>2, FeedHubAssumption DEF Inv, TypeOK, LockConsistent, Deliver, hubVars
<1> QED BY <1>1, <1>2 DEF Deliver

\* Deliver preserves StoreConsistent.
LEMMA DeliverStore ==
  ASSUME Inv, NEW c \in Conn, Deliver(c)
  PROVE  StoreConsistent'
<1>1. CASE pc' = pc
  BY <1>1 DEF Inv, StoreConsistent, HubOpen, Deliver, Store!Receive
<1>2. CASE pc' = [pc EXCEPT ![c] = "releasing"]
  BY <1>2, FeedHubAssumption DEF Inv, TypeOK, StoreConsistent, HubOpen,
     Deliver, Store!Receive
<1> QED BY <1>1, <1>2 DEF Deliver

\* ReleaseUnregister preserves TypeOK.
LEMMA ReleaseUnregisterTypes ==
  ASSUME Inv, NEW c \in Conn, ReleaseUnregister(c)
  PROVE  TypeOK'
<1>1. viewing[c] \in Post BY Views DEF ReleaseUnregister
<1>9. pc' \in [Conn -> {"idle", "acquiring", "registering", "streaming",
                        "releasing", "unregistered", "done"}]
  BY DEF Inv, TypeOK, ReleaseUnregister
<1>2. storeSubs' \in [Post -> SUBSET Conn]
  BY <1>1 DEF Inv, TypeOK, ReleaseUnregister, Store!Unsubscribe
<1> QED BY <1>2, <1>9 DEF Inv, TypeOK, ReleaseUnregister, Store!Unsubscribe,
   busVars, bridgeVars

\* ReleaseUnregister preserves RefsConsistent.
LEMMA ReleaseUnregisterRefs ==
  ASSUME Inv, NEW c \in Conn, ReleaseUnregister(c)
  PROVE  RefsConsistent'
<1> DEFINE p == viewing[c]
<1>1. p \in Post BY Views DEF ReleaseUnregister
<1>2. mu \notin Conn
  BY FeedHubAssumption DEF ReleaseUnregister
<1>3. ASSUME NEW q \in Post
      PROVE  Leaving(q)' = (IF q = p THEN {c} ELSE {}) /\ Joining(q)' = {}
  BY <1>1, <1>2 DEF Inv, TypeOK, LockConsistent, Leaving, Joining,
     ReleaseUnregister
<1>5. SUFFICES ASSUME HubOpen, NEW q \in Post
               PROVE  /\ refs[q] = Cardinality(storeSubs'[q]) + (IF q = p THEN 1 ELSE 0)
                      /\ entry[q] = None => refs[q] = 0
                      /\ entry[q] # None => refs[q] > 0
  BY <1>3 DEF RefsConsistent, HubOpen, ReleaseUnregister
<1>6. Leaving(q) = {} /\ Joining(q) = {}
  BY <1>2, Outside
<1>7. /\ refs[q] = Cardinality(storeSubs[q])
      /\ entry[q] = None => refs[q] = 0
      /\ entry[q] # None => refs[q] > 0
  BY <1>5, <1>6, Viewers DEF Inv, RefsConsistent
<1>8. storeSubs'[q] = IF q = p THEN storeSubs[q] \ {c} ELSE storeSubs[q]
  BY <1>1 DEF Inv, TypeOK, ReleaseUnregister, Store!Unsubscribe
<1>9. c \in storeSubs[p]
  BY <1>5 DEF Inv, StoreConsistent, ReleaseUnregister
<1>10. Cardinality(storeSubs[p] \ {c}) = Cardinality(storeSubs[p]) - 1
  BY <1>1, <1>9, Viewers, FS_RemoveElement
<1>11. Cardinality(storeSubs[q]) \in Nat
  BY Viewers
<1>12. CASE q = p
  <2>1. storeSubs'[q] = storeSubs[q] \ {c}
    BY <1>8, <1>12
  <2>2. Cardinality(storeSubs'[q]) = Cardinality(storeSubs[q]) - 1
    BY <1>10, <1>12, <2>1
  <2> QED BY <1>7, <1>11, <1>12, <2>2
<1>13. CASE q # p
  BY <1>7, <1>8, <1>11, <1>13
<1> QED BY <1>12, <1>13

\* ReleaseKeep preserves TypeOK.
LEMMA ReleaseKeepTypes ==
  ASSUME Inv, NEW c \in Conn, ReleaseKeep(c)
  PROVE  TypeOK'
<1>1. viewing[c] \in Post BY Views DEF ReleaseKeep
<1>9. pc' \in [Conn -> {"idle", "acquiring", "registering", "streaming",
                        "releasing", "unregistered", "done"}]
  BY DEF Inv, TypeOK, ReleaseKeep
<1>2. refs' \in [Post -> Nat]
  BY <1>1 DEF Inv, TypeOK, ReleaseKeep
<1> QED BY <1>2, <1>9, SMTT(30) DEF Inv, TypeOK, ReleaseKeep, storeVars, busVars,
   bridgeVars

\* ReleaseKeep preserves RefsConsistent.
LEMMA ReleaseKeepRefs ==
  ASSUME Inv, NEW c \in Conn, ReleaseKeep(c)
  PROVE  RefsConsistent'
<1> DEFINE p == viewing[c]
<1>1. p \in Post BY Views DEF ReleaseKeep
<1>2. mu = c /\ pc[c] = "unregistered"
  BY DEF Inv, LockConsistent, ReleaseKeep
<1>5. SUFFICES ASSUME HubOpen, NEW q \in Post
               PROVE  /\ refs'[q] = Cardinality(storeSubs[q]) + 0
                      /\ entry[q] = None => refs'[q] = 0
                      /\ entry[q] # None => refs'[q] > 0
  BY <1>2, OutsideAfter DEF RefsConsistent, HubOpen, ReleaseKeep, storeVars
<1>6. Leaving(q) = (IF q = p THEN {c} ELSE {}) /\ Joining(q) = {}
  BY <1>2, Inside
<1>7. /\ refs[q] = Cardinality(storeSubs[q]) + (IF q = p THEN 1 ELSE 0)
      /\ entry[q] = None => refs[q] = 0
      /\ entry[q] # None => refs[q] > 0
  BY <1>5, <1>6 DEF Inv, RefsConsistent
<1>8. refs[q] \in Nat /\ Cardinality(storeSubs[q]) \in Nat
  BY Viewers DEF Inv, TypeOK
<1>9. q = p => entry[q] # None /\ refs[q] > 1
  BY <1>7, <1>8 DEF ReleaseKeep
<1>10. refs'[q] = IF q = p THEN refs[q] - 1 ELSE refs[q]
  BY <1>1, <1>9 DEF Inv, TypeOK, ReleaseKeep
<1> QED BY <1>7, <1>8, <1>9, <1>10

\* ReleaseLast preserves TypeOK.
LEMMA ReleaseLastTypes ==
  ASSUME Inv, NEW c \in Conn, ReleaseLast(c)
  PROVE  TypeOK'
<1>1. viewing[c] \in Post BY Views DEF ReleaseLast
<1>9. pc' \in [Conn -> {"idle", "acquiring", "registering", "streaming",
                        "releasing", "unregistered", "done"}]
  BY DEF Inv, TypeOK, ReleaseLast
<1>2. refs' \in [Post -> Nat] /\ entry' \in [Post -> Sub \cup {None}] /\ cancelled' \in SUBSET Sub
  BY <1>1 DEF Inv, TypeOK, ReleaseLast
<1>3. /\ busSubs' \in [Post -> SUBSET Sub]
      /\ busChan' \in [Sub -> {"free", "open", "closed"}]
      /\ UNCHANGED <<busLog, busRd, busLast, busOffering, busClosed>>
  BY <1>1, BusUnsubscribeTypes DEF Inv, ReleaseLast
<1> QED BY <1>2, <1>3, <1>9 DEF Inv, TypeOK, ReleaseLast, storeVars

\* ReleaseLast preserves BusConsistent.
LEMMA ReleaseLastBus ==
  ASSUME Inv, NEW c \in Conn, ReleaseLast(c)
  PROVE  BusConsistent'
<1> DEFINE p == viewing[c]
<1>1. p \in Post BY Views DEF ReleaseLast
<1>2. busChan[entry[p]] # "free" /\ entry[p] \in Sub
  BY <1>1 DEF Inv, TypeOK, BusConsistent, ReleaseLast
<1>3. \A q \in Post : entry'[q] = entry[q] \/ entry'[q] = None
  BY <1>1 DEF Inv, TypeOK, ReleaseLast
<1>4. cancelled' = cancelled \cup {entry[p]} /\ bridge' = bridge /\ hand' = hand
      /\ serves' = serves /\ main' = main
  BY DEF ReleaseLast
<1>5. /\ \A s \in Sub : busChan'[s] = "free" <=> busChan[s] = "free"
      /\ \A q \in Post : \A s \in busSubs'[q] : s \in busSubs[q] /\ busChan'[s] = "open"
      /\ UNCHANGED <<busLast, busOffering, busClosed>>
  BY <1>1, BusUnsubscribe_Consistent DEF ReleaseLast
<1> QED BY <1>2, <1>3, <1>4, <1>5, FeedHubAssumption DEF Inv, BusConsistent,
   HubOpen

\* ReleaseLast preserves EntryConsistent.
LEMMA ReleaseLastEntry ==
  ASSUME Inv, NEW c \in Conn, ReleaseLast(c)
  PROVE  EntryConsistent'
<1> DEFINE p == viewing[c]
<1>1. p \in Post BY Views DEF ReleaseLast
<1>2. entry' = [entry EXCEPT ![p] = None] /\ cancelled' = cancelled \cup {entry[p]}
      /\ bridge' = bridge /\ serves' = serves /\ main' = main /\ entry[p] # None
  BY DEF ReleaseLast
<1>3. SUFFICES ASSUME HubOpen
               PROVE  EntryConsistent'
  BY <1>2 DEF EntryConsistent, HubOpen
<1>4. busSubs' = [busSubs EXCEPT ![p] = @ \ {entry[p]}]
  <2>1. ~busClosed
    BY <1>3 DEF Inv, BusConsistent
  <2>2. entry[p] \in busSubs[p]
    BY <1>1, <1>2, <1>3 DEF Inv, EntryConsistent
  <2>3. BusUnsubscribe(p)
    BY DEF ReleaseLast
  <2> QED BY <2>1, <2>2, <2>3 DEF BusUnsubscribe, Bus!Unsubscribe
<1>5. ASSUME NEW q \in Post, q # p
      PROVE  /\ busSubs'[q] = busSubs[q] /\ entry'[q] = entry[q]
             /\ entry[q] # None => entry[q] # entry[p]
  BY <1>1, <1>2, <1>3, <1>4, <1>5 DEF Inv, TypeOK, EntryConsistent
<1>6. busSubs'[p] = {} /\ entry'[p] = None
  BY <1>1, <1>2, <1>3, <1>4 DEF Inv, TypeOK, EntryConsistent
<1> QED BY <1>2, <1>3, <1>5, <1>6 DEF Inv, EntryConsistent, HubOpen

\* ReleaseLast preserves RefsConsistent.
LEMMA ReleaseLastRefs ==
  ASSUME Inv, NEW c \in Conn, ReleaseLast(c)
  PROVE  RefsConsistent'
<1> DEFINE p == viewing[c]
<1>1. p \in Post BY Views DEF ReleaseLast
<1>2. mu = c /\ pc[c] = "unregistered"
  BY DEF Inv, LockConsistent, ReleaseLast
<1>5. SUFFICES ASSUME HubOpen, NEW q \in Post
               PROVE  /\ refs'[q] = Cardinality(storeSubs[q]) + 0
                      /\ entry'[q] = None => refs'[q] = 0
                      /\ entry'[q] # None => refs'[q] > 0
  BY <1>2, OutsideAfter DEF RefsConsistent, HubOpen, ReleaseLast, storeVars
<1>6. Leaving(q) = (IF q = p THEN {c} ELSE {}) /\ Joining(q) = {}
  BY <1>2, Inside
<1>7. /\ refs[q] = Cardinality(storeSubs[q]) + (IF q = p THEN 1 ELSE 0)
      /\ entry[q] = None => refs[q] = 0
      /\ entry[q] # None => refs[q] > 0
  BY <1>5, <1>6 DEF Inv, RefsConsistent
<1>8. refs[q] \in Nat /\ Cardinality(storeSubs[q]) \in Nat
  BY Viewers DEF Inv, TypeOK
<1>9. q = p => refs[q] <= 1
  BY DEF ReleaseLast
<1>10. /\ refs'[q] = IF q = p THEN 0 ELSE refs[q]
       /\ entry'[q] = IF q = p THEN None ELSE entry[q]
  BY <1>1 DEF Inv, TypeOK, ReleaseLast
<1> QED BY <1>7, <1>8, <1>9, <1>10

\* BridgeReceive preserves BusConsistent.
LEMMA BridgeReceiveBus ==
  ASSUME Inv, NEW s \in Sub, BridgeReceive(s)
  PROVE  BusConsistent'
<1>0. busLog[s] \in Seq(1..MaxMsg) /\ busRd[s] \in Nat /\ busRd[s] < Len(busLog[s])
  BY DEF Inv, TypeOK, BridgeReceive, Bus!Receive
<1>3. busRd[s] + 1 \in 1..Len(busLog[s])
  BY <1>0
<1>1. busLog[s][busRd[s] + 1] \in 1..MaxMsg
  BY <1>0, <1>3, Element
<1>2. bridge[s] = "select" /\ bridge' = [bridge EXCEPT ![s] = "holding"]
      /\ hand' = [hand EXCEPT ![s] = busLog[s][busRd[s] + 1]]
  BY DEF BridgeReceive
<1> QED BY <1>1, <1>2 DEF Inv, TypeOK, BusConsistent, HubOpen, BridgeReceive,
   Bus!Receive, hubVars

\* BridgePublish preserves TypeOK.
LEMMA BridgePublishTypes ==
  ASSUME Inv, NEW s \in Sub, BridgePublish(s)
  PROVE  TypeOK'
<1>1. hand[s] \in 1..MaxMsg
  BY FeedHubAssumption DEF Inv, TypeOK, BusConsistent, BridgePublish
<1>2. localLog' \in [Conn -> Seq(1..MaxMsg)]
  <2>1. \A c \in Conn : localLog[c] \in Seq(1..MaxMsg) /\ Append(localLog[c], hand[s]) \in Seq(1..MaxMsg)
    BY <1>1 DEF Inv, TypeOK
  <2>2. \A c \in Conn : localLog'[c] \in Seq(1..MaxMsg)
    BY <2>1 DEF BridgePublish, Store!Publish
  <2>3. localLog' = [c \in Conn |-> localLog'[c]]
    BY DEF BridgePublish, Store!Publish
  <2> QED BY <2>2, <2>3
<1>3. hand' \in [Sub -> 0..MaxMsg] /\ bridge' \in [Sub -> {"none", "select", "holding", "done"}]
  BY FeedHubAssumption DEF Inv, TypeOK, BridgePublish
<1> QED BY <1>2, <1>3 DEF Inv, TypeOK, BridgePublish, Store!Publish, busVars,
   hubVars, connVars

\* BridgePublish preserves BusConsistent.
LEMMA BridgePublishBus ==
  ASSUME Inv, NEW s \in Sub, BridgePublish(s)
  PROVE  BusConsistent'
  BY DEF Inv, TypeOK, BusConsistent, HubOpen, BridgePublish, busVars, hubVars

\* HubCloseEntry preserves TypeOK.
LEMMA HubCloseEntryTypes ==
  ASSUME Inv, NEW p \in Post, HubCloseEntry(p)
  PROVE  TypeOK'
<1>2. cancelled' \in SUBSET Sub
  BY DEF Inv, TypeOK, HubCloseEntry
<1>3. /\ busSubs' \in [Post -> SUBSET Sub]
      /\ busChan' \in [Sub -> {"free", "open", "closed"}]
      /\ UNCHANGED <<busLog, busRd, busLast, busOffering, busClosed>>
  BY BusUnsubscribeTypes DEF Inv, HubCloseEntry
<1> QED BY <1>2, <1>3 DEF Inv, TypeOK, HubCloseEntry, storeVars, hubVars,
   connVars

\* HubCloseEntry preserves BusConsistent.
LEMMA HubCloseEntryBus ==
  ASSUME Inv, NEW p \in Post, HubCloseEntry(p)
  PROVE  BusConsistent'
<1>1. busChan[entry[p]] # "free" /\ entry[p] \in Sub
  BY DEF Inv, TypeOK, BusConsistent, HubCloseEntry
<1> QED BY <1>1, BusUnsubscribe_Consistent DEF Inv, TypeOK, BusConsistent,
   HubOpen, HubCloseEntry, hubVars

\* Arrive preserves BusConsistent.
LEMMA ArriveBus ==
  ASSUME Inv, NEW p \in Post, Arrive(p)
  PROVE  BusConsistent'
  BY DEF Inv, TypeOK, BusConsistent, HubOpen, Arrive, Bus!Arrive, hubVars,
     bridgeVars

\* Offer preserves TypeOK.
LEMMA OfferTypes ==
  ASSUME Inv, NEW s \in Sub, Offer(s)
  PROVE  TypeOK'
<1>1. busLast \in 1..MaxMsg
  BY DEF Inv, TypeOK, BusConsistent, Offer, Bus!Offer
<1>2. busLog' \in [Sub -> Seq(1..MaxMsg)]
  BY <1>1 DEF Inv, TypeOK, Offer, Bus!Offer
<1>3. busOffering' \in SUBSET Sub
  BY DEF Inv, TypeOK, Offer, Bus!Offer
<1> QED BY <1>2, <1>3 DEF Inv, TypeOK, Offer, Bus!Offer, storeVars, hubVars,
   bridgeVars, connVars

\* Offer preserves BusConsistent.
LEMMA OfferBus ==
  ASSUME Inv, NEW s \in Sub, Offer(s)
  PROVE  BusConsistent'
  BY DEF Inv, TypeOK, BusConsistent, HubOpen, Offer, Bus!Offer, hubVars,
     bridgeVars

-----------------------------------------------------------------------------
(* One lemma per action                                                    *)

\* The request names a post.
LEMMA RequestStep ==
  ASSUME Inv, NEW c \in Conn, NEW p \in Post, Request(c, p)
  PROVE  Inv'
<1>1. TypeOK' /\ StoreConsistent' /\ BusConsistent' /\ EntryConsistent' /\
      RefsConsistent'
  BY FeedHubAssumption, SMTT(30) DEF Inv, TypeOK, Request, busVars, storeVars,
     hubVars, bridgeVars, StoreConsistent, HubOpen, BusConsistent,
     EntryConsistent, RefsConsistent, Joining, Leaving
<1>2. LockConsistent'
  BY RequestLock
<1> QED BY <1>1, <1>2 DEF Inv

\* Only pc changes.
LEMMA RejectStep ==
  ASSUME Inv, NEW c \in Conn, Reject(c)
  PROVE  Inv'
<1>1. TypeOK' /\ LockConsistent' /\ StoreConsistent' /\ BusConsistent' /\
      EntryConsistent' /\ RefsConsistent'
  BY FeedHubAssumption, SMTT(30) DEF Inv, TypeOK, Reject, busVars, storeVars,
     hubVars, bridgeVars, LockConsistent, StoreConsistent, HubOpen,
     BusConsistent, EntryConsistent, RefsConsistent, Joining, Leaving
<1> QED BY <1>1 DEF Inv

\* The Go channel is fresh, and no entry of another post names it.
LEMMA AcquireFirstStep ==
  ASSUME Inv, NEW c \in Conn, NEW s \in Sub, AcquireFirst(c, s)
  PROVE  Inv'
<1>1. LockConsistent' /\ StoreConsistent' /\ BusConsistent' /\ RefsConsistent'
  BY FeedHubAssumption, SMTT(30) DEF Inv, TypeOK, LockConsistent,
     AcquireFirst, Bus!Subscribe, storeVars, StoreConsistent, HubOpen,
     BusConsistent, RefsConsistent, Joining, Leaving
<1>2. TypeOK' /\ EntryConsistent'
  BY AcquireFirstTypes, AcquireFirstEntry
<1> QED BY <1>1, <1>2 DEF Inv

\* Only the lock and pc change.
LEMMA AcquireNextStep ==
  ASSUME Inv, NEW c \in Conn, AcquireNext(c)
  PROVE  Inv'
<1>1. TypeOK' /\ LockConsistent' /\ StoreConsistent' /\ BusConsistent' /\
      EntryConsistent' /\ RefsConsistent'
  BY FeedHubAssumption, SMTT(30) DEF Inv, TypeOK, AcquireNext, busVars,
     storeVars, bridgeVars, LockConsistent, StoreConsistent, HubOpen,
     BusConsistent, EntryConsistent, RefsConsistent, Joining, Leaving
<1> QED BY <1>1 DEF Inv

\* Only pc changes.
LEMMA AcquireFailStep ==
  ASSUME Inv, NEW c \in Conn, AcquireFail(c)
  PROVE  Inv'
<1>1. TypeOK' /\ LockConsistent' /\ StoreConsistent' /\ BusConsistent' /\
      EntryConsistent' /\ RefsConsistent'
  BY FeedHubAssumption, SMTT(30) DEF Inv, TypeOK, AcquireFail, busVars,
     storeVars, hubVars, bridgeVars, LockConsistent, StoreConsistent, HubOpen,
     BusConsistent, EntryConsistent, RefsConsistent, Joining, Leaving
<1> QED BY <1>1 DEF Inv

\* The handler inside Acquire is counted in refs and listed in the store.
LEMMA AcquireRegisterStep ==
  ASSUME Inv, NEW c \in Conn, AcquireRegister(c)
  PROVE  Inv'
<1>1. LockConsistent' /\ BusConsistent' /\ EntryConsistent'
  BY FeedHubAssumption, SMTT(30) DEF Inv, TypeOK, LockConsistent,
     AcquireRegister, Store!Subscribe, busVars, bridgeVars, BusConsistent,
     HubOpen, EntryConsistent
<1>2. TypeOK' /\ StoreConsistent' /\ RefsConsistent'
  BY AcquireRegisterTypes, AcquireRegisterStore, AcquireRegisterRefs
<1> QED BY <1>1, <1>2 DEF Inv

\* A read index and perhaps pc change.
LEMMA DeliverStep ==
  ASSUME Inv, NEW c \in Conn, Deliver(c)
  PROVE  Inv'
<1>1. BusConsistent' /\ EntryConsistent' /\ RefsConsistent'
  BY FeedHubAssumption, SMTT(30) DEF Inv, TypeOK, BusConsistent, HubOpen,
     Deliver, Store!Receive, busVars, hubVars, bridgeVars, EntryConsistent,
     RefsConsistent, Joining, Leaving
<1>2. TypeOK' /\ LockConsistent' /\ StoreConsistent'
  BY DeliverTypes, DeliverLock, DeliverStore
<1> QED BY <1>1, <1>2 DEF Inv

\* Only pc changes.
LEMMA SeeGoneStep ==
  ASSUME Inv, NEW c \in Conn, SeeGone(c)
  PROVE  Inv'
<1>1. TypeOK' /\ LockConsistent' /\ StoreConsistent' /\ BusConsistent' /\
      EntryConsistent' /\ RefsConsistent'
  BY FeedHubAssumption, SMTT(30) DEF Inv, TypeOK, SeeGone, busVars, storeVars,
     hubVars, bridgeVars, LockConsistent, StoreConsistent, HubOpen,
     BusConsistent, EntryConsistent, RefsConsistent, Joining, Leaving
<1> QED BY <1>1 DEF Inv

\* Only pc changes.
LEMMA SeeClosedStep ==
  ASSUME Inv, NEW c \in Conn, SeeClosed(c)
  PROVE  Inv'
<1>1. TypeOK' /\ LockConsistent' /\ StoreConsistent' /\ BusConsistent' /\
      EntryConsistent' /\ RefsConsistent'
  BY FeedHubAssumption, SMTT(30) DEF Inv, TypeOK, SeeClosed, busVars,
     storeVars, hubVars, bridgeVars, LockConsistent, StoreConsistent, HubOpen,
     BusConsistent, EntryConsistent, RefsConsistent, Joining, Leaving
<1> QED BY <1>1 DEF Inv

\* The store loses a connection that refs still counts.
LEMMA ReleaseUnregisterStep ==
  ASSUME Inv, NEW c \in Conn, ReleaseUnregister(c)
  PROVE  Inv'
<1>1. LockConsistent' /\ StoreConsistent' /\ BusConsistent' /\
      EntryConsistent'
  BY FeedHubAssumption, SMTT(30) DEF Inv, TypeOK, LockConsistent,
     ReleaseUnregister, Store!Unsubscribe, busVars, bridgeVars,
     StoreConsistent, HubOpen, BusConsistent, EntryConsistent
<1>2. TypeOK' /\ RefsConsistent'
  BY ReleaseUnregisterTypes, ReleaseUnregisterRefs
<1> QED BY <1>1, <1>2 DEF Inv

\* refs counts it no longer.
LEMMA ReleaseKeepStep ==
  ASSUME Inv, NEW c \in Conn, ReleaseKeep(c)
  PROVE  Inv'
<1>1. LockConsistent' /\ StoreConsistent' /\ BusConsistent' /\
      EntryConsistent'
  BY FeedHubAssumption, SMTT(30) DEF Inv, TypeOK, LockConsistent, ReleaseKeep,
     busVars, storeVars, bridgeVars, StoreConsistent, HubOpen, BusConsistent,
     EntryConsistent
<1>2. TypeOK' /\ RefsConsistent'
  BY ReleaseKeepTypes, ReleaseKeepRefs
<1> QED BY <1>1, <1>2 DEF Inv

\* No connection is left; no other post has the entry that goes.
LEMMA ReleaseLastStep ==
  ASSUME Inv, NEW c \in Conn, ReleaseLast(c)
  PROVE  Inv'
<1>1. LockConsistent' /\ StoreConsistent'
  BY FeedHubAssumption, SMTT(30) DEF Inv, TypeOK, LockConsistent, ReleaseLast,
     BusUnsubscribe, Bus!Unsubscribe, busVars, storeVars, StoreConsistent,
     HubOpen
<1>2. TypeOK' /\ BusConsistent' /\ EntryConsistent' /\ RefsConsistent'
  BY ReleaseLastTypes, ReleaseLastBus, ReleaseLastEntry, ReleaseLastRefs
<1> QED BY <1>1, <1>2 DEF Inv

\* What a bridge takes is a message.
LEMMA BridgeReceiveStep ==
  ASSUME Inv, NEW s \in Sub, BridgeReceive(s)
  PROVE  Inv'
<1>1. TypeOK' /\ LockConsistent' /\ StoreConsistent' /\ EntryConsistent' /\
      RefsConsistent'
  BY FeedHubAssumption, SMTT(30) DEF Inv, TypeOK, BridgeReceive, Bus!Receive,
     storeVars, hubVars, connVars, LockConsistent, StoreConsistent, HubOpen,
     EntryConsistent, RefsConsistent, Joining, Leaving
<1>2. BusConsistent'
  BY BridgeReceiveBus
<1> QED BY <1>1, <1>2 DEF Inv

\* Only logs and the bridge change.
LEMMA BridgePublishStep ==
  ASSUME Inv, NEW s \in Sub, BridgePublish(s)
  PROVE  Inv'
<1>1. LockConsistent' /\ StoreConsistent' /\ EntryConsistent' /\
      RefsConsistent'
  BY FeedHubAssumption, SMTT(30) DEF Inv, TypeOK, LockConsistent,
     BridgePublish, Store!Publish, busVars, hubVars, connVars,
     StoreConsistent, HubOpen, EntryConsistent, RefsConsistent, Joining,
     Leaving
<1>2. TypeOK' /\ BusConsistent'
  BY BridgePublishTypes, BridgePublishBus
<1> QED BY <1>1, <1>2 DEF Inv

\* While the hub is open the bridge of an entry has no reason to stop.
LEMMA BridgeStopStep ==
  ASSUME Inv, NEW s \in Sub, BridgeStop(s)
  PROVE  Inv'
<1>1. TypeOK' /\ LockConsistent' /\ StoreConsistent' /\ BusConsistent' /\
      EntryConsistent' /\ RefsConsistent'
  BY FeedHubAssumption, SMTT(30) DEF Inv, TypeOK, BridgeStop, busVars,
     storeVars, hubVars, connVars, LockConsistent, StoreConsistent, HubOpen,
     BusConsistent, EntryConsistent, RefsConsistent, Joining, Leaving
<1> QED BY <1>1 DEF Inv

\* The hub stays open.
LEMMA SignalStep ==
  ASSUME Inv, Signal
  PROVE  Inv'
<1>1. TypeOK' /\ LockConsistent' /\ StoreConsistent' /\ BusConsistent' /\
      EntryConsistent' /\ RefsConsistent'
  BY FeedHubAssumption, SMTT(30) DEF Inv, TypeOK, Signal, busVars, storeVars,
     hubVars, bridgeVars, connVars, LockConsistent, StoreConsistent, HubOpen,
     BusConsistent, EntryConsistent, RefsConsistent, Joining, Leaving
<1> QED BY <1>1 DEF Inv

\* The hub stays open.
LEMMA ShutdownDrainedStep ==
  ASSUME Inv, ShutdownDrained
  PROVE  Inv'
<1>1. TypeOK' /\ LockConsistent' /\ StoreConsistent' /\ BusConsistent' /\
      EntryConsistent' /\ RefsConsistent'
  BY FeedHubAssumption, SMTT(30) DEF Inv, TypeOK, ShutdownDrained, busVars,
     storeVars, hubVars, bridgeVars, connVars, LockConsistent,
     StoreConsistent, HubOpen, BusConsistent, EntryConsistent, RefsConsistent,
     Joining, Leaving
<1> QED BY <1>1 DEF Inv

\* The hub stays open.
LEMMA ShutdownTimeoutStep ==
  ASSUME Inv, ShutdownTimeout
  PROVE  Inv'
<1>1. TypeOK' /\ LockConsistent' /\ StoreConsistent' /\ BusConsistent' /\
      EntryConsistent' /\ RefsConsistent'
  BY FeedHubAssumption, SMTT(30) DEF Inv, TypeOK, ShutdownTimeout, busVars,
     storeVars, hubVars, bridgeVars, connVars, LockConsistent,
     StoreConsistent, HubOpen, BusConsistent, EntryConsistent, RefsConsistent,
     Joining, Leaving
<1> QED BY <1>1 DEF Inv

\* From here on the hub is not open.
LEMMA HubCloseLockStep ==
  ASSUME Inv, HubCloseLock
  PROVE  Inv'
<1>1. TypeOK' /\ LockConsistent' /\ StoreConsistent' /\ BusConsistent' /\
      EntryConsistent' /\ RefsConsistent'
  BY FeedHubAssumption, SMTT(30) DEF Inv, TypeOK, HubCloseLock, busVars,
     storeVars, bridgeVars, connVars, LockConsistent, StoreConsistent,
     HubOpen, BusConsistent, EntryConsistent, RefsConsistent, Joining, Leaving
<1> QED BY <1>1 DEF Inv

\* The entry stays until HubCloseStore.
LEMMA HubCloseEntryStep ==
  ASSUME Inv, NEW p \in Post, HubCloseEntry(p)
  PROVE  Inv'
<1>1. LockConsistent' /\ StoreConsistent' /\ EntryConsistent' /\
      RefsConsistent'
  BY FeedHubAssumption, SMTT(30) DEF Inv, TypeOK, LockConsistent,
     HubCloseEntry, BusUnsubscribe, Bus!Unsubscribe, busVars, storeVars,
     hubVars, connVars, StoreConsistent, HubOpen, EntryConsistent,
     RefsConsistent, Joining, Leaving
<1>2. TypeOK' /\ BusConsistent'
  BY HubCloseEntryTypes, HubCloseEntryBus
<1> QED BY <1>1, <1>2 DEF Inv

\* Nothing is registered any more.
LEMMA HubCloseStoreStep ==
  ASSUME Inv, HubCloseStore
  PROVE  Inv'
<1>1. TypeOK' /\ LockConsistent' /\ StoreConsistent' /\ BusConsistent' /\
      EntryConsistent' /\ RefsConsistent'
  BY FeedHubAssumption, SMTT(30) DEF Inv, TypeOK, HubCloseStore, Store!Close,
     busVars, bridgeVars, connVars, LockConsistent, StoreConsistent, HubOpen,
     BusConsistent, EntryConsistent, RefsConsistent, Joining, Leaving
<1> QED BY <1>1 DEF Inv

\* All subscribed Go channels are closed.
LEMMA BusCloseStep ==
  ASSUME Inv, BusClose
  PROVE  Inv'
<1>1. TypeOK' /\ LockConsistent' /\ StoreConsistent' /\ BusConsistent' /\
      EntryConsistent' /\ RefsConsistent'
  BY FeedHubAssumption, SMTT(30) DEF Inv, TypeOK, BusClose, Bus!Close,
     storeVars, hubVars, bridgeVars, connVars, LockConsistent,
     StoreConsistent, HubOpen, BusConsistent, EntryConsistent, RefsConsistent,
     Joining, Leaving
<1> QED BY <1>1 DEF Inv

\* Only main changes.
LEMMA ExitStep ==
  ASSUME Inv, Exit
  PROVE  Inv'
<1>1. TypeOK' /\ LockConsistent' /\ StoreConsistent' /\ BusConsistent' /\
      EntryConsistent' /\ RefsConsistent'
  BY FeedHubAssumption, SMTT(30) DEF Inv, TypeOK, Exit, busVars, storeVars,
     hubVars, bridgeVars, connVars, LockConsistent, StoreConsistent, HubOpen,
     BusConsistent, EntryConsistent, RefsConsistent, Joining, Leaving
<1> QED BY <1>1 DEF Inv

\* Only gone changes.
LEMMA DisconnectStep ==
  ASSUME Inv, NEW c \in Conn, Disconnect(c)
  PROVE  Inv'
<1>1. TypeOK' /\ LockConsistent' /\ StoreConsistent' /\ BusConsistent' /\
      EntryConsistent' /\ RefsConsistent'
  BY FeedHubAssumption, SMTT(30) DEF Inv, TypeOK, Disconnect, busVars,
     storeVars, hubVars, bridgeVars, LockConsistent, StoreConsistent, HubOpen,
     BusConsistent, EntryConsistent, RefsConsistent, Joining, Leaving
<1> QED BY <1>1 DEF Inv

\* Only the bus changes.
LEMMA ArriveStep ==
  ASSUME Inv, NEW p \in Post, Arrive(p)
  PROVE  Inv'
<1>1. TypeOK' /\ LockConsistent' /\ StoreConsistent' /\ EntryConsistent' /\
      RefsConsistent'
  BY FeedHubAssumption, SMTT(30) DEF Inv, TypeOK, Arrive, Bus!Arrive,
     storeVars, hubVars, bridgeVars, connVars, LockConsistent,
     StoreConsistent, HubOpen, EntryConsistent, RefsConsistent, Joining,
     Leaving
<1>2. BusConsistent'
  BY ArriveBus
<1> QED BY <1>1, <1>2 DEF Inv

\* Only logs change.
LEMMA OfferStep ==
  ASSUME Inv, NEW s \in Sub, Offer(s)
  PROVE  Inv'
<1>1. LockConsistent' /\ StoreConsistent' /\ EntryConsistent' /\
      RefsConsistent'
  BY FeedHubAssumption, SMTT(30) DEF Inv, TypeOK, LockConsistent, Offer,
     Bus!Offer, Bus!Unread, storeVars, hubVars, bridgeVars, connVars,
     StoreConsistent, HubOpen, EntryConsistent, RefsConsistent, Joining,
     Leaving
<1>2. TypeOK' /\ BusConsistent'
  BY OfferTypes, OfferBus
<1> QED BY <1>1, <1>2 DEF Inv

-----------------------------------------------------------------------------
(* Every step, and what follows                                            *)

\* Inv holds before a step, hence after it.
LEMMA NextStep ==
  ASSUME Inv, [Next]_vars
  PROVE  Inv'
<1>1. ASSUME NEW c \in Conn, (\E p \in Post : Request(c, p)) \/ Reject(c) \/ Disconnect(c)
      PROVE  Inv'
  BY <1>1, RequestStep, RejectStep, DisconnectStep
<1>2. ASSUME NEW c \in Conn, HandlerLock(c) PROVE Inv'
  BY <1>2, AcquireFirstStep, AcquireNextStep, AcquireFailStep,
     ReleaseUnregisterStep
     DEF HandlerLock
<1>3. ASSUME NEW c \in Conn, HandlerStep(c) PROVE Inv'
  BY <1>3, AcquireRegisterStep, DeliverStep, SeeGoneStep, SeeClosedStep,
     ReleaseKeepStep, ReleaseLastStep DEF HandlerStep
<1>4. ASSUME NEW s \in Sub, Bridge(s) \/ Offer(s) PROVE Inv'
  BY <1>4, BridgeReceiveStep, BridgePublishStep, BridgeStopStep, OfferStep DEF
     Bridge
<1>5. ASSUME NEW p \in Post, Arrive(p) PROVE Inv'
  BY <1>5, ArriveStep
<1>6. ASSUME Signal \/ HubCloseLock PROVE Inv'
  BY <1>6, SignalStep, HubCloseLockStep
<1>7. ASSUME MainStep PROVE Inv'
  BY <1>7, ShutdownDrainedStep, ShutdownTimeoutStep, HubCloseEntryStep,
     HubCloseStoreStep, BusCloseStep, ExitStep DEF MainStep
<1>8. CASE UNCHANGED vars
  BY <1>8, SMT DEF vars, busVars, storeVars, hubVars, bridgeVars, connVars, Inv,
     TypeOK, LockConsistent, StoreConsistent, BusConsistent, EntryConsistent,
     RefsConsistent, HubOpen, Leaving, Joining
<1> QED
  BY <1>1, <1>2, <1>3, <1>4, <1>5, <1>6, <1>7, <1>8 DEF Next

\* Inv holds at the start.
LEMMA InitInv == Init => Inv
<1> SUFFICES ASSUME Init PROVE Inv
  OBVIOUS
<1>1. TypeOK
  <2>1. << >> \in Seq(1..MaxMsg) /\ 0 \in 0..MaxMsg
    BY FeedHubAssumption, SMT
  <2> QED BY <2>1 DEF Init, TypeOK, Bus!Init, Store!Init
<1>2. LockConsistent /\ StoreConsistent /\ BusConsistent /\ EntryConsistent
  BY FeedHubAssumption, SMT DEF Init, Bus!Init, Store!Init, LockConsistent,
     StoreConsistent, BusConsistent, EntryConsistent
<1>3. RefsConsistent
  BY FS_EmptySet, FeedHubAssumption DEF Init, Store!Init, RefsConsistent,
     Leaving, Joining
<1> QED BY <1>1, <1>2, <1>3 DEF Inv

\* Inv holds in every reachable state: who is inside Hub.mu, what the store, the
\* bus and the entries have to do with each other, and what refs counts.
THEOREM Invariance == Spec => []Inv
<1>1. Inv /\ [Next]_vars => Inv'
  BY NextStep
<1> QED BY <1>1, InitInv, PTL DEF Spec

\* The variables keep their types.
THEOREM TypeCorrect == Spec => []TypeOK
<1>1. Inv => TypeOK
  BY DEF Inv
<1> QED BY <1>1, Invariance, PTL

\* While the hub is open and nobody is inside it, refs counts the viewers of a
\* post, and a post has an entry, one bus subscription and a running bridge iff
\* it has viewers (Hub.Acquire, Hub.Release).
THEOREM AlwaysServed == Spec => []ViewersServed
<1>1. Inv => ViewersServed
  <2> SUFFICES ASSUME Inv, HubOpen, mu = None, NEW p \in Post
               PROVE  /\ refs[p] = Cardinality(storeSubs[p])
                      /\ entry[p] = None <=> storeSubs[p] = {}
                      /\ busSubs[p] = IF entry[p] = None THEN {} ELSE {entry[p]}
                      /\ entry[p] # None => /\ entry[p] \notin cancelled
                                            /\ serves[entry[p]] = p
                                            /\ bridge[entry[p]] \in {"select", "holding"}
    BY DEF ViewersServed
  <2>1. Leaving(p) = {} /\ Joining(p) = {}
    BY Outside, FeedHubAssumption
  <2>2. /\ refs[p] = Cardinality(storeSubs[p])
        /\ entry[p] = None => refs[p] = 0
        /\ entry[p] # None => refs[p] > 0
    BY <2>1, Viewers DEF Inv, RefsConsistent
  <2>3. Cardinality(storeSubs[p]) = 0 <=> storeSubs[p] = {}
    BY Viewers, FS_EmptySet
  <2>4. entry[p] = None <=> storeSubs[p] = {}
    BY <2>2, <2>3, Viewers
  <2> QED BY <2>2, <2>4 DEF Inv, EntryConsistent
<1> QED BY <1>1, Invariance, PTL

\* Store.Publish never sends on a closed channel and Store.Close never closes
\* one twice.
THEOREM NeverPanics == Spec => []NoPanic
<1>1. Inv => NoPanic
  BY DEF Inv, StoreConsistent, NoPanic
<1> QED BY <1>1, Invariance, PTL

-----------------------------------------------------------------------------
(* What the parts of InvH depend on                                        *)

\* Who is subscribed on the bus.
LEMMA SubsFrame ==
  ASSUME SubsOwned, UNCHANGED <<busSubs, entry, serves, cancelled>>
  PROVE  SubsOwned'
BY DEF SubsOwned

\* A closed bus has no subscriptions.
LEMMA ClosedFrame ==
  ASSUME ClosedEmpty, busClosed' => busClosed,
         \A p \in Post : busSubs'[p] \subseteq busSubs[p]
  PROVE  ClosedEmpty'
BY DEF ClosedEmpty

\* The fan-out under way.
LEMMA OfferedFrame ==
  ASSUME OfferedOnce,
         busOffering' = {} \/
         UNCHANGED <<busOffering, busSubs, busLast, busLog, serves, arrived>>
  PROVE  OfferedOnce'
BY DEF OfferedOnce

\* The logs of the bus.
LEMMA LogsFrame ==
  ASSUME LogsOrdered, UNCHANGED <<busLog, busLast, serves, arrived>>,
         \A s \in Sub : busChan'[s] = "free" => busChan[s] = "free"
  PROVE  LogsOrdered'
BY DEF LogsOrdered

\* What the bridges have in their hands.
LEMMA HandsFrame ==
  ASSUME HandsCurrent, UNCHANGED <<busLog, busRd, bridge, hand>>
  PROVE  HandsCurrent'
BY DEF HandsCurrent

\* What the connections were sent.
LEMMA SentFrame ==
  ASSUME SentOnward, UNCHANGED <<localLog, busLog, busRd, bridge, serves, viewing>>
  PROVE  SentOnward'
BY DEF SentOnward, Published

\* When the connections began to watch.
LEMMA SinceFrame ==
  ASSUME SinceKnown, UNCHANGED <<localLog, busLast, since>>,
         \A c \in Conn : pc'[c] \in {"idle", "acquiring", "registering"} =>
            pc[c] \in {"idle", "acquiring", "registering"},
         \A p \in Post : storeSubs'[p] \subseteq storeSubs[p]
  PROVE  SinceKnown'
BY DEF SinceKnown

\* What the old bridges have.
LEMMA OldFrame ==
  ASSUME OldLogsSeen, HubOpen' => HubOpen, UNCHANGED <<serves, busLog, since, entry>>,
         \A p \in Post : storeSubs'[p] \subseteq storeSubs[p]
  PROVE  OldLogsSeen'
BY DEF OldLogsSeen

\* A step of handlers or main that leaves bus, bridges and logs alone.
LEMMA QuietStep ==
  ASSUME InvH, Inv', UNCHANGED <<busVars, entry, bridgeVars, localLog, viewing, arrived, since>>,
         HubOpen' => HubOpen,
         \A c \in Conn : pc'[c] \in {"idle", "acquiring", "registering"} =>
            pc[c] \in {"idle", "acquiring", "registering"},
         \A p \in Post : storeSubs'[p] \subseteq storeSubs[p]
  PROVE  InvH'
<1>1. UNCHANGED <<busSubs, busChan, busLog, busRd, busLast, busOffering, busClosed, bridge, hand,
                  serves, cancelled>>
  BY DEF busVars, bridgeVars
<1>2. HistoryTypeOK'
  BY DEF InvH, HistoryTypeOK
<1> QED BY <1>1, <1>2, SubsFrame, ClosedFrame, OfferedFrame, LogsFrame, HandsFrame, SentFrame,
   SinceFrame, OldFrame DEF InvH

\* The quiet steps of a handler: it goes from one place of its code to the next
\* and perhaps leaves the store.
LEMMA QuietHandler ==
  ASSUME InvH, Inv', UNCHANGED <<arrived, since>>, NEW c \in Conn,
         \/ Reject(c) \/ AcquireNext(c) \/ AcquireFail(c) \/ Deliver(c) \/ SeeGone(c)
         \/ SeeClosed(c) \/ ReleaseUnregister(c) \/ ReleaseKeep(c) \/ Disconnect(c)
  PROVE  InvH'
<1>1. UNCHANGED <<busVars, entry, bridgeVars, viewing, main>>
  BY DEF Reject, AcquireNext, AcquireFail, Deliver, SeeGone, SeeClosed, ReleaseUnregister,
     ReleaseKeep, Disconnect, hubVars
<1>2. localLog' = localLog /\ \A p \in Post : storeSubs'[p] \subseteq storeSubs[p]
  <2>1. CASE UNCHANGED storeVars
    BY <2>1 DEF storeVars
  <2>2. CASE Deliver(c)
    BY <2>2 DEF Deliver, Store!Receive
  <2>3. CASE ReleaseUnregister(c)
    BY <2>3 DEF ReleaseUnregister, Store!Unsubscribe, InvH, Inv, TypeOK
  <2> QED BY <2>1, <2>2, <2>3 DEF Reject, AcquireNext, AcquireFail, SeeGone, SeeClosed,
     ReleaseKeep, Disconnect
<1>3. \A d \in Conn : pc'[d] \in {"idle", "acquiring", "registering"} =>
         pc[d] \in {"idle", "acquiring", "registering"}
  <2>1. \/ pc' = pc
        \/ \E v \in {"releasing", "unregistered", "done"} : pc' = [pc EXCEPT ![c] = v]
        \/ pc[c] = "acquiring" /\ pc' = [pc EXCEPT ![c] = "registering"]
    BY DEF Reject, AcquireNext, AcquireFail, Deliver, SeeGone, SeeClosed, ReleaseUnregister,
       ReleaseKeep, Disconnect
  <2>2. pc \in [Conn -> {"idle", "acquiring", "registering", "streaming",
                         "releasing", "unregistered", "done"}]
    BY DEF InvH, Inv, TypeOK
  <2> QED BY <2>1, <2>2
<1>4. HubOpen' = HubOpen
  BY <1>1 DEF HubOpen
<1> QED BY <1>1, <1>2, <1>3, <1>4, QuietStep

\* The quiet steps of main.
LEMMA QuietMain ==
  ASSUME InvH, Inv', UNCHANGED <<arrived, since>>,
         Signal \/ ShutdownDrained \/ ShutdownTimeout \/ HubCloseLock \/ Exit
  PROVE  InvH'
<1>1. UNCHANGED <<busVars, storeVars, entry, bridgeVars, connVars>>
  BY DEF Signal, ShutdownDrained, ShutdownTimeout, HubCloseLock, Exit, hubVars
<1>2. UNCHANGED <<storeSubs, localLog, pc, viewing>>
  BY <1>1 DEF storeVars, connVars
<1>3. HubOpen' => HubOpen
  BY DEF Signal, ShutdownDrained, ShutdownTimeout, HubCloseLock, Exit, HubOpen
<1> QED BY <1>1, <1>2, <1>3, QuietStep

\* A message more in a log.
LEMMA RanAppend ==
  ASSUME NEW q \in Seq(1..MaxMsg), NEW n \in 1..MaxMsg
  PROVE  /\ Append(q, n) \in Seq(1..MaxMsg) /\ Len(Append(q, n)) = Len(q) + 1
         /\ \A i \in 1..Len(q) : Append(q, n)[i] = q[i]
         /\ Append(q, n)[Len(q) + 1] = n
         /\ Ran(Append(q, n)) = Ran(q) \cup {n}
<1>1. /\ Append(q, n) \in Seq(1..MaxMsg) /\ Len(Append(q, n)) = Len(q) + 1
      /\ \A i \in 1..Len(q) : Append(q, n)[i] = q[i]
      /\ Append(q, n)[Len(q) + 1] = n
  OBVIOUS
<1>2. Ran(Append(q, n)) = Ran(q) \cup {n}
  BY DEF Ran
<1> QED BY <1>1, <1>2

-----------------------------------------------------------------------------
(* Handlers                                                                *)

\* The connection was sent nothing yet.
LEMMA RequestH ==
  ASSUME InvH, Inv', UNCHANGED <<arrived, since>>, NEW c \in Conn, NEW p \in Post,
         Request(c, p)
  PROVE  InvH'
<1>1. /\ pc[c] = "idle" /\ pc' = [pc EXCEPT ![c] = "acquiring"]
      /\ viewing' = [viewing EXCEPT ![c] = p]
      /\ UNCHANGED <<busVars, storeVars, hubVars, bridgeVars, gone, main>>
  BY DEF Request
<1>2. UNCHANGED <<busSubs, busChan, busLog, busRd, busLast, busOffering, busClosed, storeSubs,
                  localLog, entry, bridge, hand, serves, cancelled>>
  BY <1>1 DEF busVars, storeVars, hubVars, bridgeVars
<1>3. HistoryTypeOK' /\ HubOpen' = HubOpen
  BY <1>1 DEF InvH, HistoryTypeOK, HubOpen
<1>4. \A d \in Conn : d # c => viewing'[d] = viewing[d]
  BY <1>1 DEF InvH, Inv, TypeOK
<1>5. localLog[c] = << >>
  BY <1>1 DEF InvH, SinceKnown
<1>6. SentOnward'
  <2>1. \A d \in Conn : \A m \in Ran(localLog[d]) : d # c
    BY <1>5 DEF Ran
  <2> QED BY <2>1, <1>2, <1>4 DEF InvH, SentOnward, Published
<1>7. SinceKnown'
  BY <1>1, <1>2, SinceFrame DEF InvH, Inv, TypeOK
<1> QED BY <1>2, <1>3, <1>6, <1>7, SubsFrame, ClosedFrame, OfferedFrame, LogsFrame, HandsFrame,
   OldFrame DEF InvH

\* A post without an entry has no viewers, while the hub is open.
LEMMA NoEntryNoViewers ==
  ASSUME Inv, HubOpen, NEW p \in Post, entry[p] = None
  PROVE  storeSubs[p] = {}
<1>1. Cardinality(storeSubs[p]) + (IF Leaving(p) = {} THEN 0 ELSE 1) = 0
  BY DEF Inv, RefsConsistent
<1>2. Cardinality(storeSubs[p]) = 0
  BY <1>1, Viewers
<1> QED BY <1>2, Viewers, FS_EmptySet

\* The Go channel is new; nobody views the post.
LEMMA AcquireFirstH ==
  ASSUME InvH, Inv', UNCHANGED <<arrived, since>>, NEW c \in Conn, NEW s \in Sub,
         AcquireFirst(c, s)
  PROVE  InvH'
<1> DEFINE p == viewing[c]
<1>1. /\ pc[c] = "acquiring" /\ entry[p] = None /\ Bus!Subscribe(p, s)
      /\ entry' = [entry EXCEPT ![p] = s] /\ bridge' = [bridge EXCEPT ![s] = "select"]
      /\ serves' = [serves EXCEPT ![s] = p] /\ pc' = [pc EXCEPT ![c] = "registering"]
      /\ UNCHANGED <<storeVars, hand, cancelled, viewing, main>>
  BY DEF AcquireFirst
<1>2. p \in Post
  BY <1>1, Views DEF InvH
<1>3. /\ busOffering = {} /\ busChan[s] = "free"
      /\ busChan' = [busChan EXCEPT ![s] = "open"]
      /\ busSubs' = [busSubs EXCEPT ![p] = @ \cup {s}]
      /\ ~busClosed /\ UNCHANGED <<busLog, busRd, busLast, busOffering, busClosed>>
  BY <1>1 DEF Bus!Subscribe
<1>4. UNCHANGED <<storeSubs, localLog>>
  BY <1>1 DEF storeVars
<1>5. s \notin cancelled /\ bridge[s] = "none" /\ (\A q \in Post : entry[q] # s)
      /\ busLog[s] = << >>
  BY <1>3 DEF InvH, Inv, BusConsistent, LogsOrdered
<1>6. \A q \in Post : /\ entry'[q] = IF q = p THEN s ELSE entry[q]
                      /\ busSubs'[q] = IF q = p THEN busSubs[p] \cup {s} ELSE busSubs[q]
  BY <1>1, <1>3 DEF InvH, Inv, TypeOK
<1>7. \A t \in Sub : /\ bridge'[t] = IF t = s THEN "select" ELSE bridge[t]
                     /\ serves'[t] = IF t = s THEN p ELSE serves[t]
                     /\ busChan'[t] = IF t = s THEN "open" ELSE busChan[t]
  BY <1>1, <1>3 DEF InvH, Inv, TypeOK
<1>8. SubsOwned'
  <2>1. busSubs[p] = {}
    BY <1>1, <1>2, FeedHubAssumption DEF InvH, SubsOwned, Inv, TypeOK
  <2>2. \A q \in Post : busSubs'[q] \subseteq {entry'[q]} \ cancelled'
    BY <2>1, <1>1, <1>5, <1>6 DEF InvH, SubsOwned
  <2>3. ASSUME NEW q \in Post, entry'[q] # None PROVE serves'[entry'[q]] = q
    <3>1. CASE q = p
      BY <3>1, <1>2, <1>6, <1>7
    <3>2. CASE q # p
      <4>1. entry'[q] = entry[q] /\ entry[q] \in Sub /\ entry[q] # s
        BY <3>2, <2>3, <1>5, <1>6 DEF InvH, Inv, TypeOK
      <4> QED BY <4>1, <2>3, <1>7 DEF InvH, SubsOwned
    <3> QED BY <3>1, <3>2
  <2> QED BY <2>2, <2>3 DEF SubsOwned
<1>9. LogsOrdered'
  BY <1>3, <1>5, <1>7 DEF InvH, LogsOrdered, Ran
<1>10. HandsCurrent'
  BY <1>1, <1>3, <1>7 DEF InvH, HandsCurrent
<1>11. SentOnward'
  <2> SUFFICES ASSUME NEW d \in Conn, NEW m \in Ran(localLog[d])
               PROVE  \E t \in Sub : serves'[t] = viewing[d] /\
                         \E i \in 1..Published(t)' : busLog[t][i] = m
    BY <1>1, <1>3, <1>4 DEF SentOnward
  <2>1. PICK t \in Sub : serves[t] = viewing[d] /\ \E i \in 1..Published(t) : busLog[t][i] = m
    BY DEF InvH, SentOnward
  <2>2. t # s
    <3>1. busRd[s] = 0
      <4>1. busRd[s] \in Nat /\ busRd[s] <= Len(busLog[s])
        BY DEF InvH, HandsCurrent, Inv, TypeOK
      <4>2. Len(busLog[s]) = 0
        BY <1>5
      <4> QED BY <4>1, <4>2
    <3> QED BY <3>1, <2>1, <1>5 DEF Published
  <2> QED BY <2>1, <2>2, <1>3, <1>7 DEF Published
<1>12. SinceKnown'
  BY <1>1, <1>3, <1>4, SinceFrame DEF InvH, Inv, TypeOK
<1>13. OldLogsSeen'
  <2> SUFFICES ASSUME HubOpen, NEW q \in Post, NEW t \in Sub, serves'[t] = q, entry'[q] # t,
                      NEW d \in storeSubs[q], NEW m \in Ran(busLog[t])
               PROVE  m <= since[d]
    BY <1>1, <1>3, <1>4 DEF OldLogsSeen, HubOpen
  <2>1. q # p
    BY <1>1, <1>2, NoEntryNoViewers DEF InvH
  <2>2. t # s
    BY <2>1, <1>7
  <2> QED BY <2>1, <2>2, <1>6, <1>7 DEF InvH, OldLogsSeen
<1>14. HistoryTypeOK' /\ ClosedEmpty'
  BY <1>3 DEF InvH, HistoryTypeOK, ClosedEmpty
<1> QED BY <1>3, <1>8, <1>9, <1>10, <1>11, <1>12, <1>13, <1>14, OfferedFrame DEF InvH

\* The connection begins to watch after everything that is in the logs.
LEMMA AcquireRegisterH ==
  ASSUME InvH, Inv', arrived' = arrived, NEW c \in Conn, AcquireRegister(c),
         since' = [since EXCEPT ![c] = busLast]
  PROVE  InvH'
<1> DEFINE p == viewing[c]
<1>1. /\ pc[c] = "registering" /\ Store!Subscribe(p, c)
      /\ pc' = [pc EXCEPT ![c] = "streaming"]
      /\ UNCHANGED <<busVars, entry, bridgeVars, viewing, gone, main>>
  BY DEF AcquireRegister
<1>2. p \in Post
  BY <1>1, Views DEF InvH
<1>3. UNCHANGED <<busSubs, busChan, busLog, busRd, busLast, busOffering, busClosed, localLog,
                 bridge,
                  hand, serves, cancelled>>
      /\ storeSubs' = [storeSubs EXCEPT ![p] = @ \cup {c}]
  BY <1>1 DEF busVars, bridgeVars, Store!Subscribe
<1>4. busLast \in 0..MaxMsg
  BY DEF InvH, Inv, TypeOK
<1>5. HistoryTypeOK'
  BY <1>4 DEF InvH, HistoryTypeOK
<1>6. \A d \in Conn : since'[d] = IF d = c THEN busLast ELSE since[d]
  BY DEF InvH, HistoryTypeOK
<1>7. \A q \in Post : \A d \in storeSubs'[q] : d # c => d \in storeSubs[q] /\ d \in Conn
  <2>1. storeSubs \in [Post -> SUBSET Conn]
    BY DEF InvH, Inv, TypeOK
  <2> QED BY <2>1, <1>3
<1>8. SinceKnown'
  <2>1. ASSUME NEW d \in Conn, pc'[d] \in {"idle", "acquiring", "registering"}
        PROVE  since'[d] = None /\ localLog'[d] = << >>
    <3>1. d # c /\ pc[d] = pc'[d]
      BY <2>1, <1>1 DEF InvH, Inv, TypeOK
    <3> QED BY <3>1, <2>1, <1>3, <1>6 DEF InvH, SinceKnown
  <2>2. ASSUME NEW q \in Post, NEW d \in storeSubs'[q]
        PROVE  since'[d] \in 0..busLast'
    <3>1. CASE d = c
      BY <3>1, <1>3, <1>4, <1>6
    <3>2. CASE d # c
      <4>1. d \in storeSubs[q] /\ d \in Conn
        BY <3>2, <1>7
      <4> QED BY <4>1, <3>2, <1>3, <1>6 DEF InvH, SinceKnown
    <3> QED BY <3>1, <3>2
  <2> QED BY <2>1, <2>2 DEF SinceKnown
<1>9. OldLogsSeen'
  <2> SUFFICES ASSUME HubOpen, NEW q \in Post, NEW t \in Sub, serves[t] = q, entry[q] # t,
                      NEW d \in storeSubs'[q], NEW m \in Ran(busLog[t])
               PROVE  m <= since'[d]
    BY <1>1, <1>3 DEF OldLogsSeen, HubOpen
  <2>1. CASE d = c
    BY <2>1, <1>6 DEF InvH, LogsOrdered
  <2>2. CASE d # c
    <3>1. d \in storeSubs[q] /\ d \in Conn
      BY <2>2, <1>7
    <3> QED BY <3>1, <2>2, <1>6 DEF InvH, OldLogsSeen
  <2> QED BY <2>1, <2>2
<1> QED BY <1>1, <1>3, <1>5, <1>8, <1>9, SubsFrame, ClosedFrame, OfferedFrame, LogsFrame, HandsFrame,
   SentFrame DEF InvH

\* A release on the bus, by the last viewer or by Close, waits for the fan-out
\* that is under way; the subscriptions that remain are those of the entries.
LEMMA BusUnsubscribeH ==
  ASSUME InvH, NEW p \in Post, entry[p] # None, BusUnsubscribe(p)
  PROVE  /\ busOffering' = {} \/ UNCHANGED <<busOffering, busSubs>>
         /\ \A s \in Sub : busChan'[s] = "free" => busChan[s] = "free"
         /\ \A q \in Post : busSubs'[q] \subseteq busSubs[q]
         /\ busSubs'[p] = {}
         /\ UNCHANGED <<busLog, busRd, busLast>>
<1>1. \A s \in Sub : busChan'[s] = "free" => busChan[s] = "free"
  BY BusUnsubscribe_Consistent DEF InvH
<1>2. UNCHANGED <<busLog, busRd, busLast>>
  BY BusUnsubscribe_Consistent DEF InvH
<1>3. busSubs[p] \subseteq {entry[p]}
  BY DEF InvH, SubsOwned
<1>4. CASE Bus!Unsubscribe(p, entry[p])
  <2>1. busSubs' = [busSubs EXCEPT ![p] = @ \ {entry[p]}] /\ busOffering' = {}
    BY <1>4 DEF Bus!Unsubscribe
  <2> QED BY <2>1, <1>1, <1>2, <1>3 DEF InvH, Inv, TypeOK
<1>5. CASE (busClosed \/ entry[p] \notin busSubs[p]) /\ UNCHANGED busVars
  <2>1. busSubs' = busSubs /\ busOffering' = busOffering
    BY <1>5 DEF busVars
  <2>2. busClosed => busSubs[p] = {}
    BY DEF InvH, ClosedEmpty
  <2> QED BY <2>1, <2>2, <1>1, <1>2, <1>3, <1>5
<1> QED BY <1>4, <1>5 DEF BusUnsubscribe

\* The viewers are gone before the entry is.
LEMMA ReleaseLastH ==
  ASSUME InvH, Inv', UNCHANGED <<arrived, since>>, NEW c \in Conn, ReleaseLast(c)
  PROVE  InvH'
<1> DEFINE p == viewing[c]
<1>1. /\ pc[c] = "unregistered" /\ entry[p] # None /\ refs[p] <= 1
      /\ cancelled' = cancelled \cup {entry[p]} /\ BusUnsubscribe(p)
      /\ entry' = [entry EXCEPT ![p] = None] /\ pc' = [pc EXCEPT ![c] = "done"]
      /\ UNCHANGED <<storeVars, bridge, hand, serves, viewing, main>>
  BY DEF ReleaseLast
<1>2. p \in Post
  BY <1>1, Views DEF InvH
<1>3. /\ busOffering' = {} \/ UNCHANGED <<busOffering, busSubs>>
      /\ \A s \in Sub : busChan'[s] = "free" => busChan[s] = "free"
      /\ \A q \in Post : busSubs'[q] \subseteq busSubs[q]
      /\ busSubs'[p] = {}
      /\ UNCHANGED <<busLog, busRd, busLast>>
  BY <1>1, <1>2, BusUnsubscribeH
<1>4. UNCHANGED <<storeSubs, localLog>> /\ HubOpen' = HubOpen
  BY <1>1 DEF storeVars, HubOpen
<1>5. busClosed' = busClosed
  BY <1>1, <1>2, BusUnsubscribe_Consistent DEF InvH
<1>6. \A q \in Post : entry'[q] = IF q = p THEN None ELSE entry[q]
  BY <1>1 DEF InvH, Inv, TypeOK
<1>7. SubsOwned'
  <2>1. ASSUME NEW q \in Post, q # p PROVE busSubs'[q] \subseteq {entry'[q]} \ cancelled'
    <3>1. ASSUME NEW s \in busSubs'[q] PROVE s = entry[q] /\ s \notin cancelled /\ s # entry[p]
      <4>1. s \in busSubs[q] /\ serves[s] = q /\ s = entry[q] /\ s \notin cancelled
        BY <3>1, <1>3 DEF InvH, Inv, BusConsistent, SubsOwned
      <4>2. serves[entry[p]] = p
        BY <1>1, <1>2 DEF InvH, SubsOwned
      <4> QED BY <4>1, <4>2, <2>1
    <3> QED BY <3>1, <2>1, <1>1, <1>6
  <2>2. \A q \in Post : entry'[q] # None => serves'[entry'[q]] = q
    BY <1>1, <1>6 DEF InvH, SubsOwned
  <2> QED BY <2>1, <2>2, <1>3 DEF SubsOwned
<1>8. ClosedEmpty'
  BY <1>3, <1>5, ClosedFrame DEF InvH
<1>9. OfferedOnce'
  BY <1>1, <1>3, OfferedFrame DEF InvH
<1>10. LogsOrdered' /\ HandsCurrent' /\ SentOnward'
  BY <1>1, <1>3, <1>4, LogsFrame, HandsFrame, SentFrame DEF InvH
<1>11. SinceKnown'
  BY <1>1, <1>3, <1>4, SinceFrame DEF InvH, Inv, TypeOK
<1>12. HubOpen => storeSubs[p] = {}
  <2> SUFFICES ASSUME HubOpen PROVE storeSubs[p] = {}
    OBVIOUS
  <2>1. Leaving(p) # {}
    BY <1>1 DEF Leaving
  <2>2. refs[p] = Cardinality(storeSubs[p]) + 1
    BY <2>1, <1>2 DEF InvH, Inv, RefsConsistent
  <2>3. Cardinality(storeSubs[p]) = 0
    BY <2>2, <1>1, <1>2, Viewers DEF InvH
  <2> QED BY <2>3, <1>2, Viewers, FS_EmptySet DEF InvH
<1>13. OldLogsSeen'
  BY <1>1, <1>3, <1>4, <1>6, <1>12 DEF InvH, OldLogsSeen
<1>14. HistoryTypeOK'
  BY DEF InvH, HistoryTypeOK
<1> QED BY <1>7, <1>8, <1>9, <1>10, <1>11, <1>13, <1>14 DEF InvH

-----------------------------------------------------------------------------
(* Bridges                                                                 *)

\* The message a bridge receives is the next one, and not published yet.
LEMMA BridgeReceiveH ==
  ASSUME InvH, Inv', UNCHANGED <<arrived, since>>, NEW s \in Sub, BridgeReceive(s)
  PROVE  InvH'
<1>1. /\ bridge[s] = "select" /\ Bus!Receive(s)
      /\ hand' = [hand EXCEPT ![s] = busLog[s][busRd[s] + 1]]
      /\ bridge' = [bridge EXCEPT ![s] = "holding"]
      /\ UNCHANGED <<storeVars, hubVars, serves, cancelled, connVars, main>>
  BY DEF BridgeReceive
<1>2. /\ busRd[s] < Len(busLog[s]) /\ busRd' = [busRd EXCEPT ![s] = @ + 1]
      /\ UNCHANGED <<busSubs, busChan, busLog, busLast, busOffering, busClosed>>
  BY <1>1 DEF Bus!Receive
<1>3. UNCHANGED <<storeSubs, localLog, entry, pc, viewing>> /\ HubOpen' = HubOpen
  BY <1>1 DEF storeVars, hubVars, connVars, HubOpen
<1>4. \A t \in Sub : busRd[t] \in Nat
  BY DEF InvH, Inv, TypeOK
<1>5. \A t \in Sub : /\ busRd'[t] = IF t = s THEN busRd[s] + 1 ELSE busRd[t]
                     /\ bridge'[t] = IF t = s THEN "holding" ELSE bridge[t]
                     /\ hand'[t] = IF t = s THEN busLog[s][busRd[s] + 1] ELSE hand[t]
  BY <1>1, <1>2 DEF InvH, Inv, TypeOK
<1>6. HandsCurrent'
  <2> SUFFICES ASSUME NEW t \in Sub
               PROVE  /\ busRd'[t] <= Len(busLog[t])
                      /\ bridge'[t] = "holding" => busRd'[t] > 0 /\ hand'[t] = busLog[t][busRd'[t]]
    BY <1>2 DEF HandsCurrent
  <2>1. CASE t = s
    <3>1. Len(busLog[s]) \in Nat
      BY DEF InvH, Inv, TypeOK
    <3> QED BY <3>1, <2>1, <1>2, <1>4, <1>5
  <2>2. CASE t # s
    BY <2>2, <1>5 DEF InvH, HandsCurrent
  <2> QED BY <2>1, <2>2
<1>7. SentOnward'
  <2>1. \A t \in Sub : Published(t)' = Published(t)
    BY <1>1, <1>4, <1>5 DEF Published
  <2> QED BY <2>1, <1>1, <1>2, <1>3 DEF InvH, SentOnward
<1>8. HistoryTypeOK'
  BY DEF InvH, HistoryTypeOK
<1> QED BY <1>1, <1>2, <1>3, <1>6, <1>7, <1>8, SubsFrame, ClosedFrame, OfferedFrame,
   LogsFrame, SinceFrame, OldFrame DEF InvH

\* A bridge that stops has published what it received.
LEMMA BridgeStopH ==
  ASSUME InvH, Inv', UNCHANGED <<arrived, since>>, NEW s \in Sub, BridgeStop(s)
  PROVE  InvH'
<1>1. /\ bridge[s] = "select" /\ bridge' = [bridge EXCEPT ![s] = "done"]
      /\ UNCHANGED <<busVars, storeVars, hubVars, hand, serves, cancelled, connVars, main>>
  BY DEF BridgeStop
<1>2. UNCHANGED <<storeSubs, localLog, entry, pc, viewing, busSubs, busChan, busLog, busRd,
                  busLast, busOffering, busClosed>> /\ HubOpen' = HubOpen
  BY <1>1 DEF busVars, storeVars, hubVars, connVars, HubOpen
<1>3. \A t \in Sub : bridge'[t] = IF t = s THEN "done" ELSE bridge[t]
  BY <1>1 DEF InvH, Inv, TypeOK
<1>4. HandsCurrent'
  BY <1>1, <1>2, <1>3 DEF InvH, HandsCurrent
<1>5. SentOnward'
  <2>1. \A t \in Sub : Published(t)' = Published(t)
    BY <1>1, <1>2, <1>3 DEF Published
  <2> QED BY <2>1, <1>1, <1>2 DEF InvH, SentOnward
<1>6. HistoryTypeOK'
  BY DEF InvH, HistoryTypeOK
<1> QED BY <1>1, <1>2, <1>4, <1>5, <1>6, SubsFrame, ClosedFrame, OfferedFrame,
   LogsFrame, SinceFrame, OldFrame DEF InvH

\* What is sent on was held, and is published from now on.
LEMMA BridgePublishH ==
  ASSUME InvH, Inv', UNCHANGED <<arrived, since>>, NEW s \in Sub, BridgePublish(s)
  PROVE  InvH'
<1> DEFINE n == hand[s]
<1>1. /\ bridge[s] = "holding" /\ Store!Publish(serves[s], n)
      /\ bridge' = [bridge EXCEPT ![s] = "select"] /\ hand' = [hand EXCEPT ![s] = 0]
      /\ UNCHANGED <<busVars, hubVars, serves, cancelled, connVars, main>>
  BY DEF BridgePublish
<1>2. UNCHANGED <<entry, pc, viewing, busSubs, busChan, busLog, busRd,
                  busLast, busOffering, busClosed>> /\ HubOpen' = HubOpen
  BY <1>1 DEF busVars, hubVars, connVars, HubOpen
<1>3. /\ storeSubs' = storeSubs
      /\ \A c \in Conn : localLog'[c] = localLog[c] \/
            (c \in storeSubs[serves[s]] /\ localLog'[c] = Append(localLog[c], n))
  BY <1>1 DEF Store!Publish
<1>4. busRd[s] \in 1..Len(busLog[s]) /\ n = busLog[s][busRd[s]] /\ serves[s] \in Post
      /\ n \in 1..MaxMsg
  <2>1. busRd[s] > 0 /\ busRd[s] <= Len(busLog[s]) /\ n = busLog[s][busRd[s]]
    BY <1>1 DEF InvH, HandsCurrent
  <2>2. busRd[s] \in Nat /\ busLog[s] \in Seq(1..MaxMsg)
    BY DEF InvH, Inv, TypeOK
  <2>3. busRd[s] \in 1..Len(busLog[s])
    BY <2>1, <2>2
  <2>4. n \in Ran(busLog[s])
    BY <2>1, <2>3 DEF Ran
  <2>5. n \in 1..MaxMsg
    BY <2>1, <2>2, <2>3, Element
  <2> QED BY <2>1, <2>3, <2>4, <2>5 DEF InvH, LogsOrdered
<1>5. \A t \in Sub : /\ bridge'[t] = IF t = s THEN "select" ELSE bridge[t]
                     /\ hand'[t] = IF t = s THEN 0 ELSE hand[t]
  BY <1>1 DEF InvH, Inv, TypeOK
<1>6. HandsCurrent'
  BY <1>1, <1>2, <1>5 DEF InvH, HandsCurrent
<1>7. \A c \in storeSubs[serves[s]] : /\ viewing[c] = serves[s]
                                      /\ pc[c] \in {"streaming", "releasing"}
  BY <1>4 DEF InvH, Inv, StoreConsistent
<1>8. \A t \in Sub : busRd[t] \in Nat
  BY DEF InvH, Inv, TypeOK
<1>9. SentOnward'
  <2> SUFFICES ASSUME NEW c \in Conn, NEW m \in Ran(localLog'[c])
               PROVE  \E t \in Sub : serves[t] = viewing[c] /\
                         \E i \in 1..Published(t)' : busLog[t][i] = m
    BY <1>1, <1>2 DEF SentOnward
  <2>1. m \in Ran(localLog[c]) \/ (c \in storeSubs[serves[s]] /\ m = n)
    <3>1. localLog[c] \in Seq(1..MaxMsg)
      BY DEF InvH, Inv, TypeOK
    <3>2. Ran(Append(localLog[c], n)) = Ran(localLog[c]) \cup {n}
      BY <3>1, <1>4, RanAppend
    <3> QED BY <3>2, <1>3
  <2>2. CASE m \in Ran(localLog[c])
    <3>1. PICK t \in Sub : serves[t] = viewing[c] /\ \E i \in 1..Published(t) : busLog[t][i] = m
      BY <2>2 DEF InvH, SentOnward
    <3>2. 1..Published(t) \subseteq 1..Published(t)'
      BY <1>2, <1>5, <1>8 DEF Published
    <3> QED BY <3>1, <3>2
  <2>3. CASE c \in storeSubs[serves[s]] /\ m = n
    <3>1. Published(s)' = busRd[s]
      BY <1>2, <1>5 DEF Published
    <3>2. busRd[s] \in 1..Published(s)' /\ busLog[s][busRd[s]] = m
      BY <3>1, <2>3, <1>4
    <3>3. serves[s] = viewing[c]
      BY <2>3, <1>7
    <3> QED BY <3>2, <3>3
  <2> QED BY <2>1, <2>2, <2>3
<1>10. SinceKnown'
  BY <1>1, <1>2, <1>3, <1>7 DEF InvH, SinceKnown
<1>11. HistoryTypeOK'
  BY DEF InvH, HistoryTypeOK
<1> QED BY <1>1, <1>2, <1>3, <1>6, <1>9, <1>10, <1>11, SubsFrame, ClosedFrame, OfferedFrame,
   LogsFrame, OldFrame DEF InvH

-----------------------------------------------------------------------------
(* Hub.Close and the end of the bus                                        *)

\* An entry is released and keeps its place.
LEMMA HubCloseEntryH ==
  ASSUME InvH, Inv', UNCHANGED <<arrived, since>>, NEW p \in Post, HubCloseEntry(p)
  PROVE  InvH'
<1>1. /\ entry[p] # None /\ cancelled' = cancelled \cup {entry[p]} /\ BusUnsubscribe(p)
      /\ UNCHANGED <<storeVars, hubVars, bridge, hand, serves, connVars, main>>
  BY DEF HubCloseEntry
<1>2. /\ busOffering' = {} \/ UNCHANGED <<busOffering, busSubs>>
      /\ \A s \in Sub : busChan'[s] = "free" => busChan[s] = "free"
      /\ \A q \in Post : busSubs'[q] \subseteq busSubs[q]
      /\ busSubs'[p] = {}
      /\ UNCHANGED <<busLog, busRd, busLast>>
  BY <1>1, BusUnsubscribeH
<1>3. UNCHANGED <<storeSubs, localLog, entry, pc, viewing>> /\ HubOpen' = HubOpen
  BY <1>1 DEF storeVars, hubVars, connVars, HubOpen
<1>4. busClosed' = busClosed
  BY <1>1, BusUnsubscribe_Consistent DEF InvH
<1>5. SubsOwned'
  <2>1. ASSUME NEW q \in Post, q # p, NEW s \in busSubs'[q]
        PROVE  s = entry[q] /\ s \notin cancelled /\ s # entry[p]
    <3>1. serves[s] = q /\ s = entry[q] /\ s \notin cancelled
      BY <2>1, <1>2 DEF InvH, Inv, BusConsistent, SubsOwned
    <3>2. serves[entry[p]] = p
      BY <1>1 DEF InvH, SubsOwned
    <3> QED BY <3>1, <3>2, <2>1
  <2>2. \A q \in Post : busSubs'[q] \subseteq {entry[q]} \ cancelled'
    BY <2>1, <1>1, <1>2
  <2> QED BY <2>2, <1>1, <1>3 DEF InvH, SubsOwned
<1>6. OfferedOnce' /\ ClosedEmpty'
  BY <1>1, <1>2, <1>4, OfferedFrame, ClosedFrame DEF InvH
<1>7. HistoryTypeOK'
  BY DEF InvH, HistoryTypeOK
<1> QED BY <1>1, <1>2, <1>3, <1>5, <1>6, <1>7, LogsFrame, HandsFrame, SentFrame,
   SinceFrame, OldFrame DEF InvH

\* The entries go, and all connections leave the store.
LEMMA HubCloseStoreH ==
  ASSUME InvH, Inv', UNCHANGED <<arrived, since>>, HubCloseStore
  PROVE  InvH'
<1>1. /\ main = "closing" /\ main' = "busclose" /\ entry' = [p \in Post |-> None]
      /\ \A p \in Post : entry[p] # None => entry[p] \in cancelled
      /\ Store!Close /\ UNCHANGED <<busVars, bridgeVars, connVars>>
  BY DEF HubCloseStore
<1>2. UNCHANGED <<busSubs, busChan, busLog, busRd, busLast, busOffering, busClosed, bridge,
                  hand, serves, cancelled, pc, viewing>>
  BY <1>1 DEF busVars, bridgeVars, connVars
<1>3. storeSubs' = [p \in Post |-> {}] /\ localLog' = localLog /\ ~HubOpen'
  BY <1>1 DEF Store!Close, HubOpen
<1>4. SubsOwned'
  <2>1. \A p \in Post : busSubs[p] = {}
    BY <1>1, FeedHubAssumption DEF InvH, SubsOwned, Inv, TypeOK
  <2> QED BY <2>1, <1>1, <1>2 DEF SubsOwned
<1>5. SinceKnown' /\ OldLogsSeen'
  BY <1>2, <1>3 DEF InvH, SinceKnown, OldLogsSeen
<1>6. HistoryTypeOK'
  BY DEF InvH, HistoryTypeOK
<1> QED BY <1>2, <1>3, <1>4, <1>5, <1>6, ClosedFrame, OfferedFrame, LogsFrame, HandsFrame,
   SentFrame DEF InvH

\* The bus ends between two fan-outs.
LEMMA BusCloseH ==
  ASSUME InvH, Inv', UNCHANGED <<arrived, since>>, BusClose
  PROVE  InvH'
<1>1. Bus!Close /\ UNCHANGED <<storeVars, hubVars, bridgeVars, connVars, main>>
  BY DEF BusClose
<1>2. /\ busOffering' = {} /\ busSubs' = [p \in Post |-> {}]
      /\ \A s \in Sub : busChan'[s] = "free" => busChan[s] = "free"
      /\ UNCHANGED <<busLog, busRd, busLast>>
  BY <1>1 DEF Bus!Close
<1>3. UNCHANGED <<storeSubs, localLog, entry, pc, viewing, bridge, hand, serves, cancelled>>
      /\ HubOpen' = HubOpen
  BY <1>1 DEF storeVars, hubVars, connVars, bridgeVars, HubOpen
<1>4. SubsOwned' /\ ClosedEmpty'
  BY <1>2, <1>3 DEF InvH, SubsOwned, ClosedEmpty
<1>5. HistoryTypeOK'
  BY DEF InvH, HistoryTypeOK
<1> QED BY <1>2, <1>3, <1>4, <1>5, OfferedFrame, LogsFrame, HandsFrame, SentFrame,
   SinceFrame, OldFrame DEF InvH

-----------------------------------------------------------------------------
(* Messages                                                                *)

\* A message with a new number is offered to the one subscription of its post.
LEMMA ArriveHStep ==
  ASSUME InvH, Inv', NEW p \in Post, ArriveH(p)
  PROVE  InvH'
<1>1. /\ busLast < MaxMsg /\ Bus!Arrive(p, busLast + 1)
      /\ arrived' = [arrived EXCEPT ![p] = @ \cup {busLast'}] /\ since' = since
      /\ UNCHANGED <<storeVars, hubVars, bridgeVars, connVars, main>>
  BY DEF ArriveH, Arrive
<1>2. /\ busLast' = busLast + 1 /\ busOffering' = busSubs[p]
      /\ UNCHANGED <<busSubs, busChan, busLog, busRd, busClosed>>
  BY <1>1 DEF Bus!Arrive
<1>3. UNCHANGED <<storeSubs, localLog, entry, pc, viewing, bridge, hand, serves, cancelled>>
      /\ HubOpen' = HubOpen
  BY <1>1 DEF storeVars, hubVars, connVars, bridgeVars, HubOpen
<1>4. busLast \in 0..MaxMsg /\ busLast' \in 1..MaxMsg
  BY <1>1, <1>2, FeedHubAssumption DEF InvH, Inv, TypeOK
<1>5. \A q \in Post : arrived[q] \subseteq arrived'[q]
  BY <1>1 DEF InvH, HistoryTypeOK
<1>6. busLast' \in arrived'[p]
  BY <1>1 DEF InvH, HistoryTypeOK
<1>7. \A s \in Sub : \A m \in Ran(busLog[s]) : m \in 1..MaxMsg /\ m <= busLast
  <2> SUFFICES ASSUME NEW s \in Sub, NEW m \in Ran(busLog[s])
               PROVE  m \in 1..MaxMsg /\ m <= busLast
    OBVIOUS
  <2>1. PICK i \in 1..Len(busLog[s]) : m = busLog[s][i]
    BY DEF Ran
  <2>2. busLog[s] \in Seq(1..MaxMsg)
    BY DEF InvH, Inv, TypeOK
  <2>3. m \in 1..MaxMsg
    BY <2>1, <2>2, Element
  <2> QED BY <2>3 DEF InvH, LogsOrdered
<1>8. OfferedOnce'
  <2>1. ASSUME NEW s \in busSubs[p]
        PROVE  serves[s] = p /\ busSubs[p] = {s}
    BY <2>1 DEF InvH, Inv, BusConsistent, SubsOwned
  <2>2. \A t \in Sub : busLast' \notin Ran(busLog[t])
    BY <1>2, <1>4, <1>7
  <2> QED BY <2>1, <2>2, <1>2, <1>3, <1>6 DEF OfferedOnce
<1>9. LogsOrdered'
  <2>1. \A s \in Sub : \A m \in Ran(busLog[s]) : m <= busLast'
    BY <1>2, <1>4, <1>7
  <2> QED BY <2>1, <1>2, <1>3, <1>5 DEF InvH, LogsOrdered
<1>10. SinceKnown'
  <2>1. 0..busLast \subseteq 0..busLast'
    BY <1>2, <1>4
  <2> QED BY <2>1, <1>1, <1>3 DEF InvH, SinceKnown
<1>11. HistoryTypeOK'
  BY <1>1, <1>4 DEF InvH, HistoryTypeOK
<1> QED BY <1>1, <1>2, <1>3, <1>8, <1>9, <1>10, <1>11, SubsFrame, ClosedFrame, HandsFrame,
   SentFrame, OldFrame DEF InvH

\* The message is the last of its log, and the subscription that of an entry.
LEMMA OfferH ==
  ASSUME InvH, Inv', UNCHANGED <<arrived, since>>, NEW s \in Sub, Offer(s)
  PROVE  InvH'
<1>1. Bus!Offer(s) /\ UNCHANGED <<storeVars, hubVars, bridgeVars, connVars, main>>
  BY DEF Offer
<1>2. /\ s \in busOffering /\ busOffering' = busOffering \ {s}
      /\ busLog' = busLog \/ busLog' = [busLog EXCEPT ![s] = Append(busLog[s], busLast)]
      /\ UNCHANGED <<busSubs, busChan, busRd, busLast, busClosed>>
  BY <1>1 DEF Bus!Offer
<1>3. UNCHANGED <<storeSubs, localLog, entry, pc, viewing, bridge, hand, serves, cancelled>>
      /\ HubOpen' = HubOpen
  BY <1>1 DEF storeVars, hubVars, connVars, bridgeVars, HubOpen
<1>4. /\ busOffering' = {} /\ serves[s] \in Post /\ s \in busSubs[serves[s]]
      /\ busLast \in arrived[serves[s]] /\ \A t \in Sub : busLast \notin Ran(busLog[t])
  BY <1>2 DEF InvH, OfferedOnce
<1>5. SubsOwned' /\ ClosedEmpty' /\ OfferedOnce' /\ HistoryTypeOK' /\ SinceKnown'
  BY <1>2, <1>3, <1>4, SubsFrame, ClosedFrame, OfferedFrame, SinceFrame DEF InvH,
     HistoryTypeOK
<1>6. CASE busLog' = busLog
  BY <1>2, <1>3, <1>5, <1>6, LogsFrame, HandsFrame, SentFrame, OldFrame DEF InvH
<1>7. CASE busLog' = [busLog EXCEPT ![s] = Append(busLog[s], busLast)]
  <2> DEFINE q == busLog[s]
  <2>1. q \in Seq(1..MaxMsg) /\ Len(q) \in Nat /\ busLast \in 1..MaxMsg
    BY <1>2, FeedHubAssumption DEF InvH, Inv, TypeOK, BusConsistent
  <2>2. /\ busLog'[s] = Append(q, busLast) /\ Len(busLog'[s]) = Len(q) + 1
        /\ \A i \in 1..Len(q) : busLog'[s][i] = q[i]
        /\ busLog'[s][Len(q) + 1] = busLast
        /\ Ran(busLog'[s]) = Ran(q) \cup {busLast}
    BY <1>7, <2>1, RanAppend DEF InvH, Inv, TypeOK
  <2>3. \A t \in Sub \ {s} : busLog'[t] = busLog[t]
    BY <1>7 DEF InvH, Inv, TypeOK
  <2>4. busChan[s] = "open"
    BY <1>4 DEF InvH, Inv, BusConsistent
  <2>5. \A i \in 1..Len(q) : q[i] < busLast
    <3> SUFFICES ASSUME NEW i \in 1..Len(q) PROVE q[i] < busLast
      OBVIOUS
    <3>1. q[i] \in Ran(q) /\ q[i] \in 1..MaxMsg
      BY <2>1, Element DEF Ran
    <3>2. q[i] <= busLast /\ q[i] # busLast
      BY <3>1, <1>4 DEF InvH, LogsOrdered
    <3> QED BY <3>1, <3>2, <2>1
  <2>6. LogsOrdered'
    <3>1. ASSUME NEW i \in 1..Len(busLog'[s]), NEW j \in 1..Len(busLog'[s]), i < j
          PROVE  busLog'[s][i] < busLog'[s][j]
      <4>1. i \in 1..Len(q) /\ (j \in 1..Len(q) \/ j = Len(q) + 1)
        BY <3>1, <2>1, <2>2
      <4>2. CASE j = Len(q) + 1
        BY <4>1, <4>2, <2>2, <2>5
      <4>3. CASE j \in 1..Len(q)
        BY <4>1, <4>3, <3>1, <2>2 DEF InvH, LogsOrdered
      <4> QED BY <4>1, <4>2, <4>3
    <3>2. ASSUME NEW t \in Sub, NEW m \in Ran(busLog'[t])
          PROVE  /\ serves[t] \in Post /\ m \in arrived[serves[t]] /\ m <= busLast
                 /\ \A r \in Sub \ {t} : m \notin Ran(busLog'[r])
      <4>1. CASE t = s /\ m = busLast
        BY <4>1, <1>4, <2>1, <2>3
      <4>2. CASE m \in Ran(busLog[t])
        <5>1. m # busLast
          BY <4>2, <1>4
        <5>2. \A r \in Sub \ {t} : m \notin Ran(busLog[r])
          BY <4>2 DEF InvH, LogsOrdered
        <5>3. \A r \in Sub \ {t} : m \notin Ran(busLog'[r])
          BY <5>1, <5>2, <2>2, <2>3
        <5> QED BY <4>2, <5>3 DEF InvH, LogsOrdered
      <4> QED BY <4>1, <4>2, <2>2, <2>3, <3>2
    <3>3. \A t \in Sub \ {s} : /\ busChan[t] = "free" => busLog'[t] = << >>
                               /\ \A i, j \in 1..Len(busLog'[t]) :
                                     i < j => busLog'[t][i] < busLog'[t][j]
      BY <2>3 DEF InvH, LogsOrdered
    <3> QED BY <3>1, <3>2, <3>3, <2>4, <1>2, <1>3 DEF LogsOrdered
  <2>7. \A t \in Sub : /\ busRd[t] \in Nat /\ busRd[t] <= Len(busLog[t])
                       /\ \A i \in 1..busRd[t] : busLog'[t][i] = busLog[t][i]
    <3>1. \A t \in Sub : /\ busRd[t] \in Nat /\ busRd[t] <= Len(busLog[t])
                         /\ Len(busLog[t]) \in Nat
      BY DEF InvH, HandsCurrent, Inv, TypeOK
    <3> QED BY <3>1, <2>2, <2>3
  <2>8. HandsCurrent'
    <3> SUFFICES ASSUME NEW t \in Sub
                 PROVE  /\ busRd[t] <= Len(busLog'[t])
                        /\ bridge[t] = "holding" => busRd[t] > 0 /\ hand[t] = busLog'[t][busRd[t]]
      BY <1>2, <1>3 DEF HandsCurrent
    <3>1. busRd[t] <= Len(busLog'[t])
      BY <2>1, <2>2, <2>3, <2>7
    <3>2. bridge[t] = "holding" => busRd[t] > 0 /\ hand[t] = busLog[t][busRd[t]]
      BY DEF InvH, HandsCurrent
    <3> QED BY <3>1, <3>2, <2>7
  <2>9. SentOnward'
    <3>1. \A t \in Sub : \A i \in 1..Published(t) : busLog'[t][i] = busLog[t][i]
      BY <2>7 DEF Published
    <3>2. \A t \in Sub : Published(t)' = Published(t)
      BY <1>2, <1>3 DEF Published
    <3> QED BY <3>1, <3>2, <1>3 DEF InvH, SentOnward
  <2>10. OldLogsSeen'
    <3>1. entry[serves[s]] = s
      BY <1>4 DEF InvH, SubsOwned
    <3> QED BY <3>1, <1>3, <2>3 DEF InvH, OldLogsSeen
  <2> QED BY <1>5, <2>6, <2>8, <2>9, <2>10 DEF InvH
<1> QED BY <1>2, <1>6, <1>7

-----------------------------------------------------------------------------
(* Every step                                                              *)

\* No connection begins to watch but in AcquireRegister.
LEMMA SinceSame ==
  ASSUME InvH, OtherH, \A c \in Conn : ~(pc[c] = "registering" /\ pc'[c] = "streaming")
  PROVE  since' = since
<1>1. since' = [c \in Conn |-> since[c]]
  BY DEF OtherH
<1> QED BY <1>1 DEF InvH, HistoryTypeOK

\* AcquireRegister is the one step by which a connection begins to watch.
LEMMA SinceRegister ==
  ASSUME InvH, OtherH, NEW c \in Conn, AcquireRegister(c)
  PROVE  since' = [since EXCEPT ![c] = busLast]
<1>1. pc[c] = "registering" /\ pc' = [pc EXCEPT ![c] = "streaming"]
  BY DEF AcquireRegister
<1>2. \A d \in Conn : (pc[d] = "registering" /\ pc'[d] = "streaming") <=> d = c
  BY <1>1 DEF InvH, Inv, TypeOK
<1>3. since' = [d \in Conn |-> IF d = c THEN busLast ELSE since[d]]
  BY <1>2 DEF OtherH
<1> QED BY <1>3 DEF InvH, HistoryTypeOK

\* The steps that neither begin to watch nor let a message arrive.
OtherStep ==
    \/ \E c \in Conn : \/ \E p \in Post : Request(c, p)
                       \/ \E s \in Sub : AcquireFirst(c, s)
                       \/ Reject(c) \/ AcquireNext(c) \/ AcquireFail(c) \/ Deliver(c)
                       \/ SeeGone(c) \/ SeeClosed(c) \/ ReleaseUnregister(c)
                       \/ ReleaseKeep(c) \/ Disconnect(c) \/ ReleaseLast(c)
    \/ \E s \in Sub : Bridge(s) \/ Offer(s)
    \/ Signal \/ HubCloseLock \/ MainStep

\* A step other than an arrival is one of those or AcquireRegister.
LEMMA OtherCases ==
  ASSUME InvH, OtherH
  PROVE  (\E c \in Conn : AcquireRegister(c)) \/ OtherStep
<1>1. ASSUME NEW p \in Post, Arrive(p) PROVE FALSE
  <2>1. busLast' = busLast + 1
    BY <1>1 DEF Arrive, Bus!Arrive
  <2> QED BY <2>1 DEF OtherH, InvH, Inv, TypeOK
<1>2. Next
  BY DEF OtherH
<1> QED BY <1>1, <1>2 DEF Next, OtherStep, HandlerLock, HandlerStep

\* They leave the history alone.
LEMMA OtherSince ==
  ASSUME InvH, OtherH, OtherStep
  PROVE  UNCHANGED <<arrived, since>>
<1>1. \/ pc' = pc
      \/ \E c \in Conn, v \in {"acquiring", "registering", "releasing", "unregistered", "done"} :
            pc' = [pc EXCEPT ![c] = v]
  BY DEF OtherStep, Request, AcquireFirst, Reject, AcquireNext, AcquireFail, Deliver, SeeGone,
     SeeClosed, ReleaseUnregister, ReleaseKeep, Disconnect, ReleaseLast, Bridge, BridgeReceive,
     BridgePublish, BridgeStop, Offer, Signal, HubCloseLock, MainStep, ShutdownDrained,
     ShutdownTimeout, HubCloseEntry, HubCloseStore, BusClose, Exit, connVars
<1>2. pc \in [Conn -> {"idle", "acquiring", "registering", "streaming",
                       "releasing", "unregistered", "done"}]
  BY DEF InvH, Inv, TypeOK
<1>3. \A c \in Conn : ~(pc[c] = "registering" /\ pc'[c] = "streaming")
  BY <1>1, <1>2
<1> QED BY <1>3, SinceSame DEF OtherH

\* InvH holds before a step, hence after it.
LEMMA NextStepH ==
  ASSUME InvH, [NextH]_varsH
  PROVE  InvH'
<1>1. [Next]_vars
  BY DEF NextH, ArriveH, OtherH, varsH, Next
<1>2. Inv'
  BY <1>1, NextStep DEF InvH
<1>3. ASSUME NEW p \in Post, ArriveH(p) PROVE InvH'
  BY <1>2, <1>3, ArriveHStep
<1>4. ASSUME OtherH, NEW c \in Conn, AcquireRegister(c) PROVE InvH'
  <2>1. arrived' = arrived
    BY <1>4 DEF OtherH
  <2> QED BY <2>1, <1>2, <1>4, SinceRegister, AcquireRegisterH
<1>5. ASSUME OtherH, OtherStep PROVE InvH'
  <2>1. UNCHANGED <<arrived, since>>
    BY <1>5, OtherSince
  <2>2. ASSUME NEW c \in Conn,
               \/ Reject(c) \/ AcquireNext(c) \/ AcquireFail(c) \/ Deliver(c)
               \/ SeeGone(c) \/ SeeClosed(c) \/ ReleaseUnregister(c)
               \/ ReleaseKeep(c) \/ Disconnect(c)
        PROVE  InvH'
    BY <2>1, <2>2, <1>2, QuietHandler
  <2>3. ASSUME NEW c \in Conn,
               \/ \E p \in Post : Request(c, p)
               \/ \E s \in Sub : AcquireFirst(c, s)
               \/ ReleaseLast(c)
        PROVE  InvH'
    BY <2>1, <2>3, <1>2, RequestH, AcquireFirstH, ReleaseLastH
  <2>4. ASSUME NEW s \in Sub, Bridge(s) \/ Offer(s) PROVE InvH'
    BY <2>1, <2>4, <1>2, BridgeReceiveH, BridgePublishH, BridgeStopH, OfferH DEF Bridge
  <2>5. CASE Signal \/ HubCloseLock \/ MainStep
    BY <2>1, <2>5, <1>2, QuietMain, HubCloseEntryH, HubCloseStoreH, BusCloseH DEF MainStep
  <2> QED BY <1>5, <2>2, <2>3, <2>4, <2>5 DEF OtherStep
<1>6. CASE UNCHANGED varsH
  <2>1. UNCHANGED <<busVars, entry, bridgeVars, localLog, viewing, arrived, since, storeSubs,
                    pc, main>>
    BY <1>6 DEF varsH, vars, storeVars, hubVars, connVars
  <2> QED BY <2>1, <1>2, QuietStep DEF HubOpen
<1> QED BY <1>3, <1>4, <1>5, <1>6, OtherCases DEF NextH

\* InvH holds in every reachable state: what the subscriptions were sent, what
\* bridges hold, and what connections were sent and since when they watch.
THEOREM DeliveryInvariance == SpecH => []InvH
<1>1. InitH => InvH
  <2> SUFFICES ASSUME InitH PROVE InvH
    OBVIOUS
  <2>1. Inv
    BY InitInv DEF InitH
  <2>2. HistoryTypeOK
    BY DEF InitH, HistoryTypeOK
  <2>3. \A s \in Sub : busLog[s] = << >> /\ Ran(busLog[s]) = {} /\ Len(busLog[s]) = 0
    BY DEF InitH, Init, Bus!Init, Ran
  <2>4. \A c \in Conn : Ran(localLog[c]) = {}
    BY DEF InitH, Init, Store!Init, Ran
  <2>5. LogsOrdered /\ SentOnward
    <3>1. \A s \in Sub : 1..Len(busLog[s]) = {}
      BY <2>3
    <3> QED BY <3>1, <2>3, <2>4 DEF LogsOrdered, SentOnward
  <2>6. HandsCurrent
    BY <2>3 DEF InitH, Init, Bus!Init, HandsCurrent
  <2>7. SubsOwned /\ ClosedEmpty /\ OfferedOnce /\ SinceKnown
    BY DEF InitH, Init, Bus!Init, Store!Init, SubsOwned, ClosedEmpty, OfferedOnce, SinceKnown
  <2>8. OldLogsSeen
    BY DEF InitH, Init, Store!Init, OldLogsSeen
  <2> QED BY <2>1, <2>2, <2>5, <2>6, <2>7, <2>8 DEF InvH
<1>2. InvH /\ [NextH]_varsH => InvH'
  BY NextStepH
<1> QED BY <1>1, <1>2, PTL DEF SpecH

-----------------------------------------------------------------------------
(* The promise is kept                                                     *)

\* A connection watches the post it is registered for.
LEMMA WatchingIs ==
  ASSUME Inv, NEW c \in Conn
  PROVE  /\ \A p \in Post : c \in storeSubs[p] => Watching(c) = p /\ viewing[c] = p
         /\ (\A p \in Post : c \notin storeSubs[p]) => Watching(c) = None
BY DEF Inv, StoreConsistent, Watching

\* A step that Feed does not see.
LEMMA Unseen ==
  ASSUME InvH, UNCHANGED <<arrived, since, busLast, storeSubs, localLog>>, HubOpen' = HubOpen,
         \A c \in Conn : (\E p \in Post : c \in storeSubs[p]) => viewing'[c] = viewing[c]
  PROVE  UNCHANGED Gateway!vars
<1>1. \A c \in Conn : Watching(c)' = Watching(c)
  BY DEF Watching
<1> QED BY <1>1 DEF Gateway!vars

\* The steps of the handlers that the browser does not see.
LEMMA HandlerUnseen ==
  ASSUME InvH, UNCHANGED <<arrived, since>>, NEW c \in Conn,
         \/ \E p \in Post : Request(c, p)
         \/ \E s \in Sub : AcquireFirst(c, s)
         \/ Reject(c) \/ AcquireNext(c) \/ AcquireFail(c) \/ Deliver(c) \/ SeeGone(c)
         \/ SeeClosed(c) \/ ReleaseKeep(c) \/ Disconnect(c) \/ ReleaseLast(c)
  PROVE  UNCHANGED Gateway!vars
<1>1. main' = main
  BY DEF Request, AcquireFirst, Reject, AcquireNext, AcquireFail, Deliver, SeeGone, SeeClosed,
     ReleaseKeep, Disconnect, ReleaseLast
<1>2. UNCHANGED <<storeSubs, localLog>>
  BY DEF Request, AcquireFirst, Reject, AcquireNext, AcquireFail, Deliver, SeeGone, SeeClosed,
     ReleaseKeep, Disconnect, ReleaseLast, storeVars, Store!Receive
<1>3. busLast' = busLast
  <2>1. CASE UNCHANGED busVars
    BY <2>1 DEF busVars
  <2>2. ASSUME NEW s \in Sub, AcquireFirst(c, s) PROVE busLast' = busLast
    BY <2>2 DEF AcquireFirst, Bus!Subscribe
  <2>3. ASSUME ReleaseLast(c) PROVE busLast' = busLast
    BY <2>3 DEF ReleaseLast, BusUnsubscribe, Bus!Unsubscribe, busVars
  <2> QED BY <2>1, <2>2, <2>3 DEF Request, Reject, AcquireNext, AcquireFail, Deliver, SeeGone,
     SeeClosed, ReleaseKeep, Disconnect
<1>4. viewing' = viewing \/ \E p \in Post : Request(c, p)
  BY DEF AcquireFirst, Reject, AcquireNext, AcquireFail, Deliver, SeeGone, SeeClosed,
     ReleaseKeep, Disconnect, ReleaseLast
<1>5. ASSUME NEW p \in Post, Request(c, p), NEW d \in Conn, NEW q \in Post, d \in storeSubs[q]
      PROVE  viewing'[d] = viewing[d]
  <2>1. d # c
    BY <1>5 DEF Request, InvH, Inv, StoreConsistent
  <2> QED BY <2>1, <1>5 DEF Request, InvH, Inv, TypeOK
<1>6. HubOpen' = HubOpen
  BY <1>1 DEF HubOpen
<1> QED BY <1>2, <1>3, <1>4, <1>5, <1>6, Unseen

\* The steps of bridges, bus and main that the browsers do not see.
LEMMA RestUnseen ==
  ASSUME InvH, UNCHANGED <<arrived, since>>,
         \/ \E s \in Sub : BridgeReceive(s) \/ BridgeStop(s) \/ Offer(s)
         \/ \E p \in Post : HubCloseEntry(p)
         \/ Signal \/ ShutdownDrained \/ ShutdownTimeout \/ BusClose \/ Exit
  PROVE  UNCHANGED Gateway!vars
<1>1. UNCHANGED <<storeVars, connVars>>
  BY DEF BridgeReceive, BridgeStop, Offer, HubCloseEntry, Signal, ShutdownDrained,
     ShutdownTimeout, BusClose, Exit
<1>2. UNCHANGED <<storeSubs, localLog, viewing>>
  BY <1>1 DEF storeVars, connVars
<1>3. busLast' = busLast
  <2>1. ASSUME NEW p \in Post, HubCloseEntry(p) PROVE busLast' = busLast
    BY <2>1 DEF HubCloseEntry, BusUnsubscribe, Bus!Unsubscribe, busVars
  <2> QED BY <2>1 DEF BridgeReceive, BridgeStop, Offer, Signal, ShutdownDrained,
     ShutdownTimeout, BusClose, Exit, busVars, Bus!Receive, Bus!Offer, Bus!Close
<1>4. HubOpen' = HubOpen
  BY DEF BridgeReceive, BridgeStop, Offer, HubCloseEntry, Signal, ShutdownDrained,
     ShutdownTimeout, BusClose, Exit, HubOpen
<1> QED BY <1>2, <1>3, <1>4, Unseen

\* A connection begins to watch when it is registered.
LEMMA RegisterWatches ==
  ASSUME InvH, Inv', OtherH, NEW c \in Conn, AcquireRegister(c)
  PROVE  Gateway!Watch(c, viewing[c])
<1> DEFINE p == viewing[c]
<1>1. /\ pc[c] = "registering" /\ Store!Subscribe(p, c)
      /\ UNCHANGED <<busVars, viewing, main>> /\ arrived' = arrived
  BY DEF AcquireRegister, OtherH
<1>2. p \in Post /\ since[c] = None
  BY <1>1, Views DEF InvH, SinceKnown
<1>3. since' = [since EXCEPT ![c] = busLast]
  BY SinceRegister
<1>4. storeSubs' = [storeSubs EXCEPT ![p] = @ \cup {c}] /\ localLog' = localLog
  BY <1>1 DEF Store!Subscribe
<1>5. busLast' = busLast /\ HubOpen' = HubOpen
  BY <1>1 DEF busVars, HubOpen
<1>6. \A q \in Post : storeSubs'[q] = IF q = p THEN storeSubs[p] \cup {c} ELSE storeSubs[q]
  BY <1>4 DEF InvH, Inv, TypeOK
<1>7. \A d \in Conn : Watching(d)' = IF d = c THEN p ELSE Watching(d)
  <2> SUFFICES ASSUME NEW d \in Conn
               PROVE  Watching(d)' = IF d = c THEN p ELSE Watching(d)
    OBVIOUS
  <2>1. CASE d = c
    BY <2>1, <1>1, <1>2, <1>6 DEF Watching
  <2>2. CASE d # c
    <3>1. (\E q \in Post : d \in storeSubs'[q]) <=> (\E q \in Post : d \in storeSubs[q])
      BY <2>2, <1>6
    <3> QED BY <3>1, <2>2, <1>1 DEF Watching
  <2> QED BY <2>1, <2>2
<1>8. [d \in Conn |-> Watching(d)]' = [[d \in Conn |-> Watching(d)] EXCEPT ![c] = p]
  BY <1>7
<1> QED BY <1>1, <1>2, <1>3, <1>4, <1>5, <1>8 DEF Gateway!Watch

\* A connection leaves when it is unregistered.
LEMMA UnregisterLeaves ==
  ASSUME InvH, UNCHANGED <<arrived, since>>, NEW c \in Conn, ReleaseUnregister(c)
  PROVE  Gateway!Leave(c)
<1> DEFINE p == viewing[c]
<1>1. /\ pc[c] = "releasing" /\ Store!Unsubscribe(p, c)
      /\ UNCHANGED <<busVars, viewing, main>>
  BY DEF ReleaseUnregister
<1>2. p \in Post
  BY <1>1, Views DEF InvH
<1>3. storeSubs' = [storeSubs EXCEPT ![p] = @ \ {c}] /\ localLog' = localLog
  BY <1>1 DEF Store!Unsubscribe
<1>4. busLast' = busLast /\ HubOpen' = HubOpen
  BY <1>1 DEF busVars, HubOpen
<1>5. \A q \in Post : storeSubs'[q] = IF q = p THEN storeSubs[p] \ {c} ELSE storeSubs[q]
  BY <1>3 DEF InvH, Inv, TypeOK
<1>6. \A q \in Post : c \notin storeSubs'[q]
  BY <1>5 DEF InvH, Inv, StoreConsistent
<1>7. \A d \in Conn : Watching(d)' = IF d = c THEN None ELSE Watching(d)
  <2> SUFFICES ASSUME NEW d \in Conn
               PROVE  Watching(d)' = IF d = c THEN None ELSE Watching(d)
    OBVIOUS
  <2>1. CASE d = c
    BY <2>1, <1>6 DEF Watching
  <2>2. CASE d # c
    <3>1. (\E q \in Post : d \in storeSubs'[q]) <=> (\E q \in Post : d \in storeSubs[q])
      BY <2>2, <1>5
    <3> QED BY <3>1, <2>2, <1>1 DEF Watching
  <2> QED BY <2>1, <2>2
<1>8. [d \in Conn |-> Watching(d)]' = [[d \in Conn |-> Watching(d)] EXCEPT ![c] = None]
  BY <1>7
<1> QED BY <1>3, <1>4, <1>8 DEF Gateway!Leave

\* What a bridge holds was published by nobody, itself included, and the rest
\* of what its viewers were sent is older or came before they watched.
LEMMA HeldIsNew ==
  ASSUME InvH, NEW s \in Sub, bridge[s] = "holding",
         NEW c \in storeSubs[serves[s]], NEW k \in 1..Len(localLog[c])
  PROVE  /\ localLog[c][k] # hand[s]
         /\ HubOpen /\ hand[s] > since[c] => localLog[c][k] < hand[s]
<1> DEFINE n == hand[s]
           m == localLog[c][k]
<1>1. /\ busRd[s] \in Nat /\ busRd[s] > 0 /\ busRd[s] <= Len(busLog[s])
      /\ n = busLog[s][busRd[s]] /\ busLog[s] \in Seq(1..MaxMsg)
  BY DEF InvH, HandsCurrent, Inv, TypeOK
<1>2. busRd[s] \in 1..Len(busLog[s])
  BY <1>1
<1>3. n \in Ran(busLog[s]) /\ n \in 1..MaxMsg
  BY <1>1, <1>2, Element DEF Ran
<1>4. serves[s] \in Post
  BY <1>3 DEF InvH, LogsOrdered
<1>5. c \in Conn /\ viewing[c] = serves[s] /\ since[c] \in 0..busLast
  BY <1>4 DEF InvH, Inv, TypeOK, StoreConsistent, SinceKnown
<1>6. m \in Ran(localLog[c])
  BY DEF Ran
<1>7. PICK t \in Sub : serves[t] = viewing[c] /\ \E i \in 1..Published(t) : busLog[t][i] = m
  BY <1>5, <1>6 DEF InvH, SentOnward
<1>8. PICK i \in 1..Published(t) : busLog[t][i] = m
  BY <1>7
<1>9. busRd[t] \in Nat /\ busRd[t] <= Len(busLog[t]) /\ busLog[t] \in Seq(1..MaxMsg)
  BY DEF InvH, HandsCurrent, Inv, TypeOK
<1>10. i \in 1..Len(busLog[t]) /\ (t = s => i < busRd[s])
  BY <1>1, <1>9 DEF Published
<1>11. m \in Ran(busLog[t]) /\ m \in 1..MaxMsg
  BY <1>8, <1>9, <1>10, Element DEF Ran
<1>12. CASE t = s
  <2>1. m < n
    BY <1>1, <1>2, <1>8, <1>10, <1>12 DEF InvH, LogsOrdered
  <2> QED BY <2>1, <1>3, <1>11
<1>13. CASE t # s
  <2>1. m # n
    BY <1>3, <1>11, <1>13 DEF InvH, LogsOrdered
  <2>2. ASSUME HubOpen, n > since[c] PROVE m < n
    <3>1. entry[serves[s]] = s
      <4>1. SUFFICES ASSUME entry[serves[s]] # s PROVE FALSE
        OBVIOUS
      <4>2. n <= since[c]
        BY <4>1, <2>2, <1>3, <1>4 DEF InvH, OldLogsSeen
      <4> QED BY <4>2, <2>2, <1>3, <1>5
    <3>2. m <= since[c]
      BY <3>1, <2>2, <1>4, <1>5, <1>7, <1>11, <1>13 DEF InvH, OldLogsSeen
    <3> QED BY <3>2, <2>2, <1>3, <1>5, <1>11
  <2> QED BY <2>1, <2>2
<1> QED BY <1>12, <1>13

\* Publish sends to some of those who watch.
LEMMA PublishDelivers ==
  ASSUME InvH, UNCHANGED <<arrived, since>>, NEW s \in Sub, BridgePublish(s)
  PROVE  \E n \in 1..MaxMsg, C \in SUBSET Conn : Gateway!Deliver(n, C)
<1> DEFINE n == hand[s]
           C == {c \in Conn : c \in storeSubs[serves[s]] /\
                              Len(localLog[c]) - localRd[c] < LocalBuffer}
<1>1. /\ bridge[s] = "holding" /\ Store!Publish(serves[s], n)
      /\ UNCHANGED <<busVars, hubVars, serves, cancelled, connVars, main>>
  BY DEF BridgePublish
<1>2. /\ storeSubs' = storeSubs
      /\ localLog' = [c \in Conn |-> IF c \in C THEN Append(localLog[c], n) ELSE localLog[c]]
  BY <1>1 DEF Store!Publish
<1>3. busLast' = busLast /\ viewing' = viewing /\ HubOpen' = HubOpen
  BY <1>1 DEF busVars, connVars, HubOpen
<1>4. n \in Ran(busLog[s]) /\ n \in 1..MaxMsg
  <2>1. /\ busRd[s] \in Nat /\ busRd[s] > 0 /\ busRd[s] <= Len(busLog[s])
        /\ n = busLog[s][busRd[s]] /\ busLog[s] \in Seq(1..MaxMsg)
    BY <1>1 DEF InvH, HandsCurrent, Inv, TypeOK
  <2>2. busRd[s] \in 1..Len(busLog[s])
    BY <2>1
  <2> QED BY <2>1, <2>2, Element DEF Ran
<1>5. serves[s] \in Post /\ n \in arrived[serves[s]] /\ serves[s] # None
  BY <1>4, FeedHubAssumption DEF InvH, LogsOrdered
<1>6. \A c \in Conn : Watching(c)' = Watching(c)
  BY <1>2, <1>3 DEF Watching
<1>7. ASSUME NEW c \in C
      PROVE  /\ Watching(c) = serves[s]
             /\ \A k \in DOMAIN localLog[c] :
                   /\ localLog[c][k] # n
                   /\ HubOpen /\ n > since[c] => localLog[c][k] < n
  <2>1. Watching(c) = serves[s]
    BY <1>5, WatchingIs DEF InvH
  <2>2. DOMAIN localLog[c] = 1..Len(localLog[c])
    BY DEF InvH, Inv, TypeOK
  <2> QED BY <2>1, <2>2, <1>1, HeldIsNew
<1>8. \A c \in C : n \notin Gateway!Range(localLog[c])
  BY <1>7 DEF Gateway!Range
<1>9. \A c \in C : ~HubOpen \/ Gateway!InOrder(c, n)
  BY <1>7 DEF Gateway!InOrder
<1>10. Gateway!Deliver(n, C)
  BY <1>2, <1>3, <1>5, <1>6, <1>7, <1>8, <1>9 DEF Gateway!Deliver
<1>11. C \in SUBSET Conn
  OBVIOUS
<1> QED BY <1>4, <1>10, <1>11

\* A fan-out that starts is the arrival of its message.
LEMMA ArriveArrives ==
  ASSUME InvH, NEW p \in Post, ArriveH(p)
  PROVE  \E n \in 1..MaxMsg : Gateway!Arrive(p, n)
<1>1. /\ busLast < MaxMsg /\ Bus!Arrive(p, busLast + 1)
      /\ arrived' = [arrived EXCEPT ![p] = @ \cup {busLast'}] /\ since' = since
      /\ UNCHANGED <<storeVars, connVars, main>>
  BY DEF ArriveH, Arrive
<1>2. busLast' = busLast + 1 /\ busLast + 1 > busLast
  BY <1>1 DEF Bus!Arrive
<1>3. busLast + 1 \in 1..MaxMsg
  BY <1>1, FeedHubAssumption DEF InvH, Inv, TypeOK
<1>4. UNCHANGED <<storeSubs, localLog, viewing>> /\ HubOpen' = HubOpen
  BY <1>1 DEF storeVars, connVars, HubOpen
<1>5. \A c \in Conn : Watching(c)' = Watching(c)
  BY <1>4 DEF Watching
<1>6. Gateway!Arrive(p, busLast + 1)
  BY <1>1, <1>2, <1>4, <1>5 DEF Gateway!Arrive
<1> QED BY <1>3, <1>6

\* Main takes Hub.mu in order to close the hub.
LEMMA LockCloses ==
  ASSUME InvH, UNCHANGED <<arrived, since>>, HubCloseLock
  PROVE  Gateway!Close
<1>1. main' = "closing" /\ UNCHANGED <<busVars, storeVars, connVars>>
  BY DEF HubCloseLock
<1>2. UNCHANGED <<busLast, storeSubs, localLog, viewing>> /\ ~HubOpen'
  BY <1>1 DEF busVars, storeVars, connVars, HubOpen
<1>3. \A c \in Conn : Watching(c)' = Watching(c)
  BY <1>2 DEF Watching
<1> QED BY <1>2, <1>3 DEF Gateway!Close

\* The store drops every connection.
LEMMA StoreDrops ==
  ASSUME InvH, UNCHANGED <<arrived, since>>, HubCloseStore
  PROVE  Gateway!Drop
<1>1. /\ main = "closing" /\ main' = "busclose" /\ Store!Close
      /\ UNCHANGED <<busVars, bridgeVars, connVars>>
  BY DEF HubCloseStore
<1>2. busLast' = busLast /\ localLog' = localLog /\ storeSubs' = [p \in Post |-> {}]
      /\ ~HubOpen /\ ~HubOpen'
  BY <1>1 DEF busVars, Store!Close, HubOpen
<1>3. \A c \in Conn : Watching(c)' = None
  BY <1>2 DEF Watching
<1> QED BY <1>2, <1>3 DEF Gateway!Drop

\* Every step of the hub is a step of Feed or a stutter.
LEMMA NextDelivers ==
  ASSUME InvH, InvH', [NextH]_varsH
  PROVE  [Gateway!Next]_(Gateway!vars)
<1>1. ASSUME NEW p \in Post, ArriveH(p) PROVE Gateway!Next
  BY <1>1, ArriveArrives DEF Gateway!Next
<1>2. ASSUME OtherH, NEW c \in Conn, AcquireRegister(c) PROVE Gateway!Next
  <2>1. Gateway!Watch(c, viewing[c])
    BY <1>2, RegisterWatches DEF InvH
  <2>2. viewing[c] \in Post
    BY <1>2, Views DEF AcquireRegister, InvH
  <2> QED BY <2>1, <2>2 DEF Gateway!Next
<1>3. ASSUME OtherH, OtherStep PROVE [Gateway!Next]_(Gateway!vars)
  <2>1. UNCHANGED <<arrived, since>>
    BY <1>3, OtherSince
  <2>2. ASSUME NEW c \in Conn, ReleaseUnregister(c) PROVE Gateway!Next
    BY <2>1, <2>2, UnregisterLeaves DEF Gateway!Next
  <2>3. ASSUME NEW s \in Sub, BridgePublish(s) PROVE Gateway!Next
    BY <2>1, <2>3, PublishDelivers DEF Gateway!Next
  <2>4. ASSUME HubCloseLock PROVE Gateway!Next
    BY <2>1, <2>4, LockCloses DEF Gateway!Next
  <2>5. ASSUME HubCloseStore PROVE Gateway!Next
    BY <2>1, <2>5, StoreDrops DEF Gateway!Next
  <2>6. ASSUME NEW c \in Conn,
               \/ \E p \in Post : Request(c, p)
               \/ \E s \in Sub : AcquireFirst(c, s)
               \/ Reject(c) \/ AcquireNext(c) \/ AcquireFail(c) \/ Deliver(c) \/ SeeGone(c)
               \/ SeeClosed(c) \/ ReleaseKeep(c) \/ Disconnect(c) \/ ReleaseLast(c)
        PROVE  UNCHANGED Gateway!vars
    BY <2>1, <2>6, HandlerUnseen
  <2>7. ASSUME \/ \E s \in Sub : BridgeReceive(s) \/ BridgeStop(s) \/ Offer(s)
               \/ \E p \in Post : HubCloseEntry(p)
               \/ Signal \/ ShutdownDrained \/ ShutdownTimeout \/ BusClose \/ Exit
        PROVE  UNCHANGED Gateway!vars
    BY <2>1, <2>7, RestUnseen
  <2> QED BY <1>3, <2>2, <2>3, <2>4, <2>5, <2>6, <2>7 DEF OtherStep, Bridge, MainStep
<1>4. ASSUME UNCHANGED varsH PROVE UNCHANGED Gateway!vars
  <2>1. UNCHANGED <<arrived, since, busLast, storeSubs, localLog, viewing, main>>
    BY <1>4 DEF varsH, vars, busVars, storeVars, connVars
  <2> QED BY <2>1, Unseen DEF HubOpen
<1> QED BY <1>1, <1>2, <1>3, <1>4, OtherCases DEF NextH

\* The hub, the bus and the store keep the gateway's promise to the browsers.
THEOREM Delivery == SpecH => ImplementsFeed
<1>1. InitH => Gateway!Init
  BY DEF InitH, Init, Bus!Init, Store!Init, Gateway!Init, Watching, HubOpen
<1> QED
  BY <1>1, NextDelivers, DeliveryInvariance, PTL DEF SpecH, ImplementsFeed, Gateway!Spec
=============================================================================

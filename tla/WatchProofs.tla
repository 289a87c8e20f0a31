----------------------------- MODULE WatchProofs -----------------------------
(***************************************************************************)
(* Proofs about FeedService, the dispatcher, and about Watch, which puts   *)
(* the gateway and its browsers behind it, for any sets of requests,       *)
(* posts, users and browsers and any number of events.  First the          *)
(* dispatcher alone: its invariant is inductive, and the properties the    *)
(* runs check follow from it.  Then both: what a browser is shown is       *)
(* stored, and in the order of its author's requests.  The order is made   *)
(* of two halves that are about different processes: the dispatcher        *)
(* publishes in the order of the answers (AnsweredOrder), and the gateway  *)
(* sends on in the order of publication (ReceivedOrder).                   *)
(***************************************************************************)
EXTENDS Watch, TLAPS

-----------------------------------------------------------------------------
(* Sequences                                                               *)

\* What one and two more events add.
LEMMA RanAppend ==
  ASSUME NEW q \in Seq(Request), NEW x \in Request
  PROVE  /\ Append(q, x) \in Seq(Request) /\ q \o <<x, x>> \in Seq(Request)
         /\ Ran(Append(q, x)) = Ran(q) \cup {x}
         /\ Ran(q \o <<x, x>>) = Ran(q) \cup {x}
<1>1. Append(q, x) \in Seq(Request) /\ q \o <<x, x>> \in Seq(Request)
  OBVIOUS
<1>2. Ran(Append(q, x)) = Ran(q) \cup {x}
  BY DEF Ran
<1>3. Ran(q \o <<x, x>>) = Ran(q) \cup {x}
  <2>1. Append(q, x) \in Seq(Request) /\ q \o <<x, x>> = Append(Append(q, x), x)
    OBVIOUS
  <2>2. Ran(Append(Append(q, x), x)) = Ran(Append(q, x)) \cup {x}
    BY <2>1 DEF Ran
  <2> QED BY <2>1, <2>2, <1>2
<1> QED BY <1>1, <1>2, <1>3

\* Every event is that of a request.
LEMMA EventTypes ==
  ASSUME TypeOK
  PROVE  /\ \A i \in 1..Len(events) : events[i] \in Request /\ events[i] \in Ran(events)
         /\ Ran(events) \subseteq Request
BY SMT DEF TypeOK, Ran

\* A query adds to the tables and removes nothing.
LEMMA ApplyTypes ==
  ASSUME TypeOK, NEW r \in Request, Apply(r)
  PROVE  /\ posts' \in SUBSET Post /\ posts \subseteq posts'
         /\ rows' \in SUBSET Request /\ rows \subseteq rows'
         /\ current' \in [Post -> [User -> Request \cup {None}]]
<1>1. req[r].post \in Post /\ req[r].user \in User
  BY DEF TypeOK
<1>2. /\ posts' \in SUBSET Post /\ posts \subseteq posts'
      /\ rows' \in SUBSET Request /\ rows \subseteq rows'
  BY <1>1, SMT DEF TypeOK, Apply
<1>3. current[req[r].post] \in [User -> Request \cup {None}]
  BY <1>1 DEF TypeOK
<1>4. [current[req[r].post] EXCEPT ![req[r].user] = r] \in [User -> Request \cup {None}]
  BY <1>1, <1>3
<1>5. current' \in [Post -> [User -> Request \cup {None}]]
  BY <1>1, <1>4, SMT DEF TypeOK, Apply
<1> QED BY <1>2, <1>5

\* The stored reactions stay the latest when neither they nor the requests that
\* have a row change.
LEMMA CurrentKept ==
  ASSUME Inv, UNCHANGED <<rows, current>>,
         \A q \in rows : req'[q] = req[q] /\ after'[q] = after[q]
  PROVE  CurrentLatest'
<1> SUFFICES ASSUME NEW p \in Post, NEW u \in User
             PROVE  LET r == current[p][u]
                        reaction == [kind |-> "reaction", post |-> p, user |-> u] IN
                    /\ r # None => r \in rows /\ req'[r] = reaction
                    /\ \A q \in rows : req'[q] = reaction => r # None /\ r \notin after'[q]
  BY DEF CurrentLatest
<1>1. LET r == current[p][u]
          reaction == [kind |-> "reaction", post |-> p, user |-> u] IN
      /\ r # None => r \in rows /\ req[r] = reaction
      /\ \A q \in rows : req[q] = reaction => r # None /\ r \notin after[q]
  BY DEF Inv, CurrentLatest
<1> DEFINE r == current[p][u]
           reaction == [kind |-> "reaction", post |-> p, user |-> u]
<1>2. r # None => r \in rows /\ req[r] = reaction
  BY <1>1
<1>3. \A q \in rows : req[q] = reaction => r # None /\ r \notin after[q]
  BY <1>1
<1>4. (r # None => r \in rows /\ req'[r] = reaction)
  BY <1>2
<1>5. \A q \in rows : req'[q] = reaction => r # None /\ r \notin after'[q]
  BY <1>3
<1> QED BY <1>4, <1>5

\* A query puts its own reaction last: nobody has its answer yet.
LEMMA CurrentApplied ==
  ASSUME Inv, NEW r \in Request, pc[r] = "querying", Apply(r), UNCHANGED <<req, after>>
  PROVE  CurrentLatest'
<1> SUFFICES ASSUME NEW p \in Post, NEW u \in User
             PROVE  LET x == current'[p][u]
                        reaction == [kind |-> "reaction", post |-> p, user |-> u] IN
                    /\ x # None => x \in rows' /\ req[x] = reaction
                    /\ \A q \in rows' : req[q] = reaction => x # None /\ x \notin after[q]
  BY DEF CurrentLatest
<1> DEFINE x == current[p][u]
           y == current'[p][u]
           reaction == [kind |-> "reaction", post |-> p, user |-> u]
<1>1. /\ x # None => x \in rows /\ req[x] = reaction
      /\ \A q \in rows : req[q] = reaction => x # None /\ x \notin after[q]
  BY DEF Inv, CurrentLatest
<1>2. /\ rows' = IF req[r].kind \in Write THEN rows \cup {r} ELSE rows
      /\ current' = IF req[r].kind = "reaction"
                    THEN [current EXCEPT ![req[r].post][req[r].user] = r] ELSE current
  BY DEF Apply
<1>3. /\ \A q \in Request : r \notin after[q]
      /\ r # None /\ r \notin rows /\ rows \subseteq Request
  BY FeedServiceAssumption DEF Inv, TypeOK, AfterAnswered, RowsWritten
<1>4. /\ req[r] \in [kind : Kind, post : Post, user : User]
      /\ current \in [Post -> [User -> Request \cup {None}]]
  BY DEF Inv, TypeOK
<1>5. CASE req[r] = reaction
  <2>1. rows' = rows \cup {r} /\ y = r
    BY <1>2, <1>4, <1>5 DEF Write
  <2>2. y # None => y \in rows' /\ req[y] = reaction
    BY <2>1, <1>5
  <2>3. \A q \in rows' : req[q] = reaction => y # None /\ y \notin after[q]
    BY <2>1, <1>3
  <2> QED BY <2>2, <2>3
<1>6. CASE req[r] # reaction
  <2>1. y = x
    <3>1. CASE req[r].kind # "reaction"
      BY <1>2, <3>1
    <3>2. CASE req[r].kind = "reaction"
      <4>1. req[r].post # p \/ req[r].user # u
        BY <1>4, <1>6, <3>2
      <4>2. current' = [current EXCEPT ![req[r].post][req[r].user] = r]
        BY <1>2, <3>2
      <4> QED BY <1>4, <4>1, <4>2
    <3> QED BY <3>1, <3>2
  <2>2. rows \subseteq rows' /\ rows' \subseteq rows \cup {r}
    BY <1>2
  <2>3. y # None => y \in rows' /\ req[y] = reaction
    BY <1>1, <2>1, <2>2
  <2>4. \A q \in rows' : req[q] = reaction => y # None /\ y \notin after[q]
    BY <1>1, <1>6, <2>1, <2>2
  <2> QED BY <2>3, <2>4
<1> QED BY <1>5, <1>6

-----------------------------------------------------------------------------
(* One lemma per action of the dispatcher                                  *)

\* A request that begins has no event yet.
LEMMA AcceptStep ==
  ASSUME Inv, NEW r \in Request, NEW k \in Kind, NEW p \in Post, NEW u \in User,
         Accept(r, k, p, u)
  PROVE  Inv'
<1>1. TypeOK'
  BY SMTT(30) DEF Inv, TypeOK, Accept, Answered, reqVars, dbVars, mainVars
<1>2. PublishersStored'
  BY SMTT(30) DEF Inv, TypeOK, PublishersStored, Accept, Answered, reqVars,
     dbVars, mainVars
<1>3. PublishedAnswered'
  BY SMTT(30) DEF Inv, TypeOK, PublishedAnswered, Accept, Answered, reqVars,
     dbVars, mainVars
<1>4. AfterAnswered'
  BY SMTT(30) DEF Inv, TypeOK, AfterAnswered, Accept, Answered, reqVars,
     dbVars, mainVars
<1>5. EventsStored'
  BY SMTT(30) DEF Inv, TypeOK, PublishersStored, PublishedAnswered,
     EventsStored, Accept, Answered, reqVars, dbVars, mainVars
<1>6. WriteSurvivesPublish'
  BY SMTT(30) DEF Inv, TypeOK, PublishersStored, PublishedAnswered,
     WriteSurvivesPublish, Accept, Answered, reqVars, dbVars, mainVars
<1>7. AnsweredOrder'
  BY EventTypes, SMTT(30) DEF Inv, TypeOK, AfterAnswered, PublishedAnswered,
     AnsweredOrder, Accept, Answered, reqVars, dbVars, mainVars
<1>8. RowsWritten'
  BY SMTT(30) DEF Inv, TypeOK, RowsWritten, Accept, Answered, reqVars, dbVars, mainVars
<1>9. CurrentLatest'
  <2>1. \A q \in rows : req'[q] = req[q] /\ after'[q] = after[q]
    BY DEF Inv, TypeOK, RowsWritten, Accept
  <2> QED BY <2>1, CurrentKept DEF Accept, dbVars
<1> QED BY <1>1, <1>2, <1>3, <1>4, <1>5, <1>6, <1>7, <1>8, <1>9 DEF Inv

\* A request that is refused had no event.
LEMMA RejectStep ==
  ASSUME Inv, NEW r \in Request, Reject(r)
  PROVE  Inv'
<1>1. TypeOK'
  BY SMTT(30) DEF Inv, TypeOK, Reject, Answer, reqVars, dbVars, mainVars
<1>2. PublishersStored'
  BY SMTT(30) DEF Inv, TypeOK, PublishersStored, Reject, Answer, reqVars,
     dbVars, mainVars
<1>3. PublishedAnswered'
  BY SMTT(30) DEF Inv, TypeOK, PublishedAnswered, Reject, Answer, reqVars,
     dbVars, mainVars
<1>4. AfterAnswered'
  BY SMTT(30) DEF Inv, TypeOK, AfterAnswered, Reject, Answer, reqVars, dbVars,
     mainVars
<1>5. EventsStored'
  BY SMTT(30) DEF Inv, TypeOK, PublishersStored, PublishedAnswered,
     EventsStored, Reject, Answer, reqVars, dbVars, mainVars
<1>6. WriteSurvivesPublish'
  BY SMTT(30) DEF Inv, TypeOK, PublishersStored, PublishedAnswered,
     WriteSurvivesPublish, Reject, Answer, reqVars, dbVars, mainVars
<1>7. AnsweredOrder'
  BY SMTT(30) DEF Inv, TypeOK, AfterAnswered, PublishedAnswered,
     AnsweredOrder, Reject, Answer, reqVars, dbVars, mainVars
<1>8. RowsWritten'
  BY SMTT(30) DEF Inv, TypeOK, RowsWritten, Reject, Answer, reqVars, dbVars, mainVars
<1>9. CurrentLatest'
  BY CurrentKept DEF Reject, Answer, dbVars
<1> QED BY <1>1, <1>2, <1>3, <1>4, <1>5, <1>6, <1>7, <1>8, <1>9 DEF Inv

\* Only pc changes.
LEMMA AcquireStep ==
  ASSUME Inv, NEW r \in Request, Acquire(r)
  PROVE  Inv'
<1>1. TypeOK'
  BY SMTT(30) DEF Inv, TypeOK, Acquire, reqVars, dbVars, mainVars
<1>2. PublishersStored'
  BY SMTT(30) DEF Inv, TypeOK, PublishersStored, Acquire, reqVars, dbVars,
     mainVars
<1>3. PublishedAnswered'
  BY SMTT(30) DEF Inv, TypeOK, PublishedAnswered, Acquire, reqVars, dbVars,
     mainVars
<1>4. AfterAnswered'
  BY SMTT(30) DEF Inv, TypeOK, AfterAnswered, Acquire, reqVars, dbVars,
     mainVars
<1>5. EventsStored'
  BY SMTT(30) DEF Inv, TypeOK, PublishersStored, PublishedAnswered,
     EventsStored, Acquire, reqVars, dbVars, mainVars
<1>6. WriteSurvivesPublish'
  BY SMTT(30) DEF Inv, TypeOK, PublishersStored, PublishedAnswered,
     WriteSurvivesPublish, Acquire, reqVars, dbVars, mainVars
<1>7. AnsweredOrder'
  BY SMTT(30) DEF Inv, TypeOK, AfterAnswered, PublishedAnswered,
     AnsweredOrder, Acquire, reqVars, dbVars, mainVars
<1>8. RowsWritten'
  BY SMTT(30) DEF Inv, TypeOK, RowsWritten, Acquire, reqVars, dbVars, mainVars
<1>9. CurrentLatest'
  BY CurrentKept DEF Acquire, dbVars
<1> QED BY <1>1, <1>2, <1>3, <1>4, <1>5, <1>6, <1>7, <1>8, <1>9 DEF Inv

\* The request is answered before its query.
LEMMA AcquireFailStep ==
  ASSUME Inv, NEW r \in Request, AcquireFail(r)
  PROVE  Inv'
<1>1. TypeOK'
  BY SMTT(30) DEF Inv, TypeOK, AcquireFail, Answer, reqVars, dbVars, mainVars
<1>2. PublishersStored'
  BY SMTT(30) DEF Inv, TypeOK, PublishersStored, AcquireFail, Answer, reqVars,
     dbVars, mainVars
<1>3. PublishedAnswered'
  BY SMTT(30) DEF Inv, TypeOK, PublishedAnswered, AcquireFail, Answer,
     reqVars, dbVars, mainVars
<1>4. AfterAnswered'
  BY SMTT(30) DEF Inv, TypeOK, AfterAnswered, AcquireFail, Answer, reqVars,
     dbVars, mainVars
<1>5. EventsStored'
  BY SMTT(30) DEF Inv, TypeOK, PublishersStored, PublishedAnswered,
     EventsStored, AcquireFail, Answer, reqVars, dbVars, mainVars
<1>6. WriteSurvivesPublish'
  BY SMTT(30) DEF Inv, TypeOK, PublishersStored, PublishedAnswered,
     WriteSurvivesPublish, AcquireFail, Answer, reqVars, dbVars, mainVars
<1>7. AnsweredOrder'
  BY SMTT(30) DEF Inv, TypeOK, AfterAnswered, PublishedAnswered,
     AnsweredOrder, AcquireFail, Answer, reqVars, dbVars, mainVars
<1>8. RowsWritten'
  BY SMTT(30) DEF Inv, TypeOK, RowsWritten, AcquireFail, Answer, reqVars, dbVars, mainVars
<1>9. CurrentLatest'
  BY CurrentKept DEF AcquireFail, Answer, dbVars
<1> QED BY <1>1, <1>2, <1>3, <1>4, <1>5, <1>6, <1>7, <1>8, <1>9 DEF Inv

\* A write has its row and its post before it publishes.
LEMMA StoreStep ==
  ASSUME Inv, NEW r \in Request, Store(r)
  PROVE  Inv'
<1>0. /\ posts' \in SUBSET Post /\ posts \subseteq posts'
      /\ rows' \in SUBSET Request /\ rows \subseteq rows'
      /\ current' \in [Post -> [User -> Request \cup {None}]]
  BY ApplyTypes DEF Inv, Store
<1>a. pc[r] = "querying" /\ r \notin Ran(events) \cup missed
  BY DEF Inv, PublishedAnswered, Store
<1>1. TypeOK'
  BY <1>0, SMTT(30) DEF Inv, TypeOK, Store, Answer, Apply, Found, reqVars,
     dbVars, mainVars
<1>2. PublishersStored'
  BY <1>0, SMTT(30) DEF Inv, TypeOK, PublishersStored, Store, Answer, Apply,
     Found, reqVars, dbVars, mainVars
<1>3. PublishedAnswered'
  BY <1>a, EventTypes, SMTT(30) DEF Inv, TypeOK, PublishedAnswered, Store,
     Answer, reqVars, dbVars, mainVars
<1>4. AfterAnswered'
  BY SMTT(30) DEF Inv, TypeOK, AfterAnswered, Store, Answer, Apply, Found,
     reqVars, dbVars, mainVars
<1>5. EventsStored'
  BY <1>0, SMTT(30) DEF Inv, TypeOK, PublishersStored, PublishedAnswered,
     EventsStored, Store, Answer, Apply, Found, reqVars, dbVars, mainVars
<1>6. WriteSurvivesPublish'
  BY <1>0, <1>a, SMTT(30) DEF Inv, TypeOK, PublishersStored,
     PublishedAnswered, WriteSurvivesPublish, Store, Answer, Apply, Found,
     reqVars, dbVars, mainVars
<1>7. AnsweredOrder'
  BY SMTT(30) DEF Inv, TypeOK, AfterAnswered, PublishedAnswered,
     AnsweredOrder, Store, Answer, Apply, Found, reqVars, dbVars, mainVars
<1>8. RowsWritten'
  BY <1>0, SMTT(30) DEF Inv, TypeOK, RowsWritten, Store, Answer, Apply, Found, reqVars, dbVars, mainVars
<1>9. CurrentLatest'
  BY CurrentApplied DEF Store, Answer
<1> QED BY <1>1, <1>2, <1>3, <1>4, <1>5, <1>6, <1>7, <1>8, <1>9 DEF Inv

\* The request is answered without a row.
LEMMA NotFoundStep ==
  ASSUME Inv, NEW r \in Request, NotFound(r)
  PROVE  Inv'
<1>1. TypeOK'
  BY SMTT(30) DEF Inv, TypeOK, NotFound, Answer, reqVars, dbVars, mainVars
<1>2. PublishersStored'
  BY SMTT(30) DEF Inv, TypeOK, PublishersStored, NotFound, Answer, reqVars,
     dbVars, mainVars
<1>3. PublishedAnswered'
  BY SMTT(30) DEF Inv, TypeOK, PublishedAnswered, NotFound, Answer, reqVars,
     dbVars, mainVars
<1>4. AfterAnswered'
  BY SMTT(30) DEF Inv, TypeOK, AfterAnswered, NotFound, Answer, reqVars,
     dbVars, mainVars
<1>5. EventsStored'
  BY SMTT(30) DEF Inv, TypeOK, PublishersStored, PublishedAnswered,
     EventsStored, NotFound, Answer, reqVars, dbVars, mainVars
<1>6. WriteSurvivesPublish'
  BY SMTT(30) DEF Inv, TypeOK, PublishersStored, PublishedAnswered,
     WriteSurvivesPublish, NotFound, Answer, reqVars, dbVars, mainVars
<1>7. AnsweredOrder'
  BY SMTT(30) DEF Inv, TypeOK, AfterAnswered, PublishedAnswered,
     AnsweredOrder, NotFound, Answer, reqVars, dbVars, mainVars
<1>8. RowsWritten'
  BY SMTT(30) DEF Inv, TypeOK, RowsWritten, NotFound, Answer, reqVars, dbVars, mainVars
<1>9. CurrentLatest'
  BY CurrentKept DEF NotFound, Answer, dbVars
<1> QED BY <1>1, <1>2, <1>3, <1>4, <1>5, <1>6, <1>7, <1>8, <1>9 DEF Inv

\* A row may stay behind, an event may not.
LEMMA StoreFailStep ==
  ASSUME Inv, NEW r \in Request, StoreFail(r)
  PROVE  Inv'
<1>0. /\ posts' \in SUBSET Post /\ posts \subseteq posts'
      /\ rows' \in SUBSET Request /\ rows \subseteq rows'
      /\ current' \in [Post -> [User -> Request \cup {None}]]
  BY ApplyTypes DEF Inv, StoreFail, TypeOK, dbVars
<1>1. TypeOK'
  BY <1>0, SMTT(30) DEF Inv, TypeOK, StoreFail, Answer, reqVars, dbVars,
     mainVars
<1>2. PublishersStored'
  BY <1>0, SMTT(30) DEF Inv, TypeOK, PublishersStored, StoreFail, Answer,
     reqVars, dbVars, mainVars
<1>3. PublishedAnswered'
  BY SMTT(30) DEF Inv, TypeOK, PublishedAnswered, StoreFail, Answer, reqVars,
     dbVars, mainVars
<1>4. AfterAnswered'
  BY SMTT(30) DEF Inv, TypeOK, AfterAnswered, StoreFail, Answer, reqVars,
     dbVars, mainVars
<1>5. EventsStored'
  BY <1>0, SMTT(30) DEF Inv, TypeOK, PublishersStored, PublishedAnswered,
     EventsStored, StoreFail, Answer, reqVars, dbVars, mainVars
<1>6. WriteSurvivesPublish'
  BY <1>0, SMTT(30) DEF Inv, TypeOK, PublishersStored, PublishedAnswered,
     WriteSurvivesPublish, StoreFail, Answer, reqVars, dbVars, mainVars
<1>7. AnsweredOrder'
  BY SMTT(30) DEF Inv, TypeOK, AfterAnswered, PublishedAnswered,
     AnsweredOrder, StoreFail, Answer, reqVars, dbVars, mainVars
<1>8. RowsWritten'
  BY <1>0, SMTT(30) DEF Inv, TypeOK, RowsWritten, StoreFail, Answer, Apply, reqVars, dbVars, mainVars
<1>9. CurrentLatest'
  BY CurrentKept, CurrentApplied DEF StoreFail, Answer, dbVars
<1> QED BY <1>1, <1>2, <1>3, <1>4, <1>5, <1>6, <1>7, <1>8, <1>9 DEF Inv

\* The event follows its row and everything that was answered before.
LEMMA PublishStep ==
  ASSUME Inv, NEW r \in Request, Publish(r)
  PROVE  Inv'
<1>a. /\ r \notin Ran(events) /\ r \notin missed
      /\ req[r].kind \in Write /\ r \in rows /\ req[r].post \in posts
  BY DEF Inv, PublishedAnswered, PublishersStored, Publish
<1>b. events \in Seq(Request)
  BY DEF Inv, TypeOK
<1>c. /\ events' \in Seq(Request) /\ Ran(events) \subseteq Ran(events')
      /\ Ran(events') \subseteq Ran(events) \cup {r}
      /\ r \in Ran(events') \cup missed'
  <2>1. CASE events' = events /\ r \in missed'
    BY <1>b, <2>1
  <2>2. CASE events' = Append(events, r)
    BY <1>b, <2>2, RanAppend
  <2>3. CASE events' = events \o <<r, r>>
    BY <1>b, <2>3, RanAppend
  <2> QED BY <2>1, <2>2, <2>3 DEF Publish
<1>1. TypeOK'
  BY <1>a, <1>c, SMTT(30) DEF Inv, TypeOK, Publish, Answer, reqVars, dbVars,
     mainVars
<1>2. PublishersStored'
  BY <1>a, <1>c, SMTT(30) DEF Inv, TypeOK, PublishersStored, Publish, Answer,
     reqVars, dbVars, mainVars
<1>3. PublishedAnswered'
  BY <1>a, <1>c, SMTT(30) DEF Inv, TypeOK, PublishedAnswered, Publish, Answer,
     reqVars, dbVars, mainVars
<1>4. AfterAnswered'
  BY <1>a, <1>c, SMTT(30) DEF Inv, TypeOK, AfterAnswered, Publish, Answer,
     reqVars, dbVars, mainVars
<1>5. EventsStored'
  BY <1>a, <1>c, SMTT(30) DEF Inv, TypeOK, PublishersStored,
     PublishedAnswered, EventsStored, Publish, Answer, reqVars, dbVars,
     mainVars
<1>6. WriteSurvivesPublish'
  BY <1>a, <1>c, SMTT(30) DEF Inv, TypeOK, PublishersStored,
     PublishedAnswered, WriteSurvivesPublish, Publish, Answer, reqVars,
     dbVars, mainVars
<1>7. AnsweredOrder'
  <2>1. \A i \in 1..Len(events) :
          events[i] \in Request /\ events[i] # r /\ r \notin after[events[i]]
    BY <1>a, EventTypes, SMT DEF Inv, AfterAnswered, Publish
  <2>2. r \notin after[r]
    BY DEF Inv, AfterAnswered, Publish
  <2>3. after' = after
    BY DEF Publish, Answer
  <2>4. \A i, j \in 1..Len(events) : i < j => events[j] \notin after[events[i]]
    BY DEF Inv, AnsweredOrder
  <2>5. CASE events' = events
    BY <2>3, <2>4, <2>5 DEF AnsweredOrder
  <2>6. CASE events' = Append(events, r)
    BY <1>b, <2>1, <2>2, <2>3, <2>4, <2>6, SMT DEF AnsweredOrder
  <2>7. CASE events' = events \o <<r, r>>
    BY <1>b, <2>1, <2>2, <2>3, <2>4, <2>7, SMT DEF AnsweredOrder
  <2> QED BY <2>5, <2>6, <2>7 DEF Publish
<1>8. RowsWritten'
  BY SMTT(30) DEF Inv, TypeOK, RowsWritten, Publish, Answer, reqVars, dbVars, mainVars
<1>9. CurrentLatest'
  BY CurrentKept DEF Publish, Answer, dbVars
<1> QED BY <1>1, <1>2, <1>3, <1>4, <1>5, <1>6, <1>7, <1>8, <1>9 DEF Inv

\* The event is sent or lost, and the request answered all the same.
LEMMA PublishFailStep ==
  ASSUME Inv, NEW r \in Request, PublishFail(r)
  PROVE  Inv'
<1>a. /\ r \notin Ran(events) /\ r \notin missed
      /\ req[r].kind \in Write /\ r \in rows /\ req[r].post \in posts
  BY DEF Inv, PublishedAnswered, PublishersStored, PublishFail
<1>b. events \in Seq(Request)
  BY DEF Inv, TypeOK
<1>c. /\ events' \in Seq(Request) /\ Ran(events) \subseteq Ran(events')
      /\ Ran(events') \subseteq Ran(events) \cup {r}
      /\ r \in Ran(events') \cup missed'
  <2>1. CASE events' = events /\ r \in missed'
    BY <1>b, <2>1
  <2>2. CASE events' = Append(events, r)
    BY <1>b, <2>2, RanAppend
  <2>3. CASE events' = events \o <<r, r>>
    BY <1>b, <2>3, RanAppend
  <2> QED BY <2>1, <2>2, <2>3 DEF PublishFail
<1>1. TypeOK'
  BY <1>a, <1>c, SMTT(30) DEF Inv, TypeOK, PublishFail, Answer, reqVars,
     dbVars, mainVars
<1>2. PublishersStored'
  BY <1>a, <1>c, SMTT(30) DEF Inv, TypeOK, PublishersStored, PublishFail,
     Answer, reqVars, dbVars, mainVars
<1>3. PublishedAnswered'
  BY <1>a, <1>c, SMTT(30) DEF Inv, TypeOK, PublishedAnswered, PublishFail,
     Answer, reqVars, dbVars, mainVars
<1>4. AfterAnswered'
  BY <1>a, <1>c, SMTT(30) DEF Inv, TypeOK, AfterAnswered, PublishFail, Answer,
     reqVars, dbVars, mainVars
<1>5. EventsStored'
  BY <1>a, <1>c, SMTT(30) DEF Inv, TypeOK, PublishersStored,
     PublishedAnswered, EventsStored, PublishFail, Answer, reqVars, dbVars,
     mainVars
<1>6. WriteSurvivesPublish'
  BY <1>a, <1>c, SMTT(30) DEF Inv, TypeOK, PublishersStored,
     PublishedAnswered, WriteSurvivesPublish, PublishFail, Answer, reqVars,
     dbVars, mainVars
<1>7. AnsweredOrder'
  <2>1. \A i \in 1..Len(events) :
          events[i] \in Request /\ events[i] # r /\ r \notin after[events[i]]
    BY <1>a, EventTypes, SMT DEF Inv, AfterAnswered, PublishFail
  <2>2. r \notin after[r]
    BY DEF Inv, AfterAnswered, PublishFail
  <2>3. after' = after
    BY DEF PublishFail, Answer
  <2>4. \A i, j \in 1..Len(events) : i < j => events[j] \notin after[events[i]]
    BY DEF Inv, AnsweredOrder
  <2>5. CASE events' = events
    BY <2>3, <2>4, <2>5 DEF AnsweredOrder
  <2>6. CASE events' = Append(events, r)
    BY <1>b, <2>1, <2>2, <2>3, <2>4, <2>6, SMT DEF AnsweredOrder
  <2>7. CASE events' = events \o <<r, r>>
    BY <1>b, <2>1, <2>2, <2>3, <2>4, <2>7, SMT DEF AnsweredOrder
  <2> QED BY <2>5, <2>6, <2>7 DEF PublishFail
<1>8. RowsWritten'
  BY SMTT(30) DEF Inv, TypeOK, RowsWritten, PublishFail, Answer, reqVars, dbVars, mainVars
<1>9. CurrentLatest'
  BY CurrentKept DEF PublishFail, Answer, dbVars
<1> QED BY <1>1, <1>2, <1>3, <1>4, <1>5, <1>6, <1>7, <1>8, <1>9 DEF Inv

\* Only the process itself changes, or nothing does.
LEMMA MainStep ==
  ASSUME Inv, UNCHANGED <<reqVars, dbVars, events, missed>>, busClosed' \in BOOLEAN,
         stopping' \in BOOLEAN, main' \in {"loading", "redis", "pool", "serving",
             "shutdown", "poolclose", "busclose", "exited"}
  PROVE  Inv'
<1>1. TypeOK'
  BY SMTT(30) DEF Inv, TypeOK, reqVars, dbVars, mainVars
<1>2. PublishersStored'
  BY SMTT(30) DEF Inv, TypeOK, PublishersStored, reqVars, dbVars, mainVars
<1>3. PublishedAnswered'
  BY SMTT(30) DEF Inv, TypeOK, PublishedAnswered, reqVars, dbVars, mainVars
<1>4. AfterAnswered'
  BY SMTT(30) DEF Inv, TypeOK, AfterAnswered, reqVars, dbVars, mainVars
<1>5. EventsStored'
  BY SMTT(30) DEF Inv, TypeOK, PublishersStored, PublishedAnswered,
     EventsStored, reqVars, dbVars, mainVars
<1>6. WriteSurvivesPublish'
  BY SMTT(30) DEF Inv, TypeOK, PublishersStored, PublishedAnswered,
     WriteSurvivesPublish, reqVars, dbVars, mainVars
<1>7. AnsweredOrder'
  BY SMTT(30) DEF Inv, TypeOK, AfterAnswered, PublishedAnswered,
     AnsweredOrder, reqVars, dbVars, mainVars
<1>8. RowsWritten'
  BY SMTT(30) DEF Inv, TypeOK, RowsWritten, reqVars, dbVars, mainVars
<1>9. CurrentLatest'
  BY CurrentKept DEF reqVars, dbVars
<1> QED BY <1>1, <1>2, <1>3, <1>4, <1>5, <1>6, <1>7, <1>8, <1>9 DEF Inv

-----------------------------------------------------------------------------
(* The invariant of the dispatcher                                         *)

\* Inv survives every step of the dispatcher.
LEMMA NextStep ==
  ASSUME Inv, [Next]_vars
  PROVE  Inv'
<1>1. CASE \E r \in Request, k \in Kind, p \in Post, u \in User : Accept(r, k, p, u)
  BY <1>1, AcceptStep
<1>2. CASE \E r \in Request : Reject(r) \/ Connect(r) \/ Query(r) \/ StoreFail(r) \/ Send(r)
  BY <1>2, RejectStep, AcquireStep, AcquireFailStep, StoreStep, NotFoundStep,
     StoreFailStep, PublishStep, PublishFailStep DEF Connect, Query, Send
<1>3. CASE StartStep \/ Signal \/ Stop \/ StopStep \/ UNCHANGED vars
  <2>1. UNCHANGED <<reqVars, dbVars, events, missed>>
    BY <1>3, SMT DEF StartStep, Load, ConnectRedis, OpenPool, Signal, Stop, StopStep,
       ShutdownReturns, PoolClosed, BusClose, Exit, Start, vars, mainVars, reqVars, dbVars
  <2>2. busClosed' \in BOOLEAN /\ stopping' \in BOOLEAN
    <3>1. busClosed \in BOOLEAN /\ stopping \in BOOLEAN
      BY DEF Inv, TypeOK
    <3>2. busClosed' \in {busClosed, TRUE} /\ stopping' \in {stopping, TRUE}
      BY <1>3, Zenon DEF StartStep, Load, ConnectRedis, OpenPool, Signal, Stop,
         StopStep, ShutdownReturns, PoolClosed, BusClose, Exit, Start, vars, mainVars
    <3> QED BY <3>1, <3>2
  <2>3. main' \in {"loading", "redis", "pool", "serving", "shutdown", "poolclose",
                   "busclose", "exited"}
    BY <1>3, SMT DEF Inv, TypeOK, StartStep, Load, ConnectRedis, OpenPool, Signal, Stop,
       StopStep, ShutdownReturns, PoolClosed, BusClose, Exit, Start, vars, mainVars
  <2> QED BY <2>1, <2>2, <2>3, MainStep
<1> QED BY <1>1, <1>2, <1>3 DEF Next

\* A dispatcher that was started has stored and published nothing.
LEMMA InitInv ==
  ASSUME InitData, main \in {"loading", "serving"}, stopping = FALSE
  PROVE  Inv
<1>1. TypeOK
  <2>1. NoRequest \in [kind : Kind, post : Post, user : User]
    <3>1. (CHOOSE p \in Post : TRUE) \in Post /\ (CHOOSE u \in User : TRUE) \in User
      BY FeedServiceAssumption
    <3> QED BY <3>1 DEF NoRequest, Kind
  <2>2. posts \in SUBSET Post /\ events \in Seq(Request)
    BY DEF InitData
  <2>3. /\ pc \in [Request -> {"idle", "accepted", "querying", "publishing", "answered"}]
        /\ answer \in [Request -> {"none", "ok", "invalid", "notfound", "error"}]
        /\ after \in [Request -> SUBSET Request]
        /\ req \in [Request -> [kind : Kind, post : Post, user : User]]
    BY <2>1 DEF InitData
  <2>4. current \in [Post -> [User -> Request \cup {None}]]
    BY DEF InitData
  <2>5. rows = {} /\ missed = {} /\ busClosed = FALSE
    BY DEF InitData
  <2> QED
    BY <2>2, <2>3, <2>4, <2>5 DEF TypeOK
<1> QED
  BY <1>1, SMT DEF InitData, Inv, PublishersStored, PublishedAnswered, AfterAnswered,
     RowsWritten, CurrentLatest, EventsStored, WriteSurvivesPublish, AnsweredOrder, Ran

\* Inv holds in every behaviour of the dispatcher.
THEOREM Invariance == Spec => []Inv
<1>1. Init => Inv
  BY InitInv DEF Init
<1>2. Inv /\ [Next]_vars => Inv'
  BY NextStep
<1> QED
  BY <1>1, <1>2, PTL DEF Spec

\* The variables keep their types.
THEOREM TypeCorrect == Spec => []TypeOK
BY Invariance, PTL DEF Inv

\* An event is preceded by its row and by its post.
THEOREM StoredFirst == Spec => []EventsStored
BY Invariance, PTL DEF Inv

\* A failed publish does not fail the write.
THEOREM WritesSurvive == Spec => []WriteSurvivesPublish
BY Invariance, PTL DEF Inv

\* A client that waits for its answers has its events in order.
THEOREM OrderedByAnswers == Spec => []AnsweredOrder
BY Invariance, PTL DEF Inv

-----------------------------------------------------------------------------
(* What the dispatcher's steps keep                                        *)

\* An event stays where it is, and so does the request behind it.
LEMMA EventsStay ==
  ASSUME Inv, [Next]_vars
  PROVE  \A n \in 1..Len(events) : /\ n \in 1..Len(events') /\ events'[n] = events[n]
                                   /\ req'[events[n]] = req[events[n]]
<1> SUFFICES ASSUME NEW n \in 1..Len(events)
             PROVE  /\ n \in 1..Len(events') /\ events'[n] = events[n]
                    /\ req'[events[n]] = req[events[n]]
  OBVIOUS
<1>1. /\ events \in Seq(Request) /\ events[n] \in Request
      /\ pc[events[n]] = "answered" /\ req \in [Request -> [kind : Kind, post : Post, user : User]]
  BY EventTypes DEF Inv, TypeOK, PublishedAnswered
<1>2. \/ events' = events
      \/ \E r \in Request : events' = Append(events, r) \/ events' = events \o <<r, r>>
  BY Zenon DEF Next, vars, mainVars, Accept, Reject, Connect, Acquire, AcquireFail, Query,
     Store, NotFound, StoreFail, Send, Publish, PublishFail, StartStep, Load,
     ConnectRedis, OpenPool, Signal, Stop, StopStep, ShutdownReturns, PoolClosed,
     BusClose, Exit, Start
<1>3. n \in 1..Len(events') /\ events'[n] = events[n]
  <2>1. CASE events' = events
    BY <2>1
  <2>2. ASSUME NEW r \in Request, events' = Append(events, r)
        PROVE  n \in 1..Len(events') /\ events'[n] = events[n]
    BY <1>1, <2>2, SMT
  <2>3. ASSUME NEW r \in Request, events' = events \o <<r, r>>
        PROVE  n \in 1..Len(events') /\ events'[n] = events[n]
    BY <1>1, <2>3, SMT
  <2> QED BY <1>2, <2>1, <2>2, <2>3
<1>4. \/ req' = req
      \/ \E r \in Request : \E x : pc[r] = "idle" /\ req' = [req EXCEPT ![r] = x]
  BY Zenon DEF Next, vars, reqVars, mainVars, Answer, Accept, Reject, Connect, Acquire,
     AcquireFail, Query, Store, NotFound, StoreFail, Send, Publish, PublishFail,
     StartStep, Load, ConnectRedis, OpenPool, Signal, Stop, StopStep, ShutdownReturns,
     PoolClosed, BusClose, Exit, Start
<1>5. req'[events[n]] = req[events[n]]
  BY <1>1, <1>4
<1> QED BY <1>3, <1>5

\* The gateway's part of the invariant survives a step of the dispatcher.
LEMMA DispatcherStep ==
  ASSUME InvW, [Next]_vars, UNCHANGED gatewayVars
  PROVE  InvW'
<1>1. Inv'
  BY NextStep DEF InvW
<1>2. GatewayTypeOK' /\ ReceivedOrder'
  BY DEF InvW, GatewayTypeOK, ReceivedOrder, gatewayVars
<1>3. ArrivedPublished'
  <2> SUFFICES ASSUME NEW p \in Post, NEW n \in arrived[p]
               PROVE  n <= Len(events') /\ req'[events'[n]].post = p
    BY DEF ArrivedPublished, gatewayVars
  <2>1. n \in 1..Len(events) /\ req[events[n]].post = p
    BY WatchAssumption, SMT DEF InvW, GatewayTypeOK, ArrivedPublished, Inv, TypeOK
  <2> QED
    BY <2>1, EventsStay, SMT DEF InvW
<1>4. ReceivedPublished'
  <2>1. \A c \in Conn : \A n \in Ran(received[c]) : n \in 1..Len(events)
    BY WatchAssumption, SMT DEF InvW, GatewayTypeOK, ReceivedPublished, Ran
  <2>2. \A n \in 1..Len(events) : /\ n \in 1..Len(events') /\ events'[n] = events[n]
                                  /\ req'[events[n]] = req[events[n]]
    BY EventsStay DEF InvW
  <2> QED
    BY <2>1, <2>2, SMT DEF InvW, ReceivedPublished, gatewayVars
<1> QED BY <1>1, <1>2, <1>3, <1>4 DEF InvW

-----------------------------------------------------------------------------
(* The steps of the gateway                                                *)

\* What is sent is added to what was sent.
LEMMA ReceivedAppend ==
  ASSUME NEW q \in Seq(1..MaxEvents), NEW n \in 1..MaxEvents
  PROVE  /\ Append(q, n) \in Seq(1..MaxEvents)
         /\ Ran(Append(q, n)) = Ran(q) \cup {n}
<1>1. Append(q, n) \in Seq(1..MaxEvents)
  OBVIOUS
<1>2. Ran(Append(q, n)) = Ran(q) \cup {n}
  BY DEF Ran
<1> QED BY <1>1, <1>2

\* An element in front of an order that it follows, or need not.
LEMMA OrderAppend ==
  ASSUME NEW q \in Seq(Nat), NEW n \in Nat, NEW s \in Nat,
         \A k, l \in 1..Len(q) : k < l => q[k] < q[l] \/ q[l] <= s,
         n > s => \A k \in 1..Len(q) : q[k] < n,
         NEW i \in 1..Len(Append(q, n)), NEW j \in 1..Len(Append(q, n)), i < j
  PROVE  Append(q, n)[i] < Append(q, n)[j] \/ Append(q, n)[j] <= s
<1>1. /\ i \in 1..Len(q) /\ Append(q, n)[i] = q[i]
      /\ \/ j \in 1..Len(q) /\ Append(q, n)[j] = q[j]
         \/ Append(q, n)[j] = n
  OBVIOUS
<1>2. CASE j \in 1..Len(q) /\ Append(q, n)[j] = q[j]
  BY <1>1, <1>2
<1>3. CASE Append(q, n)[j] = n
  BY <1>1, <1>3, SMT
<1> QED BY <1>1, <1>2, <1>3

\* An event that arrives was published for the post.
LEMMA ArriveStep ==
  ASSUME InvW, NEW p \in Post, NEW n \in 1..MaxEvents, Arrive(p, n), UNCHANGED vars
  PROVE  InvW'
<1>1. Inv'
  BY MainStep DEF InvW, Inv, TypeOK, vars, reqVars, dbVars, mainVars
<1>2. GatewayTypeOK' /\ ReceivedPublished' /\ ReceivedOrder'
  BY SMTT(30) DEF InvW, GatewayTypeOK, ReceivedPublished, ReceivedOrder, Arrive,
     Gateway!Arrive, vars, reqVars
<1>3. ArrivedPublished'
  BY SMTT(30) DEF InvW, GatewayTypeOK, ArrivedPublished, Arrive, Gateway!Arrive, vars, reqVars
<1> QED BY <1>1, <1>2, <1>3 DEF InvW

\* A connection that begins to watch has been sent nothing.
LEMMA WatchStep ==
  ASSUME InvW, NEW c \in Conn, NEW p \in Post, Gateway!Watch(c, p), UNCHANGED vars
  PROVE  InvW'
<1>1. Inv'
  BY MainStep DEF InvW, Inv, TypeOK, vars, reqVars, dbVars, mainVars
<1>2. GatewayTypeOK'
  BY DEF InvW, GatewayTypeOK, Gateway!Watch
<1>3. ArrivedPublished'
  BY DEF InvW, ArrivedPublished, Gateway!Watch, vars, reqVars
<1>4. received[c] = << >>
  BY DEF InvW, ReceivedPublished, Gateway!Watch
<1>5. ReceivedPublished'
  BY <1>4, WatchAssumption, SMTT(30) DEF InvW, GatewayTypeOK, ReceivedPublished, Gateway!Watch,
     vars, reqVars, Ran
<1>6. ReceivedOrder'
  BY <1>4, SMTT(30) DEF InvW, GatewayTypeOK, ReceivedOrder, Gateway!Watch
<1> QED BY <1>1, <1>2, <1>3, <1>5, <1>6 DEF InvW

\* Nobody is sent anything by a connection that ends.
LEMMA LeaveStep ==
  ASSUME InvW, NEW c \in Conn, Gateway!Leave(c), watching[c] # None, UNCHANGED vars
  PROVE  InvW'
<1>1. Inv'
  BY MainStep DEF InvW, Inv, TypeOK, vars, reqVars, dbVars, mainVars
<1>2. GatewayTypeOK' /\ ArrivedPublished' /\ ReceivedOrder'
  BY SMTT(30) DEF InvW, GatewayTypeOK, ArrivedPublished, ReceivedOrder, Gateway!Leave, vars, reqVars
<1>3. ReceivedPublished'
  BY SMTT(30) DEF InvW, GatewayTypeOK, ReceivedPublished, Gateway!Leave, vars, reqVars
<1> QED BY <1>1, <1>2, <1>3 DEF InvW

\* What is appended arrived for the post, and is new unless it is older than the
\* connection.
LEMMA DeliverStep ==
  ASSUME InvW, NEW n \in 1..MaxEvents, NEW C \in SUBSET Conn, Gateway!Deliver(n, C),
         UNCHANGED vars
  PROVE  InvW'
<1>1. Inv'
  BY MainStep DEF InvW, Inv, TypeOK, vars, reqVars, dbVars, mainVars
<1>2. /\ UNCHANGED <<arrived, last, watching, since, closing, events, req>>
      /\ \A c \in Conn \ C : received'[c] = received[c]
      /\ \A c \in C : received'[c] = Append(received[c], n)
  BY DEF Gateway!Deliver, vars, reqVars
<1>3. /\ \A c \in Conn : received[c] \in Seq(1..MaxEvents) /\ received[c] \in Seq(Nat)
      /\ n \in Nat
  BY WatchAssumption, SMT DEF InvW, GatewayTypeOK
<1>4. GatewayTypeOK'
  <2>1. received' \in [Conn -> Seq(1..MaxEvents)]
    <3>1. \A c \in Conn : Append(received[c], n) \in Seq(1..MaxEvents)
      BY <1>3, ReceivedAppend
    <3> QED BY <1>3, <3>1 DEF Gateway!Deliver
  <2> QED BY <1>2, <2>1 DEF InvW, GatewayTypeOK
<1>5. ArrivedPublished'
  BY <1>2 DEF InvW, ArrivedPublished
<1>6. ReceivedPublished'
  <2> SUFFICES ASSUME NEW c \in Conn
               PROVE  /\ watching[c] # None \/ received'[c] # << >> => since[c] # None
                      /\ \A m \in Ran(received'[c]) :
                            /\ m <= Len(events)
                            /\ watching[c] # None => req[events[m]].post = watching[c]
    BY <1>2 DEF ReceivedPublished
  <2>1. CASE c \notin C
    BY <1>2, <2>1 DEF InvW, ReceivedPublished
  <2>2. CASE c \in C
    <3>1. /\ watching[c] \in Post /\ n <= Len(events) /\ req[events[n]].post = watching[c]
      BY <2>2 DEF InvW, GatewayTypeOK, ArrivedPublished, Gateway!Deliver
    <3>2. Ran(Append(received[c], n)) = Ran(received[c]) \cup {n}
      BY <1>3, ReceivedAppend
    <3>3. since[c] # None
      BY <3>1, <2>2 DEF InvW, ReceivedPublished, Gateway!Deliver
    <3> QED BY <1>2, <2>2, <3>1, <3>2, <3>3 DEF InvW, ReceivedPublished
  <2> QED BY <2>1, <2>2
<1>7. ReceivedOrder'
  <2> SUFFICES ASSUME NEW c \in Conn, NEW i \in DOMAIN received'[c],
                      NEW j \in DOMAIN received'[c], i < j
               PROVE  \/ received'[c][i] < received'[c][j]
                      \/ received'[c][j] <= since[c] \/ closing
    BY <1>2 DEF ReceivedOrder
  <2>1. CASE c \notin C
    BY <1>2, <2>1 DEF InvW, ReceivedOrder
  <2>2. CASE c \in C
    <3>1. closing \/ (n > since[c] => \A k \in DOMAIN received[c] : received[c][k] < n)
      BY <2>2 DEF Gateway!Deliver, Gateway!InOrder
    <3>2. since[c] \in Nat
      BY <2>2, WatchAssumption, SMT DEF InvW, GatewayTypeOK, ReceivedPublished, Gateway!Deliver
    <3>3. \A k, l \in DOMAIN received[c] :
             k < l => \/ received[c][k] < received[c][l]
                      \/ received[c][l] <= since[c] \/ closing
      BY DEF InvW, ReceivedOrder
    <3>4. received'[c] = Append(received[c], n)
      BY <1>2, <2>2
    <3>5. /\ DOMAIN received[c] = 1..Len(received[c])
          /\ DOMAIN Append(received[c], n) = 1..Len(Append(received[c], n))
      BY <1>3
    <3>6. CASE ~closing
      BY <1>3, <3>1, <3>2, <3>3, <3>4, <3>5, <3>6, OrderAppend
    <3> QED BY <3>6
  <2> QED BY <2>1, <2>2
<1> QED BY <1>1, <1>4, <1>5, <1>6, <1>7 DEF InvW

\* The end of the gateway sends nothing.
LEMMA CloseStep ==
  ASSUME InvW, Gateway!Close \/ Gateway!Drop, UNCHANGED vars
  PROVE  InvW'
<1>1. Inv'
  BY MainStep DEF InvW, Inv, TypeOK, vars, reqVars, dbVars, mainVars
<1>2. GatewayTypeOK'
  BY DEF InvW, GatewayTypeOK, Gateway!Close, Gateway!Drop
<1>3. ArrivedPublished' /\ ReceivedOrder'
  BY SMTT(30) DEF InvW, GatewayTypeOK, ArrivedPublished, ReceivedOrder, Gateway!Close,
     Gateway!Drop, vars, reqVars
<1>4. ReceivedPublished'
  BY SMTT(30) DEF InvW, GatewayTypeOK, ReceivedPublished, Gateway!Close, Gateway!Drop,
     vars, reqVars
<1> QED BY <1>1, <1>2, <1>3, <1>4 DEF InvW

-----------------------------------------------------------------------------
(* The invariant and what follows from it                                  *)

\* InvW survives every step of the dispatcher and of the gateway.
LEMMA NextWStep ==
  ASSUME InvW, [NextW]_varsW
  PROVE  InvW'
<1>1. CASE Next /\ UNCHANGED gatewayVars
  BY <1>1, DispatcherStep
<1>2. CASE GatewayNext /\ UNCHANGED vars
  BY <1>2, ArriveStep, WatchStep, LeaveStep, DeliverStep, CloseStep DEF GatewayNext
<1>3. CASE UNCHANGED varsW
  BY <1>3, DispatcherStep DEF varsW
<1> QED BY <1>1, <1>2, <1>3 DEF NextW

\* InvW holds in every behaviour of dispatcher and gateway together.
THEOREM WatchInvariance == SpecW => []InvW
<1>1. InitW => InvW
  <2> SUFFICES ASSUME InitW PROVE InvW
    OBVIOUS
  <2>1. Inv
    BY InitInv DEF InitW
  <2>2. GatewayTypeOK
    <3>1. 0 \in 0..MaxEvents /\ << >> \in Seq(1..MaxEvents)
      BY WatchAssumption
    <3>2. /\ arrived = [p \in Post |-> {}] /\ last = 0 /\ closing = FALSE
          /\ watching = [c \in Conn |-> None] /\ since = [c \in Conn |-> None]
          /\ received = [c \in Conn |-> << >>]
      BY DEF InitW, Gateway!Init
    <3> QED BY <3>1, <3>2 DEF GatewayTypeOK
  <2>3. ArrivedPublished /\ ReceivedPublished /\ ReceivedOrder
    BY SMT DEF InitW, Gateway!Init, ArrivedPublished, ReceivedPublished, ReceivedOrder, Ran
  <2> QED BY <2>1, <2>2, <2>3 DEF InvW
<1>2. InvW /\ [NextW]_varsW => InvW'
  BY NextWStep
<1> QED BY <1>1, <1>2, PTL DEF SpecW

\* What reaches a browser is stored, on the post that it watches.
THEOREM SentStored == SpecW => []SentRows
<1>1. InvW => SentRows
  <2> SUFFICES ASSUME InvW, NEW c \in Conn, watching[c] # None, NEW n \in Ran(received[c])
               PROVE  events[n] \in rows /\ req[events[n]].post = watching[c]
    BY DEF SentRows
  <2>1. n \in 1..Len(events) /\ req[events[n]].post = watching[c]
    BY WatchAssumption, SMT DEF InvW, GatewayTypeOK, ReceivedPublished, Ran
  <2>2. events[n] \in rows
    BY <2>1, EventTypes DEF InvW, Inv, EventsStored
  <2> QED BY <2>1, <2>2
<1> QED BY <1>1, WatchInvariance, PTL

\* Service, bus, hub and store keep the order of a client's requests together.
THEOREM CausallyOrdered == SpecW => []CausalOrder
<1>1. InvW => CausalOrder
  <2> SUFFICES ASSUME InvW, NEW c \in Conn, NEW i \in DOMAIN received[c],
                      NEW j \in DOMAIN received[c], i < j,
                      events[received[c][j]] \in after[events[received[c][i]]]
               PROVE  received[c][j] <= since[c] \/ closing
    BY DEF CausalOrder
  <2>1. received[c][i] \in 1..Len(events) /\ received[c][j] \in 1..Len(events)
    BY WatchAssumption, SMT DEF InvW, GatewayTypeOK, ReceivedPublished, Ran
  <2>2. ~(received[c][i] < received[c][j])
    BY <2>1 DEF InvW, Inv, AnsweredOrder
  <2> QED BY <2>2 DEF InvW, ReceivedOrder
<1> QED BY <1>1, WatchInvariance, PTL

\* A browser that missed nothing ends with the reaction that is stored, when the
\* user reacts once at a time and neither query nor publish reported an error.
THEOREM WatchersAgree == SpecW => []WatcherAgrees
<1>1. InvW => WatcherAgrees
  <2> SUFFICES ASSUME InvW, NEW c \in Conn, NEW p \in Post, NEW u \in User,
                      ~closing, watching[c] = p, NewsFor(c, p) \subseteq Ran(received[c]),
                      Sequential(p, u),
                      NEW i \in DOMAIN received[c], received[c][i] > since[c],
                      events[received[c][i]] \in Reactions(p, u),
                      \A j \in DOMAIN received[c] :
                         received[c][j] > since[c] /\ events[received[c][j]] \in Reactions(p, u)
                            => j <= i,
                      events[received[c][i]] # current[p][u],
                      current[p][u] \notin missed
               PROVE  answer[current[p][u]] = "error"
    BY DEF WatcherAgrees
  <2> DEFINE e == events[received[c][i]]
             r == current[p][u]
             n == received[c][i]
             reaction == [kind |-> "reaction", post |-> p, user |-> u]
  \* The stored reaction is one of the user's, and was sent after e was answered.
  <2>1. /\ received[c] \in Seq(1..MaxEvents) /\ DOMAIN received[c] = 1..Len(received[c])
        /\ n \in Nat /\ i \in Nat
    BY WatchAssumption, SMT DEF InvW, GatewayTypeOK
  <2>2. n \in 1..Len(events)
    BY <2>1, WatchAssumption, SMT DEF InvW, ReceivedPublished, Ran
  <2>3. since[c] \in Nat
    BY WatchAssumption, SMT DEF InvW, GatewayTypeOK, ReceivedPublished
  <2>4. e \in Request /\ e \in rows /\ req[e] = reaction
    BY <2>2, EventTypes DEF InvW, Inv, EventsStored, Reactions
  <2>5. r # None /\ r \in rows /\ req[r] = reaction /\ r \notin after[e]
    BY <2>4 DEF InvW, Inv, CurrentLatest
  <2>6. /\ r \in Request /\ pc[r] # "idle" /\ answer[r] # "invalid"
        /\ pc[r] = "answered" => answer[r] \in {"ok", "error"}
    BY <2>5 DEF InvW, Inv, TypeOK, RowsWritten
  <2>7. /\ r \in Reactions(p, u) /\ pc[r] = "answered" /\ answer[r] \in {"ok", "error"}
        /\ e \in after[r]
    <3>1. r \in Reactions(p, u) /\ pc[r] = "answered"
      BY <2>5, <2>6 DEF Reactions, Sequential
    <3>2. r = e \/ r \in after[e] \/ e \in after[r]
      BY <3>1 DEF Sequential
    <3> QED BY <2>5, <2>6, <3>1, <3>2
  \* Unless its query reported an error, its event was sent after that of e.
  <2> SUFFICES ASSUME answer[r] = "ok" PROVE FALSE
    BY <2>7
  <2>8. PICK m \in 1..Len(events) : events[m] = r
    <3>1. r \in Ran(events)
      BY <2>5, <2>6, <2>7 DEF InvW, Inv, WriteSurvivesPublish, Write
    <3> QED BY <3>1 DEF Ran
  <2>9. n < m
    BY <2>2, <2>7, <2>8, SMT DEF InvW, Inv, AnsweredOrder
  \* So the browser was sent it, after e, which is the last of the user's.
  <2>10. PICK k \in DOMAIN received[c] : received[c][k] = m
    <3>1. m \in NewsFor(c, p)
      BY <2>1, <2>3, <2>5, <2>8, <2>9 DEF NewsFor
    <3> QED BY <2>1, <3>1 DEF Ran
  <2>11. k <= i /\ k # i /\ k \in Nat
    BY <2>1, <2>3, <2>7, <2>8, <2>9, <2>10
  <2>12. m < n \/ n <= since[c] \/ closing
    <3>1. \A a, b \in DOMAIN received[c] :
             a < b => \/ received[c][a] < received[c][b]
                      \/ received[c][b] <= since[c] \/ closing
      BY DEF InvW, ReceivedOrder
    <3>2. k < i
      BY <2>1, <2>11, SMT
    <3>3. \/ received[c][k] < received[c][i]
          \/ received[c][i] <= since[c] \/ closing
      BY <3>1, <3>2
    <3> QED BY <2>10, <3>3
  <2> QED
    BY <2>1, <2>3, <2>9, <2>12
<1> QED BY <1>1, WatchInvariance, PTL
=============================================================================

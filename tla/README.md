# A TLA+ model of the social media backend

TLA+ modules, TLC configurations and TLAPS proofs for the Go program in
`src/`: a *dispatcher* that writes posts, comments and reactions to Postgres
and publishes events on Redis, a *gateway* that streams those events to
browsers over Server-Sent Events, the sessions of both, and a chat hub that no
command uses yet.

To check a run, `tlc -workers 2 -config X.cfg M`; to check the proofs,
`tlapm M.tla`. `PROJECT.json` lists every run with its module, the source
lines behind every definition (`map`), the wrong variants that each property
rejects (`mutants`, defined in the modules with the comment "Wrong: ..."), the
hazards of the code and the theorems.

## 1. Inventory

| component | source | state | operations | what is hard |
|---|---|---|---|---|
| message bus | `internal/pubsub` | `subs`, `ps`, `closed`, the reader goroutine, one Go channel per consumer | Publish, Subscribe, Unsubscribe, Close, reader, fanOut | sends against closes; commands that fail or come with a reconnection; Close waiting for the reader |
| subscription store | `internal/subscription` | post -> connection -> channel | Subscribe, Unsubscribe, Publish, Close | closes against sends, drops at a full buffer |
| feed hub | `internal/feed` | post -> entry with refs, bus channel, cancel; one bridge goroutine per entry | Acquire, Release, bridge, Close | reference counts against store, bus and bridges; stale bridges; calls after Close |
| SSE handler, gateway | `internal/handlers/sse.go`, `cmd/gateway` | one goroutine per stream; the order of the defers | SubscribePost; signal, Shutdown, defers | browsers that leave, a shutdown that gives up on open streams |
| event stream | `internal/sse`, `internal/events`, loop of `sse.go` | three buffers and the browser's parser | Split, WriteEvent, heartbeat | broken connections, partial writes, flushes, payloads of others |
| request pipeline | `internal/middleware`, `internal/auth/jwt.go`, both routers | request context, status recorder | RequestID, Logger, QueryTokenAsBearer, Auth, RequireAuth | order of the middlewares, expiry on the way, what is logged |
| sessions | `internal/services/auth.go`, `internal/handlers/auth.go` | the tables users and refresh_tokens | Register, Login, Refresh, Logout | races of Refresh, reuse detection and Logout without transactions; calls that fail |
| feed writes, dispatcher | `internal/services/feed.go`, `internal/handlers/feed.go`, `cmd/dispatcher` | posts, comments, reactions; pool and bus | CreatePost, GetPost, CreateComment, UpsertReaction, publish; shutdown | row and event are two steps; overlapping upserts; shutdown under requests |
| chat hub | `internal/chat` | rooms with members and refs, connections, bridges | JoinRoom, LeaveRoom, LeaveAllForUser, Register, Unregister, bridge, Close | a snapshot left room by room; undo of a failed join; two mirrored maps; bridges of former and present members side by side |
| repositories | `internal/repository` | one table each | Create, GetByID, List, Update, Delete and their likes | an update that is two statements; deletes that race; pages of a list that changes |
| start-up | `internal/config`, `internal/redisclient`, both `main` | none of their own | Load, New | a signal during the start; the order in which things are opened and closed |

They interact so: handlers of the dispatcher call the services, which call the
repositories and `bus.Publish`; Redis carries the payloads to every gateway
that has subscribed to the post; there the one reader of the bus fans them out
to the bridges, which publish them to the store, whose channels the SSE
handlers read. The hub calls bus and store while it holds its own mutex; bus
and store have a mutex each. Handlers, bridges, the reader and `main` are
goroutines.

What makes each of them correct is stated in the module that models it, under
"Properties"; `PROJECT.json` ties the hazards to those properties.

**Not modelled.** The helpers of `internal/auth/password.go` and `refresh.go`
are calls of bcrypt, crypto/rand and sha256; AuthService uses what they
promise, fresh and distinct tokens. `internal/logger` builds a slog handler;
only the request log is observed. `internal/db` opens a GORM connection and is
called by nobody. Of `internal/config` the values that only set addresses and
pool sizes are left out, and of `internal/httputil` the parsing of bodies, which
is an early return of each handler (`Reject`). The start of the gateway is that
of the dispatcher without a pool and is not repeated.

**External.** The pgx repositories and the models that the services import are
not in the tree; their contract is modelled from how the services use it. So
are Redis, go-redis, Postgres, GORM, chi, net/http and the browser. Six of the
files of `internal/models` that the GORM repositories need are empty.

## 2. Modules

```
                        Watch                      rows to browsers
                       /     \
             FeedService      Feed                 what a gateway promises
                               ^ implements
                         FeedHubDelivery           FeedHub and its history
                               | EXTENDS
     SubscriptionStore <-   FeedHub      ChatHub   INSTANCE
                               \         /
                                PubSub             what a bus promises
                                   ^ implements
                               RedisPubSub

     EventStream    RequestPipeline    AuthService    Repositories
```

`RedisPubSub`, `FeedHubDelivery`, `Watch`, `ChatHub`, `AuthService`, `EventStream`,
`RequestPipeline` and `Repositories` each have a module `...Proofs` that extends
them; the proofs about FeedHub are the first part of FeedHubDeliveryProofs, those
about FeedService the first part of WatchProofs. An `MC*` module adds the
symmetry of a run or, for EventStream, the bytes of its payloads.

**PubSub** is what the interface promises (`pubsub.go`): subscribing makes a
new open channel, a message that arrives is offered once to each of the
consumers of that moment, in the order of arrival and dropped only by a full
buffer; Unsubscribe and Close close channels.

**RedisPubSub** is `redis.go`. The mutex is held across the Redis command of
Subscribe and Unsubscribe and across the sends of fanOut, so those are several
actions: `SubscribeFirst` .. `SubscribeDone`/`SubscribeFail`, `FanOutLock`,
`FanOutSend`, `FanOutUnlock`. go-redis remembers the wanted names and sends
them again after `ConnDrop`; the server applies a command at some time after it
was written (`BrokerApply`); a command may fail with or without effect;
`TransportLost` ends `ps.Channel()` for good.

**SubscriptionStore** is `inmemorystore.go`. Each method is one critical
section and one action.

**FeedHub** composes the two with the hub, the handlers and `main`. Every hub
method is cut where another goroutine can intervene: between its call of the
bus and its call of the store (`AcquireFirst`/`AcquireNext`, then
`AcquireRegister`; `ReleaseUnregister`, then `ReleaseKeep` or `ReleaseLast`).
A handler ends because its browser is gone, its channel is closed or a write
failed; `main` goes through Shutdown, which returns when the handlers are done
or after ten seconds, and then the deferred Close of hub and bus. The bus is
used through PubSub, which RedisPubSub implements.

**Feed** is what a gateway promises its browsers, without hub, bus or store: the
messages of the post, none twice, and in the order of their arrival but for
those that are older than the connection, and for a gateway that closes.
**FeedHubDelivery** adds to FeedHub the two histories this promise speaks of
(which messages arrived for a post, where their numbers stood when a connection
began to watch) and maps FeedHub to Feed.

**Watch** puts such a gateway behind the dispatcher: Redis passes on some of
what it accepted, on the channel of its post (`channels.go`). It is the place
for what no component can promise alone.

**EventStream** follows one stream from the channel to the browser: what is
written is a sequence of lines that passes the `bufio.Writer` of WriteEvent,
the response buffer and the connection; the browser's parser dispatches an
event at an empty line. Any number of lines may leave a buffer early and the
connection may break between any two. Split forwards type and data of an
envelope, and bytes that are none, as they are, and WriteEvent prints them with
`%s`: a `Text` is what the field gets and the lines that its newlines begin, any
lines whatever. `expected` is a history variable, the events the browser ought
to dispatch: one for a payload on one line, and for any other the events that
its own lines spell when they are read alone. `Reading` gives those as a constant,
because a run over a sequence is a recursion that the prover could not unfold;
`ReadingAssumption` says that it is the parser's run, which exists for every
payload and is the only one, so it restricts none. Event IDs and the
reconnection time, of which the repository makes no use, are left out.

**RequestPipeline** passes one request at a time through the middlewares of its
process, in the order of `r.Use`, while a clock and the issue of tokens go on. A
stage that answers leaves the return through the Logger; `by` remembers which it
was, since handlers answer 401 too, to a wrong password, a used refresh token or
a subject that is no UUID (`handlers/auth.go:166-172`,
`handlers/feed.go:51-55`). Each process has a clock of its own, and they may
differ: the dispatcher issues tokens by its clock, the gateway checks `nbf` and
`exp` by its own. `TTL` is any integer, since `config.Load` accepts a duration
that is not positive.

**AuthService** makes one action of each repository call, because nothing holds
the calls of a request together. A call may fail with or without effect.
History variables say which tokens clients hold (`handed`), which login a chain
of refreshes began with (`session`) and which sessions a reuse has ended.

**FeedService** is the write side: take a connection of the pool, query,
publish, answer, with the errors of each. `main` loads the configuration, pings
Redis, opens the pool and serves; at the end it stops accepting, waits or gives
up, closes the pool, which waits for the connections in use, then the bus. A
signal may come at any time: before NotifyContext it ends the process, during
the start it takes effect when the server is reached. A server that fails goes
the same way as a signal, so that the process then exits with code 0.

**ChatHub** is `chat.Hub` over `WSStore`. It has the same shape as FeedHub, but
membership is per user, LeaveAllForUser works off a snapshot without the lock,
and Close leaves a hub that works on. `call` is the call inside `Hub.mu`, of
which there is one at a time; the store may change between its steps. Since
nothing calls the hub yet, its callers do anything, but for one
LeaveAllForUser per user at a time. `sendLog` keeps what each connection was sent.

**Repositories** is one table with the methods that the thirteen GORM
repositories share. A record says what tells them apart: their methods, what
List selects, its order, whether the order has a tie-breaker, the default page.
Update (and MarkRead) is an UPDATE and then a SELECT; a client walks through
List with LIMIT and OFFSET while the rows change. A soft-deleted row is to every
method what a deleted one is. Foreign and unique keys are one reason of `Fail`.

## 3. Runs

Ten runs pass and two find a violation (section 4). All explore their whole
state space. Where a run checks `Inv` or `InvH`, that is the inductive invariant
of the proofs.

| run | what it checks | bounds |
|---|---|---|
| `redis_pubsub` | no panic, one Redis subscription per name in use; RedisPubSub implements PubSub; Close returns; `Inv` | 2 names, 2 consumers, 2 messages, 1 Close call |
| `redis_pubsub_loss` | violation: a lost transport ends streams | 1 name, 1 consumer, 1 message |
| `feed_hub` | viewers are served, no panic; FeedHub implements Feed; `InvH` | 2 posts, 2 connections, 2 bus subscriptions, 2 messages, local buffer of 2 |
| `feed_hub_live` | handlers are released, bridges end, messages reach the viewers, the gateway exits | 1 post, 2 connections, 2 bus subscriptions, 1 message |
| `event_stream` | events arrive whole and in order, and are dispatched | 3 payloads: on one line, with newlines in type and data, with lines that are an event of their own; 1 heartbeat |
| `request_pipeline` | handlers act for the bearer, the middlewares refuse no valid token, log and response agree | 1 request of every kind, 2 tokens, 2 users, 2 keys, 2 instants of each clock |
| `request_pipeline_event_source` | violation: an EventSource can open the stream | the same |
| `auth_service` | rotation, reuse, logout, isolation; `Inv` | 4 requests, 2 users, 3 tokens |
| `feed_service` | events after rows, writes survive publishes, order of a client's events, the dispatcher exits; `Inv` | 2 requests, 2 posts, 2 users |
| `watch` | what a browser sees is stored, in the order of the client's requests, and ends with the stored reaction | 2 requests of a user, 2 posts, 3 events, 1 browser |
| `chat_hub` | rooms, members, bus and bridges agree, no panic, LeaveAllForUser leaves, nothing is shown twice | 2 rooms, users, connections, bus subscriptions; 1 message |
| `repositories` | updates return their own or a later state, a row is deleted once, pages cover a list; `Inv` | each of the 13 repositories; 2 rows, owners, keys, calls; pages of 1 row and of the default size |

Why the bounds suffice for what they are meant to show. Two connections give a
viewer beside one that joins or leaves, on the same post or on another; two bus
subscriptions of one post give a stale bridge beside a new one; two messages
give an order; two names, posts, rooms, owners or users give mix-ups. A third
consumer, a second Close, a third connection or request need no run: the
invariants of all modules are proved for any number, and so is a fourth payload
or a third row. Four requests of AuthService give a session of one login, two
refreshes that race on one token and a logout or a reuse beside them. Three
events of Watch are those of two requests, one of them published twice; browsers
do not meet, so that one suffices. Requests of RequestPipeline share only clocks
and tokens; two instants and a TTL of 1 let a token expire before, during and
after the request, and not yet be valid for the other process. The payloads of
`event_stream` have words of their own, so that an event tells whose it is. Two
rows are in order or tie, and a page of one row leaves the second to the next
page. The one message of `chat_hub` can be shown twice but has no order to keep:
that part of `ShownOnce` rests on its theorem, and on TLC with one room and two
messages, for which `MCChatHub.cfg` needs `Room = {a}` and `MaxMsg = 2` (half a
minute).

Buffers of one are full at once; the local buffer of `feed_hub` is 2 so that two
messages can stand in a channel out of order. In `feed_hub_live` one message
never meets a full buffer, and only a full buffer may drop it. A bounded pool
of Go channels (`Sub`) bounds the number of subscriptions: an identifier is
never used twice. CHECK_DEADLOCK is FALSE in every run: closed hubs, ended
processes and requests that are all answered really stop.

**Fairness.** Weak fairness of the steps of goroutines that can run: Go's
scheduler is preemptive. Strong fairness of taking a mutex: `sync.Mutex` hands
over to a waiter after a millisecond. Redis and Postgres calls return, because
redisclient sets timeouts and the drivers obey the request's context; that the
start of a dispatcher goes on rests on the same. Shutdown
returns after ten seconds. Of a `select` with several ready cases only some
case must be taken, less than Go's random choice gives. Browsers, publishers,
operators and the network are never obliged to act, except that a browser
reads its connection in `event_stream`.

## 4. What the code does otherwise than it says

Two runs find a statement of a comment violated:

- `redis_pubsub_loss`: the channels of Subscribe are not closed when the
  transport is lost for good (`pubsub.go:34-37`): the reader returns, the
  consumers wait on.
- `request_pipeline_event_source`: the stream's only method is PUT, and the
  EventSource for which the query token exists can only GET
  (`gateway/main.go:76-77`, `middleware.go:95-96`).

More comments and answers are stronger than the code. The models contain the
behaviour, no run is devoted to it, and what remains true is checked:

- A bridge may publish after its context was cancelled (`hub.go:144-145`),
  since a select with two ready cases picks either. So a connection that joins
  a post just left by its last viewer may see an old message after newer ones;
  Feed allows just that, and `ImplementsFeed` shows that nothing else reorders
  and nothing is repeated.
- The store is closed while handlers run (`inmemorystore.go:156-158`), because
  Shutdown does not end streams. The handlers see their channel closed
  (`NoPanic`, `ShutdownTerminates`).
- Release is not safe for an unknown connection (`hub.go:122`): after Close a
  handler admitted before makes a new entry, and the Release of an older
  handler takes its reference. `ViewersServed` is therefore about the time
  before Close; `ImplementsFeed`, `NoPanic`, `GoneReleased` and
  `ShutdownTerminates` say what holds after it.
- A payload of several lines is passed to WriteEvent, whose data must be one
  (`writer.go:30-31`), and its later lines may end the event, begin others or
  change the type. `EventsIntact` and `EventuallyDispatched` say what then holds:
  the browser dispatches what these lines spell, and the events before and after
  them stay whole and arrive. What they spell is the publisher's business.
- Reuse of a refresh token is answered "all sessions revoked"
  (`handlers/auth.go:171`) also when RevokeAllForUser failed, for Refresh drops
  its error (`auth.go:123`). `ReuseEndsSessions` speaks of the sessions that the
  call did revoke: none of them lives on through a Refresh under way.
- Unregister by the handler of a replaced chat connection closes the newer one
  (`wsstore.go:40`), and JoinRoom of an unregistered user returns nil without
  joining (`chat/hub.go:37`). `NoPanic` and `RoomsServed` hold all the same: nothing is
  sent to the closed channel, and members, counts and bridges agree.
- Release drops the error of UNSUBSCRIBE (`feed/hub.go:140`), and a Subscribe that
  failed may have subscribed the server. `SubscribedExactly` exempts the names
  whose last command failed, until the next one succeeds.

Some properties carry a condition that is the code's. `ValidAccepted` speaks of
the 401 of Auth and RequireAuth, not of a handler's own. And it does not say
that a fresh token is accepted everywhere: one issued by a dispatcher whose
clock is ahead is refused by a gateway until its own clock gets there, as `nbf`
is checked without leeway (`jwt.go:37`). `PagesCoverList` holds of rows that do
not tie: eight of the repositories order by a timestamp alone. `WatcherAgrees`
needs a user who reacts once at a time: two overlapping upserts may be stored in
one order and published in the other (`feed.go:95-107`). `RoomsServed` counts
members, and a user whose connection is gone stays one until LeaveAllForUser.
`AnsweredOrder`, `CausalOrder` and `WatcherAgrees` take a PUBLISH as done, with
or without effect, when its call returns; one that times out in the client and
is accepted by Redis after the answer is not modelled.

## 5. Proofs

TLAPS checks the theorems for every value of the constants that satisfies the
module's ASSUME (buffers are positive, `None` is none of the others, the sets of
connections, users and row numbers are finite where they are counted, keys and
limits are integers). In each module one lemma per action shows that it preserves
the inductive invariant, and the safety properties follow from it. TLC also checks
that invariant in a run, but for those of Watch, RequestPipeline and EventStream,
whose runs check what follows. Every invariant that a passing run checks is a
theorem.

- **RedisPubSubProofs.** `NoPanic` is not inductive: it needs who holds `mu`
  (`LockConsistent`), that exactly the open channels are listed and that the
  reader sends only to listed ones while it holds `mu`
  (`ConsumersConsistent`). `SubscribedExactly` needs what holds while a command
  is under way (`WantedConsistent`), the order of streams the order of messages
  delivered, at hand and ahead (`OrderConsistent`). `Implementation` is the
  refinement of PubSub, by a step of the contract or a stutter for each action.
- **FeedHubDeliveryProofs.** First the hub alone. `ViewersServed` speaks of the
  moments when nobody is in the hub; the invariant also says how count, store,
  bus and bridges differ while a handler is inside: a handler inside Release has
  left the store and still counts, one inside Acquire has an entry and does not
  count yet (`RefsConsistent`, `EntryConsistent`). Lemmas on cardinality carry
  the count. Then the deliveries: `Delivery` is the refinement of Feed. A
  delivery of Feed is the step `BridgePublish`, and that the message is new to
  the connections that get it needs the way of every message. A post has one bus
  subscription at a time (`SubsOwned`), so that the logs of the bridges that
  served it are disjoint and each of them increases (`OfferedOnce`,
  `LogsOrdered`). What a connection was sent was published by some bridge of its
  post (`SentOnward`), and what bridges without an entry still have came before
  the viewers of today began to watch (`OldLogsSeen`, `SinceKnown`). So a
  message that the bridge of the entry publishes is newer than everything it
  published before, and one that an old bridge publishes is older than `since`.
- **WatchProofs.** First the dispatcher alone: a request that goes on to publish
  has its row (`PublishersStored`), what became of an event is known when the
  request is answered (`PublishedAnswered`), and answers are final
  (`AfterAnswered`). `AnsweredOrder` then follows: when an event is appended, the
  requests it comes after were answered, and those waited for by its client have
  theirs already. To this is added the invariant of a gateway which promises no
  more than Feed: messages are what was published (`ArrivedPublished`,
  `ReceivedPublished`), in order unless they are older than the connection
  (`ReceivedOrder`). `CausalOrder` combines the latter with `AnsweredOrder`.
  `WatcherAgrees` needs that the stored reaction was written by no request that
  others of its kind had waited for (`CurrentLatest`) and that a row comes only
  with its query (`RowsWritten`): of a user who reacts once at a time the stored
  reaction is the last, so that its event was published after the others, and a
  browser that missed nothing was sent it after them.
- **EventStreamProofs.** That a prefix was dispatched is not inductive: what is
  half parsed, on the connection, in the response's buffer and in the
  `bufio.Writer` must be the rest of what was written. `PendingExpected` says it by
  a run of the parser over those lines (`Reads`), from the event under construction
  to an empty one, that completes exactly the expected events; a connection that
  breaks cuts the run short. The lemmas join two such runs, cut one at any line,
  move a line from one buffer to the next, and give the run over the lines of
  WriteEvent: for a payload on one line it is computed (`ReadOneLine`), for any
  other it is that of `Reading`, put behind the events before it (`ReadBehind`).
  Payloads are not restricted: the last line WriteEvent prints is empty, so that
  whatever the bytes were nothing is left half read (`ReadPayload`).
- **ChatHubProofs.** The two maps of WSStore mirror each other
  (`MembersMirrored`); refs counts the members, but for the one whose JoinRoom
  is between store and hub (`RefsConsistent`); the bus's subscriptions are those of
  the entries, and a bridge that was told to stop has none (`BusConsistent`,
  `EntryConsistent`, `BridgesOwned`). Among the results is that every bridge
  without an entry has been cancelled, which is what its end depends on. For
  `ShownOnce` that is only the start: a cancelled bridge may go on with what it
  buffered while the next one of the room runs. But a room has one subscription
  at a time, so that a message is in the log of one channel only
  (`LogsDisjoint`), and what a connection was sent some bridge took from its log
  before what it now holds (`SentTaken`).
- **AuthServiceProofs.** The key of `SingleLiveToken` and `RotationRecorded` is
  `SuccessorsConsistent`: between the issue of a new token and the revocation
  of the old one only the request itself knows the new one, and Revoke succeeds
  at most once per row. `ReuseEndsSessions` adds that tokens of an ended session
  are not active once handed out.
- **RequestPipelineProofs.** What a request has ahead says what is known of it.
  Before Auth there are no claims, and the header is that of the client until
  QueryTokenAsBearer (`BearerPresented`), so that Auth looks for the token where
  the client presented it. From Auth on the claims are those of that token,
  which was accepted, or the request has been refused and the token was not
  valid for this process (`ClaimsPresented`; a 401 that is not the handler's
  leaves no claims): clocks only go forward and nobody issues a token by a clock
  that is ahead of the dispatcher's (`ClocksConsistent`). Only a stream sends a
  status before the Logger learns of it (`StatusConsistent`).
- **RepositoriesProofs.** Rows go from fresh to live to gone and never back, and
  writes are only added (`CallsConsistent`, `EffectsConsistent`); so what a
  SELECT reads after an UPDATE is that update or a later one, and a second
  DELETE affects no row. For `PagesCoverList` a row has a place in its list, the
  number of rows in front of it (`Rank`). When no rows tie there is one ordering
  and each row stands in it where Rank says (`OrderedByRank`), so that a page at an
  offset has the rows of the ranks from there (`PageByRank`). Inserts only raise
  the ranks of the others and deletes only lower them (`RankMonotone`,
  `RankAntitone`): without deletes the rows from the start whose rank is below the
  offset were seen, without inserts the rows that were seen are below it
  (`WalkConsistent`). `Limits` are any integers: zero and less stand for the
  default, which is what makes an empty page the last one.

Only model-checked: liveness, since fairness and ENABLED are beyond the prover
(`CloseReturns`, `EventuallyForwarded`, `GoneReleased`, `CancelledBridgeStops`,
`ShutdownTerminates`, `EventuallyDispatched`, `DispatcherExits`). The safety on
which it depends is proved: who holds a mutex, which channels are open, which
bridges were cancelled. The two runs that find a violation have nothing to prove.

## 6. Plan

The order of the work, the most important first:

1. done: bus, store, feed hub and gateway, sessions, with their proofs;
2. done: feed writes with the dispatcher's start and end, chat hub, repositories,
   request pipeline, event stream, with their proofs;
3. done: what a gateway promises (Feed), that the hub keeps it, and the path of
   an event from the row to the browser (Watch), with their proofs;
4. open: EventStream as the end of the path, so that Watch speaks of what the
   browser dispatches and not of what its stream is sent;
5. open: the chat hub as the hub of a command, with the callers it then has.

---------------------------- MODULE FeedService ----------------------------
(***************************************************************************)
(* The write side of the system: the dispatcher process                    *)
(* (cmd/dispatcher/main.go), its feed handlers (internal/handlers/feed.go) *)
(* and FeedService (internal/services/feed.go), which stores a comment or  *)
(* a reaction in Postgres and then publishes it on the bus, best effort.   *)
(*                                                                         *)
(* Every request runs in a goroutine of its own.  The Postgres pool and    *)
(* Redis are external: a query takes a connection, is applied or not, and  *)
(* may report an error although it was applied; a publish may fail although*)
(* the server accepted it, and go-redis may send it twice.                 *)
(***************************************************************************)
EXTENDS Naturals, Sequences, SequencesExt

CONSTANTS Request, Post, User,
          None

ASSUME FeedServiceAssumption == None \notin Request /\ Post # {} /\ User # {}

Kind == {"post", "get", "comment", "reaction"}
Write == {"comment", "reaction"}

VARIABLES
    pc,         \* "idle", "accepted", "querying", "publishing" or "answered"
    req,        \* request -> [kind, post, user]
    answer,     \* request -> "none", "ok", "invalid", "notfound" or "error"
    after,      \* request -> requests answered before it was accepted
    posts,      \* live posts
    rows,       \* requests whose comment or reaction was written
    current,    \* post -> user -> the request that last wrote the reaction
    events,     \* the requests whose events the bus accepted, in that order
    missed,     \* requests whose publish reported an error
    busClosed,
    main,       \* "loading", "redis", "pool" at start, "serving", "shutdown",
                \* "poolclose", "busclose" or "exited"
    stopping    \* the root context is cancelled, or the server has failed

reqVars == <<pc, req, answer, after>>
mainVars == <<main, stopping>>
dbVars == <<posts, rows, current>>
vars == <<reqVars, dbVars, events, missed, busClosed, mainVars>>

Running == main # "exited"

NoRequest == [kind |-> "get", post |-> CHOOSE p \in Post : TRUE,
              user |-> CHOOSE u \in User : TRUE]

\* The tables as earlier processes left them.
InitData ==
    /\ pc = [r \in Request |-> "idle"]
    /\ req = [r \in Request |-> NoRequest]
    /\ answer = [r \in Request |-> "none"]
    /\ after = [r \in Request |-> {}]
    /\ posts \in SUBSET Post
    /\ rows = {}
    /\ current = [p \in Post |-> [u \in User |-> None]]
    /\ events = << >>
    /\ missed = {}
    /\ busClosed = FALSE

Init == InitData /\ main = "loading" /\ stopping = FALSE

Answer(r, a) ==
    /\ pc' = [pc EXCEPT ![r] = "answered"]
    /\ answer' = [answer EXCEPT ![r] = a]
    /\ UNCHANGED <<req, after>>

-----------------------------------------------------------------------------
(* Handlers: the checks before the service is called                       *)

\* Wrong: the publish is left to a goroutine and the answer written at once.
Answered_BeforePublish == {r \in Request : pc[r] \in {"publishing", "answered"}}

\* Requests whose answer the client has.
Answered == {r \in Request : pc[r] = "answered"}

\* The ID of a new post is fresh.
Accept(r, k, p, u) ==
    /\ main = "serving"
    /\ pc[r] = "idle"
    /\ k = "post" => p \notin posts /\ \A q \in Request : req[q].kind = "post" => req[q].post # p
    /\ pc' = [pc EXCEPT ![r] = "accepted"]
    /\ req' = [req EXCEPT ![r] = [kind |-> k, post |-> p, user |-> u]]
    /\ after' = [after EXCEPT ![r] = Answered]
    /\ UNCHANGED <<answer, dbVars, events, missed, busClosed, mainVars>>

\* No claims, a bad ID, body, or reaction type.
Reject(r) ==
    /\ main = "serving"
    /\ pc[r] = "idle"
    /\ Answer(r, "invalid")
    /\ UNCHANGED <<dbVars, events, missed, busClosed, mainVars>>

-----------------------------------------------------------------------------
(* The repository call                                                     *)

\* Wrong: the event goes out before the write.
Acquire_PublishFirst(r) ==
    /\ pc[r] = "accepted"
    /\ main \in {"serving", "shutdown"}
    /\ pc' = [pc EXCEPT ![r] = "querying"]
    /\ events' = IF req[r].kind \in Write THEN Append(events, r) ELSE events
    /\ UNCHANGED <<req, answer, after, dbVars, missed, busClosed, mainVars>>

Acquire(r) ==
    /\ pc[r] = "accepted"
    /\ main \in {"serving", "shutdown"}
    /\ pc' = [pc EXCEPT ![r] = "querying"]
    /\ UNCHANGED <<req, answer, after, dbVars, events, missed, busClosed, mainVars>>

\* No connection: the browser is gone and its context cancelled, Postgres
\* cannot be reached, or the pool is closed.
AcquireFail(r) ==
    /\ Running
    /\ pc[r] = "accepted"
    /\ Answer(r, "error")
    /\ UNCHANGED <<dbVars, events, missed, busClosed, mainVars>>

\* What the query of request r changes.
Apply(r) ==
    LET p == req[r].post  u == req[r].user IN
    /\ posts' = IF req[r].kind = "post" THEN posts \cup {p} ELSE posts
    /\ rows' = IF req[r].kind \in Write THEN rows \cup {r} ELSE rows
    /\ current' = IF req[r].kind = "reaction"
                  THEN [current EXCEPT ![p][u] = r] ELSE current

\* CreatePost needs nothing, the others a live post.
Found(r) == req[r].kind = "post" \/ req[r].post \in posts

\* CreatePost and GetPost answer, the others go on to publish.
Store(r) ==
    /\ Running
    /\ pc[r] = "querying"
    /\ Found(r)
    /\ Apply(r)
    /\ IF req[r].kind \in Write
       THEN pc' = [pc EXCEPT ![r] = "publishing"] /\ UNCHANGED <<req, answer, after>>
       ELSE Answer(r, "ok")
    /\ UNCHANGED <<events, missed, busClosed, mainVars>>

\* Wrong: a query without a row is waited for.
NotFound_Never(r) == FALSE /\ UNCHANGED vars

\* ErrPostNotFound.
NotFound(r) ==
    /\ Running
    /\ pc[r] = "querying"
    /\ ~Found(r)
    /\ Answer(r, "notfound")
    /\ UNCHANGED <<dbVars, events, missed, busClosed, mainVars>>

\* The query fails, or its answer is lost after it was applied.
StoreFail(r) ==
    /\ Running
    /\ pc[r] = "querying"
    /\ Answer(r, "error")
    /\ \/ UNCHANGED dbVars
       \/ Found(r) /\ Apply(r)
    /\ UNCHANGED <<events, missed, busClosed, mainVars>>

-----------------------------------------------------------------------------
(* FeedService.publish: whatever it returns, the write has succeeded       *)

Publish(r) ==
    /\ Running
    /\ pc[r] = "publishing"
    /\ ~busClosed
    /\ events' \in {Append(events, r), events \o <<r, r>>}
    /\ Answer(r, "ok")
    /\ UNCHANGED <<dbVars, missed, busClosed, mainVars>>

\* Wrong: the failed publish fails the request.
PublishFail_Fails(r) ==
    /\ Running
    /\ pc[r] = "publishing"
    /\ missed' = missed \cup {r}
    /\ Answer(r, "error")
    /\ UNCHANGED <<dbVars, events, busClosed, mainVars>>

PublishFail(r) ==
    /\ Running
    /\ pc[r] = "publishing"
    /\ events' = events \/ (~busClosed /\ events' = Append(events, r))
    /\ missed' = missed \cup {r}
    /\ Answer(r, "ok")
    /\ UNCHANGED <<dbVars, busClosed, mainVars>>

-----------------------------------------------------------------------------
(* main: the start                                                         *)

\* What Load reads, as far as it looks at it: the length of the secret, and
\* whether REDIS_DB and the two durations parse.
Environment ==
    [appEnv : {"dev", "prod", "other"}, secret : {0, 31, 32},
     redisDB : BOOLEAN, accessTTL : BOOLEAN, refreshTTL : BOOLEAN]

Valid(e) ==
    /\ e.redisDB /\ e.accessTTL /\ e.refreshTTL
    /\ e.appEnv \in {"dev", "prod"}
    /\ e.secret >= 32

Start(from, to) ==
    /\ main = from
    /\ main' = to
    /\ UNCHANGED <<reqVars, dbVars, events, missed, busClosed, stopping>>

\* os.Exit(1), without the deferred calls.
Load == \E e \in Environment : Start("loading", IF Valid(e) THEN "redis" ELSE "exited")

\* redisclient.New pings, for two seconds at most and not under a cancelled
\* context; a signal may also come too late for that.
ConnectRedis == Start("redis", "pool") \/ Start("redis", "exited")

\* pgxpool.New does not connect; a DSN that does not parse ends the process.
\* Then the server starts to listen, whether a signal came or not.
OpenPool == Start("pool", "serving") \/ Start("pool", "exited")

\* SIGINT or SIGTERM, or the server fails: the select of main takes either.
\* Before NotifyContext a signal ends the process.
Signal ==
    /\ main \in {"loading", "redis", "pool", "serving"} /\ ~stopping
    /\ stopping' = TRUE
    /\ main' = CASE main = "loading" -> "exited"
                [] main = "serving" -> "shutdown"
                [] OTHER -> main
    /\ UNCHANGED <<reqVars, dbVars, events, missed, busClosed>>

-----------------------------------------------------------------------------
(* main: the end                                                           *)

\* The signal came during the start; the server may have taken requests since.
Stop == stopping /\ Start("serving", "shutdown")

\* srv.Shutdown returns: all requests are answered, or ten seconds are over.
ShutdownReturns == Start("shutdown", "poolclose")

\* pool.Close waits for the connections that are in use.
PoolClosed ==
    /\ \A r \in Request : pc[r] # "querying"
    /\ Start("poolclose", "busclose")

BusClose ==
    /\ main = "busclose" /\ ~busClosed
    /\ busClosed' = TRUE
    /\ UNCHANGED <<reqVars, dbVars, events, missed, mainVars>>

\* redisClient.Close, and main returns.
Exit ==
    /\ busClosed
    /\ Start("busclose", "exited")

-----------------------------------------------------------------------------
Connect(r) == Acquire(r) \/ AcquireFail(r)
Query(r) == Store(r) \/ NotFound(r)
Send(r) == Publish(r) \/ PublishFail(r)
StartStep == Load \/ ConnectRedis \/ OpenPool
StopStep == ShutdownReturns \/ PoolClosed \/ BusClose \/ Exit

Next ==
    \/ \E r \in Request :
          \/ \E k \in Kind, p \in Post, u \in User : Accept(r, k, p, u)
          \/ Reject(r) \/ Connect(r) \/ Query(r) \/ StoreFail(r) \/ Send(r)
    \/ StartStep \/ Signal \/ Stop \/ StopStep

Spec == Init /\ [][Next]_vars

\* Goroutines run on, Postgres and Redis answer each call (Redis within its
\* read timeout), the ten seconds of Shutdown pass.
Fairness ==
    /\ \A r \in Request : WF_vars(Connect(r)) /\ WF_vars(Query(r)) /\ WF_vars(Send(r))
    /\ WF_vars(StartStep) /\ WF_vars(Stop) /\ WF_vars(StopStep)

FairSpec == Spec /\ Fairness

-----------------------------------------------------------------------------
(* Properties                                                              *)

Ran(q) == {q[i] : i \in 1..Len(q)}

TypeOK ==
    /\ pc \in [Request -> {"idle", "accepted", "querying", "publishing", "answered"}]
    /\ req \in [Request -> [kind : Kind, post : Post, user : User]]
    /\ answer \in [Request -> {"none", "ok", "invalid", "notfound", "error"}]
    /\ after \in [Request -> SUBSET Request]
    /\ posts \in SUBSET Post
    /\ rows \in SUBSET Request
    /\ current \in [Post -> [User -> Request \cup {None}]]
    /\ events \in Seq(Request)
    /\ missed \in SUBSET Request
    /\ busClosed \in BOOLEAN
    /\ main \in {"loading", "redis", "pool", "serving", "shutdown",
                "poolclose", "busclose", "exited"}
    /\ stopping \in BOOLEAN

\* Nobody is told of a comment or reaction that Postgres does not have: also
\* with failing queries and publishes an event is preceded by its row, and by
\* the post it belongs to (feed.go:21-26).
EventsStored ==
    \A r \in Ran(events) : r \in rows /\ req[r].post \in posts

\* "A failed publish is logged and the write still succeeds": a write that is
\* answered is answered ok iff its query reported no error, and then its event
\* was accepted unless the failure was logged.
WriteSurvivesPublish ==
    \A r \in Request : pc[r] = "answered" /\ req[r].kind \in Write =>
        /\ answer[r] = "ok" => r \in rows /\ (r \in Ran(events) \/ r \in missed)
        /\ r \in Ran(events) \cup missed => answer[r] = "ok"

\* A client that waits for an answer before its next request has its events
\* published in the order of its requests; only those of overlapping requests
\* may be swapped.
AnsweredOrder ==
    \A i, j \in 1..Len(events) :
        i < j => events[j] \notin after[events[i]]

\* The dispatcher exits after a signal or when its server fails, also during
\* the start and with requests under way.
DispatcherExits == stopping ~> main = "exited"

-----------------------------------------------------------------------------
(* The invariant behind them                                               *)

\* A request that goes on to publish has its row, on a live post.
PublishersStored ==
    \A r \in Request : pc[r] = "publishing" =>
        req[r].kind \in Write /\ r \in rows /\ req[r].post \in posts

\* What became of the event is known only when the request is answered.
PublishedAnswered ==
    \A r \in Ran(events) \cup missed : pc[r] = "answered"

\* A client waits for answers, which are final.
AfterAnswered ==
    \A r, q \in Request : q \in after[r] => pc[q] = "answered"

\* A request has its answer at the end, and a row only after its query.
RowsWritten ==
    \A r \in Request :
        /\ pc[r] = "answered" <=> answer[r] # "none"
        /\ r \in rows => /\ pc[r] \in {"publishing", "answered"}
                        /\ answer[r] \in {"none", "ok", "error"}

\* The stored reaction is a row, and none was written after its answer.
CurrentLatest ==
    \A p \in Post, u \in User :
        LET r == current[p][u]  reaction == [kind |-> "reaction", post |-> p, user |-> u] IN
        /\ r # None => r \in rows /\ req[r] = reaction
        /\ \A q \in rows : req[q] = reaction => r # None /\ r \notin after[q]

Inv == /\ TypeOK /\ PublishersStored /\ PublishedAnswered /\ AfterAnswered
       /\ RowsWritten /\ CurrentLatest
       /\ EventsStored /\ WriteSurvivesPublish /\ AnsweredOrder
=============================================================================

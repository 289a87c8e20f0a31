-------------------------- MODULE RequestPipeline --------------------------
(***************************************************************************)
(* What happens to an HTTP request before and around its handler, in both  *)
(* processes: the routers of cmd/gateway/main.go and                       *)
(* cmd/dispatcher/main.go, the middlewares of                              *)
(* internal/middleware/middleware.go and the access tokens of              *)
(* internal/auth/jwt.go.  The mux of chi is external.                      *)
(*                                                                         *)
(* The requests of one connection are handled one after the other; those   *)
(* of other connections share only the clocks and the issued tokens.  A    *)
(* request works off todo, the stages ahead of it; a stage that answers    *)
(* leaves only the return through the Logger.                              *)
(***************************************************************************)
EXTENDS Integers, Sequences

CONSTANTS Token, User,
          None,
          TTL,            \* JWT_ACCESS_TTL, any duration (config.go:72)
          MaxTime,        \* bound on the clocks
          MaxRequests     \* bound on the requests of the connection

ASSUME RequestPipelineAssumption ==
    /\ TTL \in Int
    /\ MaxTime \in Nat /\ MaxRequests \in Nat
    /\ None \notin Token /\ "basic" \notin Token

Binary == {"gateway", "dispatcher"}

VARIABLES
    now,            \* process -> its clock
    tokens,         \* token -> None or what it says
    todo,           \* the stages that the request has ahead
    req,            \* [binary, method, path, header, query, xid, started]
    authorization,  \* the Authorization header as the next stage sees it
    claims,         \* in the context: None or what a token says
    id,             \* request ID in the context and on the response
    logId,          \* request ID in the context of the Logger
    status,         \* statusRecorder.status
    sent,           \* the status on the connection
    by,             \* the stage that answered
    log,            \* what the Logger wrote, [id, status]
    client          \* the responses on the connection, [id, status]

context == <<req, authorization, claims, id, logId>>
response == <<status, sent, by>>
outcome == <<log, client>>
vars == <<now, tokens, todo, context, response, outcome>>

\* The methods of each path.
Methods ==
    [healthz |-> {"GET"}, subscription |-> {"PUT"}, auth |-> {"POST"},
     posts |-> {"POST"}, post |-> {"GET"}, comments |-> {"POST"},
     reactions |-> {"PUT"}]

Paths == [gateway |-> {"healthz", "subscription"},
          dispatcher |-> DOMAIN Methods \ {"subscription"}]

\* Mounted under RequireAuth.
Protected == DOMAIN Methods \ {"healthz", "auth"}

\* Wrong: Auth comes before the query token is put into the header.
Middlewares_Swapped ==
    [gateway |-> <<"RequestID", "Logger", "Auth", "QueryTokenAsBearer", "Route">>,
     dispatcher |-> <<"RequestID", "Logger", "Auth", "Route">>]

\* In the order of Use, and then the mux.
Middlewares ==
    [gateway |-> <<"RequestID", "Logger", "QueryTokenAsBearer", "Auth", "Route">>,
     dispatcher |-> <<"RequestID", "Logger", "Auth", "Route">>]

NoRequest == [binary |-> "gateway", method |-> "GET", path |-> "healthz",
              header |-> None, query |-> None, xid |-> None, started |-> 0]

Init ==
    /\ now \in [Binary -> 0..MaxTime]
    /\ tokens = [t \in Token |-> None]
    /\ todo = << >>
    /\ req = NoRequest
    /\ authorization = None /\ claims = None
    /\ id = None /\ logId = None
    /\ status = "none" /\ sent = "none" /\ by = None
    /\ log = << >> /\ client = << >>

-----------------------------------------------------------------------------
(* Access tokens                                                           *)

\* By the clock of the dispatcher; the key is JWT_SECRET or somebody else's.
\* Nobody has sent the token before.
GenerateAccessToken(t, u, k) ==
    /\ tokens[t] = None /\ t \notin {req.header, req.query}
    /\ tokens' = [tokens EXCEPT ![t] =
                     [user |-> u, key |-> k, nbf |-> now["dispatcher"],
                      exp |-> now["dispatcher"] + TTL]]
    /\ UNCHANGED <<now, todo, context, response, outcome>>

\* By the clock of the process that asks, without leeway.
ParseAccessToken(t) ==
    /\ tokens[t] # None
    /\ tokens[t].key = "ours"
    /\ tokens[t].nbf <= now[req.binary] /\ now[req.binary] < tokens[t].exp

Tick(b) ==
    /\ now[b] < MaxTime
    /\ now' = [now EXCEPT ![b] = @ + 1]
    /\ UNCHANGED <<tokens, todo, context, response, outcome>>

-----------------------------------------------------------------------------
(* The middlewares                                                         *)

Arrive(b, m, p, h, q, x) ==
    /\ todo = << >>
    /\ Len(client) < MaxRequests
    /\ todo' = Middlewares[b]
    /\ req' = [binary |-> b, method |-> m, path |-> p, header |-> h,
               query |-> q, xid |-> x, started |-> now[b]]
    /\ authorization' = h
    /\ UNCHANGED <<now, tokens, claims, id, logId, response, outcome>>

\* The stage s is next, and passes the request on.
Pass(s) == todo # << >> /\ Head(todo) = s /\ todo' = Tail(todo)

\* The stage s is next, and answers.  Of several calls of WriteHeader the
\* connection takes the first.
Answer(s, code) ==
    /\ todo # << >> /\ Head(todo) = s
    /\ todo' = <<"Return">>
    /\ status' = code
    /\ sent' = IF sent = "none" THEN code ELSE sent
    /\ by' = s

RequestID ==
    /\ Pass("RequestID")
    /\ id' = IF req.xid = None THEN "generated" ELSE req.xid
    /\ UNCHANGED <<now, tokens, req, authorization, claims, logId, response, outcome>>

Logger ==
    /\ Pass("Logger")
    /\ logId' = id
    /\ UNCHANGED <<now, tokens, req, authorization, claims, id, response, outcome>>

\* Wrong: the query replaces a header.
QueryTokenAsBearer_Overrides ==
    /\ Pass("QueryTokenAsBearer")
    /\ authorization' = IF req.query # None THEN req.query ELSE authorization
    /\ UNCHANGED <<now, tokens, req, claims, id, logId, response, outcome>>

QueryTokenAsBearer ==
    /\ Pass("QueryTokenAsBearer")
    /\ authorization' = IF authorization = None THEN req.query ELSE authorization
    /\ UNCHANGED <<now, tokens, req, claims, id, logId, response, outcome>>

\* A header that is not "Bearer ..." carries no token.
bearerToken == IF authorization \in Token THEN authorization ELSE None

AuthAnonymous ==
    /\ Pass("Auth")
    /\ bearerToken = None
    /\ UNCHANGED <<now, tokens, context, response, outcome>>

AuthClaims ==
    /\ Pass("Auth")
    /\ bearerToken # None
    /\ ParseAccessToken(bearerToken)
    /\ claims' = tokens[bearerToken]
    /\ UNCHANGED <<now, tokens, req, authorization, id, logId, response, outcome>>

AuthRefuse ==
    /\ bearerToken # None
    /\ ~ParseAccessToken(bearerToken)
    /\ Answer("Auth", "401")
    /\ UNCHANGED <<now, tokens, context, outcome>>

RequireAuth ==
    /\ Pass("RequireAuth")
    /\ claims # None
    /\ UNCHANGED <<now, tokens, context, response, outcome>>

RequireAuthRefuse ==
    /\ claims = None
    /\ Answer("RequireAuth", "401")
    /\ UNCHANGED <<now, tokens, context, outcome>>

-----------------------------------------------------------------------------
(* The mux and the handlers                                                *)

Route ==
    /\ todo = <<"Route">>
    /\ req.path \in Paths[req.binary]
    /\ todo' = IF req.path \in Protected THEN <<"RequireAuth", "Method">>
               ELSE <<"Method">>
    /\ UNCHANGED <<now, tokens, context, response, outcome>>

RouteMissing ==
    /\ req.path \notin Paths[req.binary]
    /\ Answer("Route", "404")
    /\ UNCHANGED <<now, tokens, context, outcome>>

Method ==
    /\ todo = <<"Method">>
    /\ req.method \in Methods[req.path]
    /\ todo' = <<"Handler">>
    /\ UNCHANGED <<now, tokens, context, response, outcome>>

MethodNotAllowed ==
    /\ todo = <<"Method">>
    /\ req.method \notin Methods[req.path]
    /\ Answer("Method", "405")
    /\ UNCHANGED <<now, tokens, context, outcome>>

\* The paths whose handlers answer 401 themselves: to a wrong password, a refresh
\* token that was used, a subject that is no UUID.
Refusing == {"auth", "posts", "comments", "reactions"}

\* A handler that answers with WriteHeader, also SubscribePost when it refuses;
\* 200, 400 and 500 stand for the others of their class.
Handle(code) ==
    /\ code = "401" => req.path \in Refusing
    /\ Answer("Handler", code)
    /\ UNCHANGED <<now, tokens, context, outcome>>

\* SubscribePost flushes the headers, and with them status 200 ...
Stream ==
    /\ todo = <<"Handler">>
    /\ req.path = "subscription"
    /\ sent' = "200" /\ by' = "Handler"
    /\ todo' = <<"Write">>
    /\ UNCHANGED <<now, tokens, context, status, outcome>>

\* Wrong: the status of a response without WriteHeader is not noted.
Write_NoDefault ==
    /\ todo = <<"Write">>
    /\ todo' = <<"Return">>
    /\ UNCHANGED <<now, tokens, context, response, outcome>>

\* ... and then writes: statusRecorder.Write.
Write ==
    /\ todo = <<"Write">>
    /\ status' = IF status = "none" THEN "200" ELSE status
    /\ todo' = <<"Return">>
    /\ UNCHANGED <<now, tokens, context, sent, by, outcome>>

\* Back through the Logger; the response has the ID that RequestID put on it.
\* The context ends with the request.
Return ==
    /\ todo = <<"Return">>
    /\ todo' = << >>
    /\ log' = Append(log, [id |-> logId, status |-> status])
    /\ client' = Append(client, [id |-> id, status |-> sent])
    /\ req' = NoRequest
    /\ authorization' = None /\ claims' = None
    /\ id' = None /\ logId' = None
    /\ status' = "none" /\ sent' = "none" /\ by' = None
    /\ UNCHANGED <<now, tokens>>

-----------------------------------------------------------------------------
Next ==
    \/ \E t \in Token, u \in User, k \in {"ours", "other"} :
          GenerateAccessToken(t, u, k)
    \/ \E b \in Binary : Tick(b)
    \/ \E b \in Binary, m \in {"GET", "POST", "PUT"},
          p \in DOMAIN Methods, h \in Token \cup {None, "basic"},
          q \in Token \cup {None}, x \in {None, "client"} :
          Arrive(b, m, p, h, q, x)
    \/ RequestID \/ Logger \/ QueryTokenAsBearer
    \/ AuthAnonymous \/ AuthClaims \/ AuthRefuse
    \/ Route \/ RouteMissing
    \/ RequireAuth \/ RequireAuthRefuse
    \/ Method \/ MethodNotAllowed
    \/ \E code \in {"200", "400", "401", "500"} : Handle(code)
    \/ Stream \/ Write
    \/ Return

Spec == Init /\ [][Next]_vars

-----------------------------------------------------------------------------
(* Properties                                                              *)

\* The token by which the client identifies itself: that of the header; on the
\* gateway and without a header that of the query.
Presented ==
    IF req.header # None THEN IF req.header \in Token THEN req.header ELSE None
    ELSE IF req.binary = "gateway" THEN req.query ELSE None

Handling == todo \in {<<"Handler">>, <<"Write">>}

\* A handler acts for the owner of the token that was presented, signed by
\* JWT_SECRET and not expired when the request came in; without a token only the
\* public handlers run (claims.UserID in handlers/feed.go:51 would panic), and a
\* token that is not valid is refused also where none is needed.
ServedAsBearer ==
    Handling =>
        IF Presented = None
        THEN claims = None /\ req.path \notin Protected
        ELSE /\ claims # None
             /\ claims = tokens[Presented]
             /\ claims.key = "ours"
             /\ claims.nbf <= now[req.binary] /\ req.started < claims.exp

\* The log has one line for each response, with the status that the client saw
\* and the request ID that it can correlate it by (middleware.go:23-30).
LogMatchesResponse == log = client

\* A request that is answered 401 before its handler ran has presented no token
\* or one that is not signed with JWT_SECRET or has expired by the clock of the
\* process, wherever the client put it; but a gateway whose clock is behind that
\* of the dispatcher refuses a fresh token too (jwt.go:37).  Handlers answer 401
\* for reasons of their own (handlers/auth.go:166-172, handlers/feed.go:51-55).
ValidAccepted ==
    todo = <<"Return">> /\ sent = "401" /\ by # "Handler" /\ Presented # None =>
        LET t == tokens[Presented]  b == req.binary IN
        \/ t = None \/ t.key # "ours" \/ now[b] >= t.exp
        \/ b = "gateway" /\ req.started < t.nbf

\* A browser's EventSource, which cannot set headers and so has its token in the
\* query (middleware.go:95-97, gateway main.go:76-77), can open a stream.
EventSourceAccepted ==
    /\ todo = <<"Return">>
    /\ req.binary = "gateway" /\ req.path = "subscription"
    /\ req.method = "GET" /\ req.header = None
    /\ claims # None
    => sent \in {"200", "400", "500"}

-----------------------------------------------------------------------------
(* The invariant behind the first three                                    *)

\* What a request may have ahead: the Logger, the query token, Auth, or only
\* what follows them.
Unlogged(b) ==
    IF b = "gateway"
    THEN {<<"RequestID", "Logger", "QueryTokenAsBearer", "Auth", "Route">>,
          <<"Logger", "QueryTokenAsBearer", "Auth", "Route">>}
    ELSE {<<"RequestID", "Logger", "Auth", "Route">>, <<"Logger", "Auth", "Route">>}
Unasked(b) ==
    IF b = "gateway" THEN Unlogged(b) \cup {<<"QueryTokenAsBearer", "Auth", "Route">>}
    ELSE {}
Unauthenticated(b) == Unlogged(b) \cup Unasked(b) \cup {<<"Auth", "Route">>}
Authenticated ==
    {<<"Route">>, <<"RequireAuth", "Method">>, <<"Method">>, <<"Handler">>,
     <<"Write">>, <<"Return">>}

TypeOK ==
    /\ now \in [Binary -> Int]
    /\ tokens \in [Token -> {None} \cup [user : User, key : {"ours", "other"},
                                        nbf : Int, exp : Int]]
    /\ req \in [binary : Binary, method : {"GET", "POST", "PUT"}, path : DOMAIN Methods,
                header : Token \cup {None, "basic"}, query : Token \cup {None},
                xid : {None, "client"}, started : Int]
    /\ todo \in Unauthenticated(req.binary) \cup Authenticated \cup {<< >>}

\* Clocks do not go back, and a token is not issued by the clock of tomorrow.
ClocksConsistent ==
    /\ todo # << >> => req.started <= now[req.binary]
    /\ \A t \in Token : tokens[t] # None => tokens[t].nbf <= now["dispatcher"]

\* Only SubscribePost sends a status before the Logger learns of it.
StatusConsistent ==
    /\ todo \notin {<<"Write">>, <<"Return">>} => status = "none" /\ sent = "none"
    /\ todo = <<"Write">> => status = "none" /\ sent = "200"
    /\ todo = <<"Return">> => status = sent

LoggedIsAnswered ==
    /\ log = client
    /\ todo \notin Unlogged(req.binary) => logId = id

\* Auth looks for the token where the client has presented it.
BearerPresented ==
    todo # << >> =>
        authorization = IF todo \in Unasked(req.binary) \/ req.header # None
                           \/ req.binary = "dispatcher"
                        THEN req.header ELSE req.query

\* Token t was valid when the process of the request looked at it.
Accepted(t) ==
    /\ tokens[t] # None /\ tokens[t].key = "ours"
    /\ tokens[t].nbf <= now[req.binary] /\ req.started < tokens[t].exp
Refused(t) ==
    \/ tokens[t] = None \/ tokens[t].key # "ours" \/ now[req.binary] >= tokens[t].exp
    \/ req.binary = "gateway" /\ req.started < tokens[t].nbf

ClaimsPresented ==
    /\ todo \in Unauthenticated(req.binary) \cup {<< >>} => claims = None
    /\ todo \in Authenticated =>
          IF Presented = None THEN claims = None
          ELSE \/ claims = tokens[Presented] /\ Accepted(Presented)
               \/ claims = None /\ todo = <<"Return">> /\ Refused(Presented)
    /\ todo \in {<<"Method">>, <<"Handler">>, <<"Write">>} /\ claims = None =>
          req.path \notin Protected
    /\ todo = <<"Return">> /\ sent = "401" /\ by # "Handler" => claims = None

Inv == /\ TypeOK /\ ClocksConsistent /\ StatusConsistent /\ LoggedIsAnswered
       /\ BearerPresented /\ ClaimsPresented
=============================================================================

----------------------- MODULE RequestPipelineProofs -----------------------
(***************************************************************************)
(* Proofs about RequestPipeline, for any sets of tokens and users, any     *)
(* clocks, any TTL and any number of requests.                             *)
(***************************************************************************)
EXTENDS RequestPipeline, TLAPS

-----------------------------------------------------------------------------
(* The stages ahead                                                        *)

\* The stages before Route, by what is ahead of the request.
LEMMA Stages ==
  ASSUME TypeOK, NEW s \in {"RequestID", "Logger", "QueryTokenAsBearer", "Auth",
                            "RequireAuth", "Route", "Method", "Handler", "Write", "Return"},
         todo # << >>, Head(todo) = s
  PROVE  /\ s = "RequestID" => /\ todo \in Unlogged(req.binary)
                               /\ Tail(todo) \in Unlogged(req.binary)
         /\ s = "Logger" => /\ todo \in Unlogged(req.binary)
                            /\ IF req.binary = "gateway"
                               THEN Tail(todo) = <<"QueryTokenAsBearer", "Auth", "Route">>
                               ELSE Tail(todo) = <<"Auth", "Route">>
         /\ s = "QueryTokenAsBearer" => /\ todo = <<"QueryTokenAsBearer", "Auth", "Route">>
                                        /\ req.binary = "gateway"
                                        /\ Tail(todo) = <<"Auth", "Route">>
         /\ s = "Auth" => todo = <<"Auth", "Route">> /\ Tail(todo) = <<"Route">>
         /\ s = "RequireAuth" => /\ todo = <<"RequireAuth", "Method">>
                                 /\ Tail(todo) = <<"Method">>
         /\ s \in {"Route", "Method", "Handler", "Write", "Return"} => todo = <<s>>
<1> DEFINE b == req.binary
<1>1. CASE todo = <<"RequestID", "Logger", "QueryTokenAsBearer", "Auth", "Route">>
           /\ b = "gateway"
  BY <1>1, SMT DEF Unlogged
<1>2. CASE todo = <<"Logger", "QueryTokenAsBearer", "Auth", "Route">> /\ b = "gateway"
  BY <1>2, SMT DEF Unlogged
<1>3. CASE todo = <<"RequestID", "Logger", "Auth", "Route">> /\ b # "gateway"
  BY <1>3, SMT DEF Unlogged
<1>4. CASE todo = <<"Logger", "Auth", "Route">> /\ b # "gateway"
  BY <1>4, SMT DEF Unlogged
<1>5. CASE todo = <<"QueryTokenAsBearer", "Auth", "Route">> /\ b = "gateway"
  <2>1. Head(todo) = "QueryTokenAsBearer" /\ Tail(todo) = <<"Auth", "Route">>
    BY <1>5
  <2> QED BY <1>5, <2>1
<1>6. CASE todo = <<"Auth", "Route">>
  <2>1. Head(todo) = "Auth" /\ Tail(todo) = <<"Route">>
    BY <1>6
  <2> QED BY <1>6, <2>1
<1>7. CASE todo = <<"RequireAuth", "Method">>
  <2>1. Head(todo) = "RequireAuth" /\ Tail(todo) = <<"Method">>
    BY <1>7
  <2> QED BY <1>7, <2>1
<1>8. CASE todo \in {<<"Route">>, <<"Method">>, <<"Handler">>, <<"Write">>, <<"Return">>}
  BY <1>8, SMT
<1> QED
  BY <1>1, <1>2, <1>3, <1>4, <1>5, <1>6, <1>7, <1>8, SMT DEF TypeOK, Unauthenticated,
     Unlogged, Unasked, Authenticated

\* The stages are told apart.
LEMMA Apart ==
  ASSUME NEW b \in Binary
  PROVE  /\ Unauthenticated(b) \cap Authenticated = {}
         /\ << >> \notin Unauthenticated(b) \cup Authenticated
         /\ <<"Auth", "Route">> \notin Unlogged(b) \cup Unasked(b)
         /\ <<"QueryTokenAsBearer", "Auth", "Route">> \notin Unlogged(b)
         /\ Unlogged(b) \cap Authenticated = {}
         /\ Unasked(b) \cap Authenticated = {}
         /\ Unlogged(b) \subseteq Unauthenticated(b)
         /\ Unasked(b) \subseteq Unauthenticated(b)
         /\ Unlogged(b) \subseteq Unasked(b) \/ b = "dispatcher"
BY SMTT(30) DEF Unauthenticated, Unlogged, Unasked, Authenticated, Binary

-----------------------------------------------------------------------------
(* One lemma per action                                                    *)

\* A new token is none that the request has presented.
LEMMA GenerateStep ==
  ASSUME Inv, NEW t \in Token, NEW u \in User, NEW k \in {"ours", "other"},
         GenerateAccessToken(t, u, k)
  PROVE  Inv'
<1>1. TypeOK'
  BY RequestPipelineAssumption, SMTT(30) DEF Inv, TypeOK, GenerateAccessToken, Binary,
     context, response, outcome
<1>2. ClocksConsistent'
  BY SMTT(30) DEF Inv, TypeOK, ClocksConsistent, GenerateAccessToken, Binary, context,
     response, outcome
<1>3. StatusConsistent'
  BY SMTT(30) DEF Inv, TypeOK, StatusConsistent, GenerateAccessToken, Binary, context,
     response, outcome
<1>4. LoggedIsAnswered'
  BY SMTT(30) DEF Inv, TypeOK, StatusConsistent, LoggedIsAnswered,
     GenerateAccessToken, Binary, context, response, outcome
<1>5. BearerPresented'
  BY SMTT(30) DEF Inv, TypeOK, BearerPresented, GenerateAccessToken, Binary, context,
     response, outcome
<1>6. ClaimsPresented'
  BY SMTT(30) DEF Inv, TypeOK, StatusConsistent, ClocksConsistent, BearerPresented,
     Presented, Accepted, Refused, ClaimsPresented, GenerateAccessToken, Binary,
     context, response, outcome
<1> QED BY <1>1, <1>2, <1>3, <1>4, <1>5, <1>6 DEF Inv

\* Time passes, and does not make a token valid that was refused.
LEMMA TickStep ==
  ASSUME Inv, NEW b \in Binary, Tick(b)
  PROVE  Inv'
<1>1. TypeOK'
  BY SMTT(30) DEF Inv, TypeOK, Tick, Binary, context, response, outcome
<1>2. ClocksConsistent'
  BY SMTT(30) DEF Inv, TypeOK, ClocksConsistent, Tick, Binary, context, response,
     outcome
<1>3. StatusConsistent'
  BY SMTT(30) DEF Inv, TypeOK, StatusConsistent, Tick, Binary, context, response,
     outcome
<1>4. LoggedIsAnswered'
  BY SMTT(30) DEF Inv, TypeOK, StatusConsistent, LoggedIsAnswered, Tick, Binary,
     context, response, outcome
<1>5. BearerPresented'
  BY SMTT(30) DEF Inv, TypeOK, BearerPresented, Tick, Binary, context, response,
     outcome
<1>6. ClaimsPresented'
  BY SMTT(30) DEF Inv, TypeOK, StatusConsistent, ClocksConsistent, BearerPresented,
     Presented, Accepted, Refused, ClaimsPresented, Tick, Binary, context, response,
     outcome
<1> QED BY <1>1, <1>2, <1>3, <1>4, <1>5, <1>6 DEF Inv

\* A request that arrives has everything ahead.
LEMMA ArriveStep ==
  ASSUME Inv, NEW b \in Binary, NEW m \in {"GET", "POST", "PUT"}, NEW p \in DOMAIN Methods,
         NEW h \in Token \cup {None, "basic"}, NEW q \in Token \cup {None},
         NEW x \in {None, "client"}, Arrive(b, m, p, h, q, x)
  PROVE  Inv'
<1>a. todo' \in Unlogged(b)
  BY DEF Arrive, Middlewares, Unlogged, Binary
<1>0. /\ todo = << >> /\ req'.binary = b /\ todo' \in Unlogged(b) \cap Unauthenticated(b)
      /\ todo' \in Unasked(b) \/ b = "dispatcher"
      /\ todo' \notin Authenticated
      /\ todo' \notin {<< >>, <<"Method">>, <<"Handler">>, <<"Write">>, <<"Return">>}
  <2>1. todo = << >> /\ req'.binary = b
    BY DEF Arrive
  <2> QED
    BY <1>a, <2>1, Apart, SMTT(30) DEF Authenticated
<1>1. TypeOK'
  BY <1>0, SMTT(30) DEF Inv, TypeOK, Arrive, response, outcome
<1>2. ClocksConsistent'
  BY <1>0, SMTT(30) DEF Inv, TypeOK, ClocksConsistent, Arrive, response, outcome
<1>3. StatusConsistent'
  <2>1. status = "none" /\ sent = "none" /\ UNCHANGED response
    BY <1>0 DEF Inv, StatusConsistent, Arrive
  <2> QED
    BY <1>0, <2>1 DEF StatusConsistent, response
<1>4. LoggedIsAnswered'
  BY <1>0, SMTT(30) DEF Inv, TypeOK, StatusConsistent, LoggedIsAnswered, Arrive,
     response, outcome
<1>5. BearerPresented'
  BY <1>0, SMTT(30) DEF Inv, TypeOK, BearerPresented, Arrive, response, outcome
<1>6. ClaimsPresented'
  BY <1>0, SMTT(30) DEF Inv, TypeOK, StatusConsistent, ClocksConsistent,
     BearerPresented, Presented, Accepted, Refused, ClaimsPresented, Arrive, response,
     outcome
<1> QED BY <1>1, <1>2, <1>3, <1>4, <1>5, <1>6 DEF Inv

\* The request ID is there before the Logger asks for it.
LEMMA RequestIDStep ==
  ASSUME Inv, RequestID
  PROVE  Inv'
<1>a. todo \in Unlogged(req.binary) /\ todo' \in Unlogged(req.binary)
  BY Stages, SMT DEF Inv, RequestID, Pass
<1>b. req.binary \in Binary
  BY DEF Inv, TypeOK
<1>0. /\ todo \in Unlogged(req.binary) /\ todo' \in Unlogged(req.binary)
      /\ \/ todo \in Unasked(req.binary) /\ todo' \in Unasked(req.binary)
         \/ req.binary = "dispatcher"
      /\ todo \in Unauthenticated(req.binary) /\ todo' \in Unauthenticated(req.binary)
      /\ todo' \notin Authenticated
      /\ todo' \notin {<< >>, <<"Method">>, <<"Handler">>, <<"Write">>, <<"Return">>}
      /\ todo # << >>
  BY <1>a, <1>b, Apart, SMTT(30) DEF Authenticated
<1>1. TypeOK'
  BY <1>0, SMTT(30) DEF Inv, TypeOK, RequestID, Pass, response, outcome
<1>2. ClocksConsistent'
  BY <1>0, SMTT(30) DEF Inv, TypeOK, ClocksConsistent, RequestID, Pass, response,
     outcome
<1>3. StatusConsistent'
  BY <1>0, SMTT(30) DEF Inv, TypeOK, StatusConsistent, RequestID, Pass, response,
     outcome
<1>4. LoggedIsAnswered'
  BY <1>0, SMTT(30) DEF Inv, TypeOK, StatusConsistent, LoggedIsAnswered, RequestID,
     Pass, response, outcome
<1>5. BearerPresented'
  BY <1>0, SMTT(30) DEF Inv, TypeOK, BearerPresented, RequestID, Pass, response,
     outcome
<1>6. ClaimsPresented'
  BY <1>0, SMTT(30) DEF Inv, TypeOK, StatusConsistent, ClocksConsistent,
     BearerPresented, Presented, Accepted, Refused, ClaimsPresented, RequestID, Pass,
     response, outcome
<1> QED BY <1>1, <1>2, <1>3, <1>4, <1>5, <1>6 DEF Inv

\* From here on the Logger and the response have the same ID.
LEMMA LoggerStep ==
  ASSUME Inv, Logger
  PROVE  Inv'
<1>a. /\ todo \in Unlogged(req.binary)
      /\ IF req.binary = "gateway" THEN todo' = <<"QueryTokenAsBearer", "Auth", "Route">>
         ELSE todo' = <<"Auth", "Route">>
  BY Stages, SMT DEF Inv, Logger, Pass
<1>b. req.binary \in Binary
  BY DEF Inv, TypeOK
<1>0. /\ todo \in Unlogged(req.binary) /\ todo' \notin Unlogged(req.binary)
      /\ \/ todo \in Unasked(req.binary) /\ todo' \in Unasked(req.binary)
         \/ req.binary = "dispatcher"
      /\ todo \in Unauthenticated(req.binary) /\ todo' \in Unauthenticated(req.binary)
      /\ todo' \notin Authenticated
      /\ todo' \notin {<< >>, <<"Method">>, <<"Handler">>, <<"Write">>, <<"Return">>}
      /\ todo # << >>
  BY <1>a, <1>b, Apart, SMTT(30) DEF Unauthenticated, Unasked, Authenticated, Binary
<1>1. TypeOK'
  BY <1>0, SMTT(30) DEF Inv, TypeOK, Logger, Pass, response, outcome
<1>2. ClocksConsistent'
  BY <1>0, SMTT(30) DEF Inv, TypeOK, ClocksConsistent, Logger, Pass, response, outcome
<1>3. StatusConsistent'
  BY <1>0, SMTT(30) DEF Inv, TypeOK, StatusConsistent, Logger, Pass, response, outcome
<1>4. LoggedIsAnswered'
  BY <1>0, SMTT(30) DEF Inv, TypeOK, StatusConsistent, LoggedIsAnswered, Logger, Pass,
     response, outcome
<1>5. BearerPresented'
  BY <1>0, SMTT(30) DEF Inv, TypeOK, BearerPresented, Logger, Pass, response, outcome
<1>6. ClaimsPresented'
  BY <1>0, SMTT(30) DEF Inv, TypeOK, StatusConsistent, ClocksConsistent,
     BearerPresented, Presented, Accepted, Refused, ClaimsPresented, Logger, Pass,
     response, outcome
<1> QED BY <1>1, <1>2, <1>3, <1>4, <1>5, <1>6 DEF Inv

\* The token of the query stands in for a header that is missing.
LEMMA QueryTokenStep ==
  ASSUME Inv, QueryTokenAsBearer
  PROVE  Inv'
<1>a. /\ todo = <<"QueryTokenAsBearer", "Auth", "Route">> /\ req.binary = "gateway"
      /\ todo' = <<"Auth", "Route">>
  BY Stages, SMT DEF Inv, QueryTokenAsBearer, Pass
<1>b. req.binary \in Binary
  BY DEF Inv, TypeOK
<1>c. todo \in Unasked(req.binary) /\ todo \notin Unlogged(req.binary)
  <2>1. todo \in Unasked(req.binary)
    BY <1>a DEF Unasked
  <2> QED BY <1>a, <1>b, <2>1, Apart
<1>0. /\ req.binary = "gateway" /\ todo # << >>
      /\ todo \in Unauthenticated(req.binary) /\ todo' \in Unauthenticated(req.binary)
      /\ todo' \notin Unlogged(req.binary) \cup Unasked(req.binary)
      /\ todo' \notin Authenticated
      /\ todo' \notin {<< >>, <<"Method">>, <<"Handler">>, <<"Write">>, <<"Return">>}
  <2>1. todo \in Unauthenticated(req.binary) /\ todo # << >>
    BY <1>b, <1>c, Apart
  <2>2. todo' \in Unauthenticated(req.binary)
    BY <1>a DEF Unauthenticated
  <2>3. todo' \notin Authenticated \cup {<< >>}
    BY <1>b, <2>2, Apart
  <2>4. todo' \notin {<<"Method">>, <<"Handler">>, <<"Write">>, <<"Return">>}
    BY <2>3 DEF Authenticated
  <2>5. todo' \notin Unlogged(req.binary) \cup Unasked(req.binary)
    BY <1>a, <1>b, Apart
  <2> QED BY <1>a, <2>1, <2>2, <2>3, <2>4, <2>5
<1>1. TypeOK'
  BY <1>0, SMTT(30) DEF Inv, TypeOK, QueryTokenAsBearer, Pass, response, outcome
<1>2. ClocksConsistent'
  BY <1>0, SMTT(30) DEF Inv, TypeOK, ClocksConsistent, QueryTokenAsBearer, Pass,
     response, outcome
<1>3. StatusConsistent'
  BY <1>0, SMTT(30) DEF Inv, TypeOK, StatusConsistent, QueryTokenAsBearer, Pass,
     response, outcome
<1>4. LoggedIsAnswered'
  BY <1>0, <1>c, SMTT(30) DEF Inv, TypeOK, LoggedIsAnswered, QueryTokenAsBearer, Pass,
     response, outcome
<1>5. BearerPresented'
  BY <1>0, <1>c, SMTT(30) DEF Inv, TypeOK, BearerPresented, QueryTokenAsBearer, Pass,
     response, outcome
<1>6. ClaimsPresented'
  BY <1>0, <1>c, SMTT(30) DEF Inv, TypeOK, ClaimsPresented, ClocksConsistent,
     StatusConsistent, BearerPresented, Presented, Accepted, Refused,
     QueryTokenAsBearer, Pass, response, outcome
<1> QED BY <1>1, <1>2, <1>3, <1>4, <1>5, <1>6 DEF Inv

\* Without a token the request goes on without claims.
LEMMA AuthAnonymousStep ==
  ASSUME Inv, AuthAnonymous
  PROVE  Inv'
<1>a. todo = <<"Auth", "Route">> /\ todo' = <<"Route">>
  BY Stages, SMT DEF Inv, AuthAnonymous, Pass
<1>b. req.binary \in Binary
  BY DEF Inv, TypeOK
<1>0. /\ todo \in Unauthenticated(req.binary) /\ todo # << >>
      /\ todo \notin Unlogged(req.binary) \cup Unasked(req.binary)
      /\ todo' \in Authenticated
      /\ todo' \notin Unauthenticated(req.binary) \cup Unlogged(req.binary)
                    \cup Unasked(req.binary)
      /\ todo' \notin {<< >>, <<"Method">>, <<"Handler">>, <<"Write">>, <<"Return">>}
  BY <1>a, <1>b, Apart, SMTT(30) DEF Unauthenticated, Authenticated
<1>c. bearerToken = Presented
  BY RequestPipelineAssumption, <1>0, <1>b, SMTT(30) DEF Inv, TypeOK, BearerPresented,
     bearerToken, Presented, Binary
<1>1. TypeOK'
  BY <1>0, SMTT(30) DEF Inv, TypeOK, AuthAnonymous, Pass, context, response, outcome
<1>2. ClocksConsistent'
  BY <1>0, SMTT(30) DEF Inv, TypeOK, ClocksConsistent, AuthAnonymous, Pass, context,
     response, outcome
<1>3. StatusConsistent'
  BY <1>0, SMTT(30) DEF Inv, TypeOK, StatusConsistent, AuthAnonymous, Pass, context,
     response, outcome
<1>4. LoggedIsAnswered'
  BY <1>0, SMTT(30) DEF Inv, TypeOK, StatusConsistent, LoggedIsAnswered,
     AuthAnonymous, Pass, context, response, outcome
<1>5. BearerPresented'
  BY <1>0, SMTT(30) DEF Inv, TypeOK, BearerPresented, AuthAnonymous, Pass, context,
     response, outcome
<1>6. ClaimsPresented'
  BY <1>0, <1>a, <1>c, <1>b, SMTT(30) DEF Inv, TypeOK, ClocksConsistent,
     StatusConsistent, ClaimsPresented, Accepted, Refused, Presented, Binary,
     AuthAnonymous, Pass, context, response, outcome
<1> QED BY <1>1, <1>2, <1>3, <1>4, <1>5, <1>6 DEF Inv

\* The claims are those of the token that was presented.
LEMMA AuthClaimsStep ==
  ASSUME Inv, AuthClaims
  PROVE  Inv'
<1>a. todo = <<"Auth", "Route">> /\ todo' = <<"Route">>
  BY Stages, SMT DEF Inv, AuthClaims, Pass
<1>b. req.binary \in Binary
  BY DEF Inv, TypeOK
<1>0. /\ todo \in Unauthenticated(req.binary) /\ todo # << >>
      /\ todo \notin Unlogged(req.binary) \cup Unasked(req.binary)
      /\ todo' \in Authenticated
      /\ todo' \notin Unauthenticated(req.binary) \cup Unlogged(req.binary)
                    \cup Unasked(req.binary)
      /\ todo' \notin {<< >>, <<"Method">>, <<"Handler">>, <<"Write">>, <<"Return">>}
  BY <1>a, <1>b, Apart, SMTT(30) DEF Unauthenticated, Authenticated
<1>c. bearerToken = Presented
  BY RequestPipelineAssumption, <1>0, <1>b, SMTT(30) DEF Inv, TypeOK, BearerPresented,
     bearerToken, Presented, Binary
<1>1. TypeOK'
  BY <1>0, SMTT(30) DEF Inv, TypeOK, AuthClaims, Pass, response, outcome
<1>2. ClocksConsistent'
  BY <1>0, SMTT(30) DEF Inv, TypeOK, ClocksConsistent, AuthClaims, Pass, response,
     outcome
<1>3. StatusConsistent'
  BY <1>0, SMTT(30) DEF Inv, TypeOK, StatusConsistent, AuthClaims, Pass, response,
     outcome
<1>4. LoggedIsAnswered'
  BY <1>0, SMTT(30) DEF Inv, TypeOK, StatusConsistent, LoggedIsAnswered, AuthClaims,
     Pass, response, outcome
<1>5. BearerPresented'
  BY <1>0, SMTT(30) DEF Inv, TypeOK, BearerPresented, AuthClaims, Pass, response,
     outcome
<1>6. ClaimsPresented'
  BY <1>0, <1>a, <1>c, <1>b, SMTT(30) DEF Inv, TypeOK, ClocksConsistent,
     StatusConsistent, ClaimsPresented, Accepted, Refused, Presented, Binary,
     AuthClaims, Pass, ParseAccessToken, response, outcome
<1> QED BY <1>1, <1>2, <1>3, <1>4, <1>5, <1>6 DEF Inv

\* A token that is refused is not valid by the clock of the process.
LEMMA AuthRefuseStep ==
  ASSUME Inv, AuthRefuse
  PROVE  Inv'
<1>a. todo = <<"Auth", "Route">> /\ todo' = <<"Return">>
  BY Stages, SMT DEF Inv, AuthRefuse, Answer
<1>b. req.binary \in Binary
  BY DEF Inv, TypeOK
<1>0. /\ todo \in Unauthenticated(req.binary) /\ todo # << >>
      /\ todo \notin Unlogged(req.binary) \cup Unasked(req.binary)
      /\ todo' \in Authenticated
      /\ todo' \notin Unauthenticated(req.binary) \cup Unlogged(req.binary)
                    \cup Unasked(req.binary)
      /\ todo' \notin {<< >>, <<"Method">>, <<"Handler">>, <<"Write">>}
  BY <1>a, <1>b, Apart, SMTT(30) DEF Unauthenticated, Authenticated
<1>c. bearerToken = Presented
  BY RequestPipelineAssumption, <1>0, <1>b, SMTT(30) DEF Inv, TypeOK, BearerPresented,
     bearerToken, Presented, Binary
<1>1. TypeOK'
  BY <1>0, SMTT(30) DEF Inv, TypeOK, AuthRefuse, Answer, context, outcome
<1>2. ClocksConsistent'
  BY <1>0, SMTT(30) DEF Inv, TypeOK, ClocksConsistent, AuthRefuse, Answer, context,
     outcome
<1>3. StatusConsistent'
  BY <1>0, SMTT(30) DEF Inv, TypeOK, StatusConsistent, AuthRefuse, Answer, context,
     outcome
<1>4. LoggedIsAnswered'
  BY <1>0, SMTT(30) DEF Inv, TypeOK, StatusConsistent, LoggedIsAnswered, AuthRefuse,
     Answer, context, outcome
<1>5. BearerPresented'
  BY <1>0, SMTT(30) DEF Inv, TypeOK, BearerPresented, AuthRefuse, Answer, context,
     outcome
<1>6. ClaimsPresented'
  BY <1>0, <1>a, <1>c, <1>b, SMTT(30) DEF Inv, TypeOK, ClocksConsistent,
     StatusConsistent, ClaimsPresented, Accepted, Refused, Presented, Binary,
     AuthRefuse, Answer, ParseAccessToken, context, outcome
<1> QED BY <1>1, <1>2, <1>3, <1>4, <1>5, <1>6 DEF Inv

\* The mux sends a protected path through RequireAuth.
LEMMA RouteStep ==
  ASSUME Inv, Route
  PROVE  Inv'
<1>a. todo = <<"Route">> /\ todo' \in {<<"Method">>, <<"RequireAuth", "Method">>}
  BY Stages, SMT DEF Inv, Route
<1>b. req.binary \in Binary
  BY DEF Inv, TypeOK
<1>0. /\ todo \in Authenticated /\ todo # << >>
      /\ todo \notin {<<"Method">>, <<"Handler">>, <<"Write">>, <<"Return">>}
      /\ todo \notin Unlogged(req.binary) \cup Unasked(req.binary)
      /\ todo' \in Authenticated
      /\ todo' \notin Unauthenticated(req.binary) \cup Unlogged(req.binary)
                    \cup Unasked(req.binary)
      /\ todo' \notin {<< >>, <<"Handler">>, <<"Write">>, <<"Return">>}
  BY <1>a, <1>b, Apart, SMTT(30) DEF Authenticated
<1>1. TypeOK'
  BY <1>0, SMTT(30) DEF Inv, TypeOK, Route, context, response, outcome
<1>2. ClocksConsistent'
  BY <1>0, SMTT(30) DEF Inv, TypeOK, ClocksConsistent, Route, context, response,
     outcome
<1>3. StatusConsistent'
  BY <1>0, SMTT(30) DEF Inv, TypeOK, StatusConsistent, Route, context, response,
     outcome
<1>4. LoggedIsAnswered'
  BY <1>0, SMTT(30) DEF Inv, TypeOK, StatusConsistent, LoggedIsAnswered, Route,
     context, response, outcome
<1>5. BearerPresented'
  BY <1>0, SMTT(30) DEF Inv, TypeOK, BearerPresented, Route, context, response,
     outcome
<1>6. ClaimsPresented'
  BY <1>0, <1>a, SMTT(30) DEF Inv, TypeOK, ClocksConsistent, StatusConsistent,
     ClaimsPresented, Presented, Accepted, Refused, Route, context, response, outcome
<1> QED BY <1>1, <1>2, <1>3, <1>4, <1>5, <1>6 DEF Inv

\* A path that is not there is answered 404.
LEMMA RouteMissingStep ==
  ASSUME Inv, RouteMissing
  PROVE  Inv'
<1>a. todo = <<"Route">> /\ todo' = <<"Return">>
  BY Stages, SMT DEF Inv, RouteMissing, Answer
<1>b. req.binary \in Binary
  BY DEF Inv, TypeOK
<1>0. /\ todo \in Authenticated /\ todo # << >>
      /\ todo \notin {<<"Method">>, <<"Handler">>, <<"Write">>, <<"Return">>}
      /\ todo \notin Unlogged(req.binary) \cup Unasked(req.binary)
      /\ todo' \in Authenticated
      /\ todo' \notin Unauthenticated(req.binary) \cup Unlogged(req.binary)
                    \cup Unasked(req.binary)
      /\ todo' \notin {<< >>, <<"Method">>, <<"Handler">>, <<"Write">>}
  BY <1>a, <1>b, Apart, SMTT(30) DEF Authenticated
<1>1. TypeOK'
  BY <1>0, SMTT(30) DEF Inv, TypeOK, RouteMissing, Answer, context, outcome
<1>2. ClocksConsistent'
  BY <1>0, SMTT(30) DEF Inv, TypeOK, ClocksConsistent, RouteMissing, Answer, context,
     outcome
<1>3. StatusConsistent'
  BY <1>0, SMTT(30) DEF Inv, TypeOK, StatusConsistent, RouteMissing, Answer, context,
     outcome
<1>4. LoggedIsAnswered'
  BY <1>0, SMTT(30) DEF Inv, TypeOK, StatusConsistent, LoggedIsAnswered, RouteMissing,
     Answer, context, outcome
<1>5. BearerPresented'
  BY <1>0, SMTT(30) DEF Inv, TypeOK, BearerPresented, RouteMissing, Answer, context,
     outcome
<1>6. ClaimsPresented'
  BY <1>0, SMTT(30) DEF Inv, TypeOK, StatusConsistent, ClocksConsistent,
     BearerPresented, Presented, Accepted, Refused, ClaimsPresented, RouteMissing,
     Answer, context, outcome
<1> QED BY <1>1, <1>2, <1>3, <1>4, <1>5, <1>6 DEF Inv

\* Who has claims passes.
LEMMA RequireAuthStep ==
  ASSUME Inv, RequireAuth
  PROVE  Inv'
<1>a. todo = <<"RequireAuth", "Method">> /\ todo' = <<"Method">>
  BY Stages, SMT DEF Inv, RequireAuth, Pass
<1>b. req.binary \in Binary
  BY DEF Inv, TypeOK
<1>0. /\ todo \in Authenticated /\ todo # << >>
      /\ todo \notin {<<"Method">>, <<"Handler">>, <<"Write">>, <<"Return">>}
      /\ todo \notin Unlogged(req.binary) \cup Unasked(req.binary)
      /\ todo' \in Authenticated
      /\ todo' \notin Unauthenticated(req.binary) \cup Unlogged(req.binary)
                    \cup Unasked(req.binary)
      /\ todo' \notin {<< >>, <<"Handler">>, <<"Write">>, <<"Return">>}
  BY <1>a, <1>b, Apart, SMTT(30) DEF Authenticated
<1>1. TypeOK'
  BY <1>0, SMTT(30) DEF Inv, TypeOK, RequireAuth, Pass, context, response, outcome
<1>2. ClocksConsistent'
  BY <1>0, SMTT(30) DEF Inv, TypeOK, ClocksConsistent, RequireAuth, Pass, context,
     response, outcome
<1>3. StatusConsistent'
  BY <1>0, SMTT(30) DEF Inv, TypeOK, StatusConsistent, RequireAuth, Pass, context,
     response, outcome
<1>4. LoggedIsAnswered'
  BY <1>0, SMTT(30) DEF Inv, TypeOK, StatusConsistent, LoggedIsAnswered, RequireAuth,
     Pass, context, response, outcome
<1>5. BearerPresented'
  BY <1>0, SMTT(30) DEF Inv, TypeOK, BearerPresented, RequireAuth, Pass, context,
     response, outcome
<1>6. ClaimsPresented'
  BY <1>0, SMTT(30) DEF Inv, TypeOK, StatusConsistent, ClocksConsistent,
     BearerPresented, Presented, Accepted, Refused, ClaimsPresented, RequireAuth,
     Pass, context, response, outcome
<1> QED BY <1>1, <1>2, <1>3, <1>4, <1>5, <1>6 DEF Inv

\* Who has none is answered 401.
LEMMA RequireAuthRefuseStep ==
  ASSUME Inv, RequireAuthRefuse
  PROVE  Inv'
<1>a. todo = <<"RequireAuth", "Method">> /\ todo' = <<"Return">>
  BY Stages, SMT DEF Inv, RequireAuthRefuse, Answer
<1>b. req.binary \in Binary
  BY DEF Inv, TypeOK
<1>0. /\ todo \in Authenticated /\ todo # << >>
      /\ todo \notin {<<"Method">>, <<"Handler">>, <<"Write">>, <<"Return">>}
      /\ todo \notin Unlogged(req.binary) \cup Unasked(req.binary)
      /\ todo' \in Authenticated
      /\ todo' \notin Unauthenticated(req.binary) \cup Unlogged(req.binary)
                    \cup Unasked(req.binary)
      /\ todo' \notin {<< >>, <<"Method">>, <<"Handler">>, <<"Write">>}
  BY <1>a, <1>b, Apart, SMTT(30) DEF Authenticated
<1>1. TypeOK'
  BY <1>0, SMTT(30) DEF Inv, TypeOK, RequireAuthRefuse, Answer, context, outcome
<1>2. ClocksConsistent'
  BY <1>0, SMTT(30) DEF Inv, TypeOK, ClocksConsistent, RequireAuthRefuse, Answer,
     context, outcome
<1>3. StatusConsistent'
  BY <1>0, SMTT(30) DEF Inv, TypeOK, StatusConsistent, RequireAuthRefuse, Answer,
     context, outcome
<1>4. LoggedIsAnswered'
  BY <1>0, SMTT(30) DEF Inv, TypeOK, StatusConsistent, LoggedIsAnswered,
     RequireAuthRefuse, Answer, context, outcome
<1>5. BearerPresented'
  BY <1>0, SMTT(30) DEF Inv, TypeOK, BearerPresented, RequireAuthRefuse, Answer,
     context, outcome
<1>6. ClaimsPresented'
  BY <1>0, SMTT(30) DEF Inv, TypeOK, StatusConsistent, ClocksConsistent,
     BearerPresented, Presented, Accepted, Refused, ClaimsPresented,
     RequireAuthRefuse, Answer, context, outcome
<1> QED BY <1>1, <1>2, <1>3, <1>4, <1>5, <1>6 DEF Inv

\* The mux checks the method after the middlewares.
LEMMA MethodStep ==
  ASSUME Inv, Method
  PROVE  Inv'
<1>a. todo = <<"Method">> /\ todo' = <<"Handler">>
  BY Stages, SMT DEF Inv, Method
<1>b. req.binary \in Binary
  BY DEF Inv, TypeOK
<1>0. /\ todo \in Authenticated /\ todo # << >>
      /\ todo \notin {<<"Handler">>, <<"Write">>, <<"Return">>}
      /\ todo \notin Unlogged(req.binary) \cup Unasked(req.binary)
      /\ todo' \in Authenticated
      /\ todo' \notin Unauthenticated(req.binary) \cup Unlogged(req.binary)
                    \cup Unasked(req.binary)
      /\ todo' \notin {<< >>, <<"Method">>, <<"Write">>, <<"Return">>}
  BY <1>a, <1>b, Apart, SMTT(30) DEF Authenticated
<1>1. TypeOK'
  BY <1>0, SMTT(30) DEF Inv, TypeOK, Method, context, response, outcome
<1>2. ClocksConsistent'
  BY <1>0, SMTT(30) DEF Inv, TypeOK, ClocksConsistent, Method, context, response,
     outcome
<1>3. StatusConsistent'
  BY <1>0, SMTT(30) DEF Inv, TypeOK, StatusConsistent, Method, context, response,
     outcome
<1>4. LoggedIsAnswered'
  BY <1>0, SMTT(30) DEF Inv, TypeOK, StatusConsistent, LoggedIsAnswered, Method,
     context, response, outcome
<1>5. BearerPresented'
  BY <1>0, SMTT(30) DEF Inv, TypeOK, BearerPresented, Method, context, response,
     outcome
<1>6. ClaimsPresented'
  BY <1>0, SMTT(30) DEF Inv, TypeOK, StatusConsistent, ClocksConsistent,
     BearerPresented, Presented, Accepted, Refused, ClaimsPresented, Method, context,
     response, outcome
<1> QED BY <1>1, <1>2, <1>3, <1>4, <1>5, <1>6 DEF Inv

\* A method that is not there is answered 405.
LEMMA MethodNotAllowedStep ==
  ASSUME Inv, MethodNotAllowed
  PROVE  Inv'
<1>a. todo = <<"Method">> /\ todo' = <<"Return">>
  BY Stages, SMT DEF Inv, MethodNotAllowed, Answer
<1>b. req.binary \in Binary
  BY DEF Inv, TypeOK
<1>0. /\ todo \in Authenticated /\ todo # << >>
      /\ todo \notin {<<"Handler">>, <<"Write">>, <<"Return">>}
      /\ todo \notin Unlogged(req.binary) \cup Unasked(req.binary)
      /\ todo' \in Authenticated
      /\ todo' \notin Unauthenticated(req.binary) \cup Unlogged(req.binary)
                    \cup Unasked(req.binary)
      /\ todo' \notin {<< >>, <<"Method">>, <<"Handler">>, <<"Write">>}
  BY <1>a, <1>b, Apart, SMTT(30) DEF Authenticated
<1>1. TypeOK'
  BY <1>0, SMTT(30) DEF Inv, TypeOK, MethodNotAllowed, Answer, context, outcome
<1>2. ClocksConsistent'
  BY <1>0, SMTT(30) DEF Inv, TypeOK, ClocksConsistent, MethodNotAllowed, Answer,
     context, outcome
<1>3. StatusConsistent'
  BY <1>0, SMTT(30) DEF Inv, TypeOK, StatusConsistent, MethodNotAllowed, Answer,
     context, outcome
<1>4. LoggedIsAnswered'
  BY <1>0, SMTT(30) DEF Inv, TypeOK, StatusConsistent, LoggedIsAnswered,
     MethodNotAllowed, Answer, context, outcome
<1>5. BearerPresented'
  BY <1>0, SMTT(30) DEF Inv, TypeOK, BearerPresented, MethodNotAllowed, Answer,
     context, outcome
<1>6. ClaimsPresented'
  BY <1>0, SMTT(30) DEF Inv, TypeOK, StatusConsistent, ClocksConsistent,
     BearerPresented, Presented, Accepted, Refused, ClaimsPresented, MethodNotAllowed,
     Answer, context, outcome
<1> QED BY <1>1, <1>2, <1>3, <1>4, <1>5, <1>6 DEF Inv

\* A handler answers with a status of its own.
LEMMA HandleStep ==
  ASSUME Inv, NEW code \in {"200", "400", "401", "500"}, Handle(code)
  PROVE  Inv'
<1>a. todo = <<"Handler">> /\ todo' = <<"Return">>
  BY Stages, SMT DEF Inv, Handle, Answer
<1>b. req.binary \in Binary
  BY DEF Inv, TypeOK
<1>0. /\ todo \in Authenticated /\ todo # << >>
      /\ todo \notin {<<"Method">>, <<"Write">>, <<"Return">>}
      /\ todo \notin Unlogged(req.binary) \cup Unasked(req.binary)
      /\ todo' \in Authenticated
      /\ todo' \notin Unauthenticated(req.binary) \cup Unlogged(req.binary)
                    \cup Unasked(req.binary)
      /\ todo' \notin {<< >>, <<"Method">>, <<"Handler">>, <<"Write">>}
  BY <1>a, <1>b, Apart, SMTT(30) DEF Authenticated
<1>1. TypeOK'
  BY <1>0, SMTT(30) DEF Inv, TypeOK, Handle, Answer, context, outcome
<1>2. ClocksConsistent'
  BY <1>0, SMTT(30) DEF Inv, TypeOK, ClocksConsistent, Handle, Answer, context,
     outcome
<1>3. StatusConsistent'
  BY <1>0, SMTT(30) DEF Inv, TypeOK, StatusConsistent, Handle, Answer, context,
     outcome
<1>4. LoggedIsAnswered'
  BY <1>0, SMTT(30) DEF Inv, TypeOK, StatusConsistent, LoggedIsAnswered, Handle,
     Answer, context, outcome
<1>5. BearerPresented'
  BY <1>0, SMTT(30) DEF Inv, TypeOK, BearerPresented, Handle, Answer, context, outcome
<1>6. ClaimsPresented'
  BY <1>0, SMTT(30) DEF Inv, TypeOK, StatusConsistent, ClocksConsistent,
     BearerPresented, Presented, Accepted, Refused, ClaimsPresented, Handle, Answer,
     context, outcome
<1> QED BY <1>1, <1>2, <1>3, <1>4, <1>5, <1>6 DEF Inv

\* A stream is sent 200 before the Logger knows.
LEMMA StreamStep ==
  ASSUME Inv, Stream
  PROVE  Inv'
<1>a. todo = <<"Handler">> /\ todo' = <<"Write">>
  BY Stages, SMT DEF Inv, Stream
<1>b. req.binary \in Binary
  BY DEF Inv, TypeOK
<1>0. /\ todo \in Authenticated /\ todo # << >>
      /\ todo \notin {<<"Method">>, <<"Write">>, <<"Return">>}
      /\ todo \notin Unlogged(req.binary) \cup Unasked(req.binary)
      /\ todo' \in Authenticated
      /\ todo' \notin Unauthenticated(req.binary) \cup Unlogged(req.binary)
                    \cup Unasked(req.binary)
      /\ todo' \notin {<< >>, <<"Method">>, <<"Handler">>, <<"Return">>}
  BY <1>a, <1>b, Apart, SMTT(30) DEF Authenticated
<1>1. TypeOK'
  BY <1>0, SMTT(30) DEF Inv, TypeOK, Stream, context, outcome
<1>2. ClocksConsistent'
  BY <1>0, SMTT(30) DEF Inv, TypeOK, ClocksConsistent, Stream, context, outcome
<1>3. StatusConsistent'
  BY <1>0, SMTT(30) DEF Inv, TypeOK, StatusConsistent, Stream, context, outcome
<1>4. LoggedIsAnswered'
  BY <1>0, SMTT(30) DEF Inv, TypeOK, StatusConsistent, LoggedIsAnswered, Stream,
     context, outcome
<1>5. BearerPresented'
  BY <1>0, SMTT(30) DEF Inv, TypeOK, BearerPresented, Stream, context, outcome
<1>6. ClaimsPresented'
  BY <1>0, SMTT(30) DEF Inv, TypeOK, StatusConsistent, ClocksConsistent,
     BearerPresented, Presented, Accepted, Refused, ClaimsPresented, Stream, context,
     outcome
<1> QED BY <1>1, <1>2, <1>3, <1>4, <1>5, <1>6 DEF Inv

\* The first write notes the 200.
LEMMA WriteStep ==
  ASSUME Inv, Write
  PROVE  Inv'
<1>a. todo = <<"Write">> /\ todo' = <<"Return">>
  BY Stages, SMT DEF Inv, Write
<1>b. req.binary \in Binary
  BY DEF Inv, TypeOK
<1>0. /\ todo \in Authenticated /\ todo # << >>
      /\ todo \notin {<<"Method">>, <<"Handler">>, <<"Return">>}
      /\ todo \notin Unlogged(req.binary) \cup Unasked(req.binary)
      /\ todo' \in Authenticated
      /\ todo' \notin Unauthenticated(req.binary) \cup Unlogged(req.binary)
                    \cup Unasked(req.binary)
      /\ todo' \notin {<< >>, <<"Method">>, <<"Handler">>, <<"Write">>}
  BY <1>a, <1>b, Apart, SMTT(30) DEF Authenticated
<1>1. TypeOK'
  BY <1>0, SMTT(30) DEF Inv, TypeOK, Write, context, outcome
<1>2. ClocksConsistent'
  BY <1>0, SMTT(30) DEF Inv, TypeOK, ClocksConsistent, Write, context, outcome
<1>3. StatusConsistent'
  BY <1>0, SMTT(30) DEF Inv, TypeOK, StatusConsistent, Write, context, outcome
<1>4. LoggedIsAnswered'
  BY <1>0, SMTT(30) DEF Inv, TypeOK, StatusConsistent, LoggedIsAnswered, Write,
     context, outcome
<1>5. BearerPresented'
  BY <1>0, SMTT(30) DEF Inv, TypeOK, BearerPresented, Write, context, outcome
<1>6. ClaimsPresented'
  BY <1>0, SMTT(30) DEF Inv, TypeOK, StatusConsistent, ClocksConsistent,
     BearerPresented, Presented, Accepted, Refused, ClaimsPresented, Write, context,
     outcome
<1> QED BY <1>1, <1>2, <1>3, <1>4, <1>5, <1>6 DEF Inv

\* The line in the log has the status and the ID of the response.
LEMMA ReturnStep ==
  ASSUME Inv, Return
  PROVE  Inv'
<1>0. /\ todo = <<"Return">> /\ todo \in Authenticated /\ todo \notin Unlogged(req.binary)
      /\ todo' = << >> /\ todo' \notin {<<"Write">>, <<"Return">>} \cup Authenticated
  BY Apart, SMTT(30) DEF Inv, TypeOK, Return, Authenticated
<1>1. TypeOK'
  BY <1>0, SMTT(30) DEF Inv, TypeOK, Return, NoRequest, Binary, Methods
<1>2. ClocksConsistent'
  BY <1>0, SMTT(30) DEF Inv, TypeOK, ClocksConsistent, Return, NoRequest, Binary,
     Methods
<1>3. StatusConsistent'
  BY <1>0, SMTT(30) DEF Inv, TypeOK, StatusConsistent, Return, NoRequest, Binary,
     Methods
<1>4. LoggedIsAnswered'
  BY <1>0, SMTT(30) DEF Inv, TypeOK, StatusConsistent, LoggedIsAnswered, Return,
     NoRequest, Binary, Methods
<1>5. BearerPresented'
  BY <1>0, SMTT(30) DEF Inv, TypeOK, BearerPresented, Return, NoRequest, Binary,
     Methods
<1>6. ClaimsPresented'
  BY <1>0, SMTT(30) DEF Inv, TypeOK, StatusConsistent, ClocksConsistent,
     BearerPresented, Presented, Accepted, Refused, ClaimsPresented, Return,
     NoRequest, Binary, Methods
<1> QED BY <1>1, <1>2, <1>3, <1>4, <1>5, <1>6 DEF Inv

-----------------------------------------------------------------------------
(* The invariant                                                           *)

\* Inv survives every step.
LEMMA NextStep ==
  ASSUME Inv, [Next]_vars
  PROVE  Inv'
<1>1. CASE UNCHANGED vars
  BY <1>1 DEF vars, context, response, outcome, Inv, TypeOK, ClocksConsistent,
     StatusConsistent, LoggedIsAnswered, BearerPresented, ClaimsPresented, Presented,
     Accepted, Refused
<1>2. CASE \E t \in Token, u \in User, k \in {"ours", "other"} : GenerateAccessToken(t, u, k)
  BY <1>2, GenerateStep
<1>3. CASE \E b \in Binary : Tick(b)
  BY <1>3, TickStep
<1>4. CASE \E b \in Binary, m \in {"GET", "POST", "PUT"},
               p \in DOMAIN Methods, h \in Token \cup {None, "basic"},
               q \in Token \cup {None}, x \in {None, "client"} : Arrive(b, m, p, h, q, x)
  BY <1>4, ArriveStep
<1>5. CASE \E code \in {"200", "400", "401", "500"} : Handle(code)
  BY <1>5, HandleStep
<1> QED
  BY <1>1, <1>2, <1>3, <1>4, <1>5, RequestIDStep, LoggerStep, QueryTokenStep,
     AuthAnonymousStep, AuthClaimsStep, AuthRefuseStep, RouteStep, RouteMissingStep,
     RequireAuthStep, RequireAuthRefuseStep, MethodStep, MethodNotAllowedStep,
     StreamStep, WriteStep, ReturnStep DEF Next

\* Inv holds in every behaviour of the two processes.
THEOREM Invariance == Spec => []Inv
<1>1. Init => Inv
  <2> SUFFICES ASSUME Init PROVE Inv
    OBVIOUS
  <2>1. todo = << >> /\ todo \notin {<<"Write">>, <<"Return">>} \cup Authenticated
    BY Apart, SMT DEF Init, Authenticated
  <2> QED
    BY <2>1, SMTT(30) DEF Init, NoRequest, Inv, TypeOK, ClocksConsistent,
       StatusConsistent, LoggedIsAnswered, BearerPresented, ClaimsPresented, Binary,
       Methods
<1>2. Inv /\ [Next]_vars => Inv'
  BY NextStep
<1> QED
  BY <1>1, <1>2, PTL DEF Spec

\* A handler acts for whom the client has identified itself as.
THEOREM Bearer == Spec => []ServedAsBearer
<1>1. Inv => ServedAsBearer
  BY SMTT(30) DEF Inv, TypeOK, ClaimsPresented, ServedAsBearer, Handling, Accepted,
     Authenticated
<1> QED
  BY <1>1, Invariance, PTL

\* The log is what the client saw.
THEOREM LogAgrees == Spec => []LogMatchesResponse
<1>1. Inv => LogMatchesResponse
  BY DEF Inv, LoggedIsAnswered, LogMatchesResponse
<1> QED
  BY <1>1, Invariance, PTL

\* The 401 of a middleware has its reason in the token that was presented.
THEOREM ValidTokens == Spec => []ValidAccepted
<1>1. Inv => ValidAccepted
  BY SMTT(30) DEF Inv, TypeOK, ClaimsPresented, ValidAccepted, Refused, Authenticated
<1> QED
  BY <1>1, Invariance, PTL
=============================================================================

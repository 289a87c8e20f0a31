------------------------- MODULE AuthServiceProofs -------------------------
(***************************************************************************)
(* Proofs about AuthService: Inv is inductive, for any sets of requests,   *)
(* users and tokens, and the properties the runs check follow from it.     *)
(* There is one lemma per action.  Its leaves differ in the parts of the   *)
(* invariant they need: most conjuncts are preserved on their own, the     *)
(* ones a call can really disturb need what the request knows              *)
(* (RequestsConsistent), the rows (RowsConsistent) or the successors.      *)
(***************************************************************************)
EXTENDS AuthService, TLAPS

\* A request that has only begun owns no token.
LEMMA RegisterStep ==
  ASSUME Inv, NEW r \in Request, NEW u \in User, Register(r, u)
  PROVE  Inv'
<1>1. TypeOK' /\ RowsConsistent' /\ RequestsConsistent' /\
      SuccessorsConsistent' /\ SingleLiveToken' /\ ReuseEndsSessions' /\
      RotationRecorded' /\ SessionIsolation' /\ LogoutEffective'
  BY AuthAssumption, SMTT(30) DEF Inv, TypeOK, RowsConsistent,
      RequestsConsistent, SuccessorsConsistent, SingleLiveToken,
      ReuseEndsSessions, RotationRecorded, SessionIsolation,
      LogoutEffective, Register, Goto, tables, request
<1> QED BY <1>1 DEF Inv

\* Only users and pc change.
LEMMA CreateUserStep ==
  ASSUME Inv, NEW r \in Request, CreateUser(r)
  PROVE  Inv'
<1>1. RowsConsistent' /\ RequestsConsistent' /\ SuccessorsConsistent' /\
      SingleLiveToken' /\ ReuseEndsSessions' /\ RotationRecorded' /\
      SessionIsolation' /\ LogoutEffective'
  BY AuthAssumption, SMTT(30) DEF Inv, TypeOK, RowsConsistent,
      RequestsConsistent, SuccessorsConsistent, SingleLiveToken,
      ReuseEndsSessions, RotationRecorded, SessionIsolation,
      LogoutEffective, CreateUser, Goto, Returns, tables, request
<1>2. TypeOK'
  BY AuthAssumption, SMTT(30) DEF Inv, TypeOK, RequestsConsistent,
      CreateUser, Goto, Returns, tables, request
<1> QED BY <1>1, <1>2 DEF Inv

\* As Register.
LEMMA LoginStep ==
  ASSUME Inv, NEW r \in Request, NEW u \in User, Login(r, u)
  PROVE  Inv'
<1>1. TypeOK' /\ RowsConsistent' /\ RequestsConsistent' /\
      SuccessorsConsistent' /\ SingleLiveToken' /\ ReuseEndsSessions' /\
      RotationRecorded' /\ SessionIsolation' /\ LogoutEffective'
  BY AuthAssumption, SMTT(30) DEF Inv, TypeOK, RowsConsistent,
      RequestsConsistent, SuccessorsConsistent, SingleLiveToken,
      ReuseEndsSessions, RotationRecorded, SessionIsolation,
      LogoutEffective, Login, Goto, tables, request
<1> QED BY <1>1 DEF Inv

\* Only pc changes.
LEMMA LoginLookupStep ==
  ASSUME Inv, NEW r \in Request, LoginLookup(r)
  PROVE  Inv'
<1>1. TypeOK' /\ RowsConsistent' /\ RequestsConsistent' /\
      SuccessorsConsistent' /\ SingleLiveToken' /\ ReuseEndsSessions' /\
      RotationRecorded' /\ SessionIsolation' /\ LogoutEffective'
  BY AuthAssumption, SMTT(30) DEF Inv, TypeOK, RowsConsistent,
      RequestsConsistent, SuccessorsConsistent, SingleLiveToken,
      ReuseEndsSessions, RotationRecorded, SessionIsolation,
      LogoutEffective, LoginLookup, Goto, tables, request
<1> QED BY <1>1 DEF Inv

\* The new row is the first one of a session nobody else has: no row has r as its
\* session yet, and so r has not been ended either.
LEMMA IssueStep ==
  ASSUME Inv, NEW r \in Request, NEW t \in Token, Issue(r, t)
  PROVE  Inv'
<1>1. TypeOK' /\ RequestsConsistent'
  BY AuthAssumption, SMTT(30) DEF Inv, TypeOK, RequestsConsistent, Issue,
      Goto, CreateToken, tables, request
<1>2. RowsConsistent' /\ SingleLiveToken' /\ LogoutEffective'
  BY AuthAssumption, SMTT(30) DEF Inv, TypeOK, RowsConsistent,
      SingleLiveToken, LogoutEffective, RequestsConsistent, Issue, Goto,
      CreateToken, tables, request
<1>3. SessionIsolation'
  BY AuthAssumption, SMTT(30) DEF Inv, TypeOK, SessionIsolation,
      RowsConsistent, Issue, Goto, CreateToken, tables, request
<1>4. SuccessorsConsistent' /\ ReuseEndsSessions'
  BY AuthAssumption, SMTT(30) DEF Inv, TypeOK, SuccessorsConsistent,
      ReuseEndsSessions, RowsConsistent, RequestsConsistent, Issue, Goto,
      CreateToken, tables, request
<1>5. RotationRecorded'
  BY AuthAssumption, SMTT(30) DEF Inv, TypeOK, RotationRecorded,
      RowsConsistent, RequestsConsistent, SuccessorsConsistent, Issue, Goto,
      CreateToken, tables, request
<1> QED BY <1>1, <1>2, <1>3, <1>4, <1>5 DEF Inv

\* Only a token that was handed out, and so has a row, can be presented.
LEMMA RefreshStep ==
  ASSUME Inv, NEW r \in Request, NEW x \in handed \cup {None}, Refresh(r, x)
  PROVE  Inv'
<1>1. TypeOK' /\ RowsConsistent' /\ RequestsConsistent' /\
      SuccessorsConsistent' /\ SingleLiveToken' /\ ReuseEndsSessions' /\
      RotationRecorded' /\ LogoutEffective'
  BY AuthAssumption, SMTT(30) DEF Inv, TypeOK, RowsConsistent,
      RequestsConsistent, SuccessorsConsistent, SingleLiveToken,
      ReuseEndsSessions, RotationRecorded, LogoutEffective, Refresh, Goto,
      tables, request
<1>2. SessionIsolation'
  BY AuthAssumption, SMTT(30) DEF Inv, TypeOK, SessionIsolation,
      RequestsConsistent, Refresh, Goto, tables, request
<1> QED BY <1>1, <1>2 DEF Inv

\* The copy of the row decides where to go on; the row itself may change later.
LEMMA RefreshLookupStep ==
  ASSUME Inv, NEW r \in Request, RefreshLookup(r)
  PROVE  Inv'
<1>1. TypeOK' /\ RowsConsistent' /\ RequestsConsistent' /\
      SuccessorsConsistent' /\ SingleLiveToken' /\ ReuseEndsSessions' /\
      RotationRecorded' /\ SessionIsolation' /\ LogoutEffective'
  BY AuthAssumption, SMTT(30) DEF Inv, TypeOK, RowsConsistent,
      RequestsConsistent, SuccessorsConsistent, SingleLiveToken,
      ReuseEndsSessions, RotationRecorded, SessionIsolation,
      LogoutEffective, RefreshLookup, Goto, Exists, tables, request
<1> QED BY <1>1 DEF Inv

\* The successor joins the session of the presented token without being handed out.
LEMMA ReissueStep ==
  ASSUME Inv, NEW r \in Request, NEW t \in Token, Reissue(r, t)
  PROVE  Inv'
<1>1. RequestsConsistent' /\ LogoutEffective'
  BY AuthAssumption, SMTT(30) DEF Inv, TypeOK, RequestsConsistent,
      LogoutEffective, Reissue, Goto, CreateToken, tables, request
<1>2. TypeOK' /\ RowsConsistent'
  BY AuthAssumption, SMTT(30) DEF Inv, TypeOK, RowsConsistent,
      RequestsConsistent, Reissue, Goto, CreateToken, tables, request
<1>3. SuccessorsConsistent' /\ SingleLiveToken' /\ ReuseEndsSessions' /\
      SessionIsolation'
  BY AuthAssumption, SMTT(30) DEF Inv, TypeOK, SuccessorsConsistent,
      SingleLiveToken, ReuseEndsSessions, SessionIsolation, RowsConsistent,
      Reissue, Goto, CreateToken, tables, request
<1>4. RotationRecorded'
  BY AuthAssumption, SMTT(30) DEF Inv, TypeOK, RotationRecorded,
      RowsConsistent, RequestsConsistent, SuccessorsConsistent, Reissue,
      Goto, CreateToken, tables, request
<1> QED BY <1>1, <1>2, <1>3, <1>4 DEF Inv

\* The step that could leave two live tokens: it hands the successor out only when it
\* revokes the token it replaces, which was the live one of the session.
LEMMA RotateStep ==
  ASSUME Inv, NEW r \in Request, Rotate(r)
  PROVE  Inv'
<1>1. RequestsConsistent' /\ SessionIsolation' /\ LogoutEffective'
  BY AuthAssumption, SMTT(30) DEF Inv, TypeOK, RequestsConsistent,
      SessionIsolation, LogoutEffective, Rotate, Goto, tables, request
<1>2. SuccessorsConsistent'
  BY AuthAssumption, SMTT(30) DEF Inv, TypeOK, SuccessorsConsistent,
      RequestsConsistent, Rotate, Goto, tables, request
<1>3. RowsConsistent'
  BY AuthAssumption, SMTT(30) DEF Inv, TypeOK, RowsConsistent,
      RequestsConsistent, SuccessorsConsistent, Rotate, Goto, tables,
      request
<1>4. TypeOK' /\ SingleLiveToken' /\ ReuseEndsSessions' /\ RotationRecorded'
  BY AuthAssumption, SMTT(60) DEF Inv, TypeOK, SingleLiveToken,
      ReuseEndsSessions, RotationRecorded, RowsConsistent,
      RequestsConsistent, SuccessorsConsistent, Rotate, Goto, tables,
      request
<1> QED BY <1>1, <1>2, <1>3, <1>4 DEF Inv

\* Tokens of one session are of one user, so a session ends as a whole.
LEMMA RevokeAllStep ==
  ASSUME Inv, NEW r \in Request, RevokeAll(r)
  PROVE  Inv'
<1>1. RowsConsistent' /\ RequestsConsistent' /\ SuccessorsConsistent' /\
      SingleLiveToken' /\ LogoutEffective'
  BY AuthAssumption, SMTT(30) DEF Inv, TypeOK, RowsConsistent,
      RequestsConsistent, SuccessorsConsistent, SingleLiveToken,
      LogoutEffective, RevokeAll, Goto, Exists, tables, request
<1>2. TypeOK' /\ ReuseEndsSessions'
  BY AuthAssumption, SMTT(30) DEF Inv, TypeOK, ReuseEndsSessions,
      RowsConsistent, RevokeAll, Goto, Exists, tables, request
<1>3. SessionIsolation'
  BY AuthAssumption, SMTT(30) DEF Inv, TypeOK, SessionIsolation,
      RequestsConsistent, RevokeAll, Goto, Exists, tables, request
<1>4. RotationRecorded'
  BY AuthAssumption, SMTT(30) DEF Inv, TypeOK, RotationRecorded,
      RowsConsistent, RequestsConsistent, SuccessorsConsistent, RevokeAll,
      Goto, Exists, tables, request
<1> QED BY <1>1, <1>2, <1>3, <1>4 DEF Inv

\* As Refresh.
LEMMA LogoutStep ==
  ASSUME Inv, NEW r \in Request, NEW x \in handed \cup {None}, Logout(r, x)
  PROVE  Inv'
<1>1. TypeOK' /\ RowsConsistent' /\ RequestsConsistent' /\
      SuccessorsConsistent' /\ SingleLiveToken' /\ ReuseEndsSessions' /\
      RotationRecorded' /\ LogoutEffective'
  BY AuthAssumption, SMTT(30) DEF Inv, TypeOK, RowsConsistent,
      RequestsConsistent, SuccessorsConsistent, SingleLiveToken,
      ReuseEndsSessions, RotationRecorded, LogoutEffective, Logout, Goto,
      tables, request
<1>2. SessionIsolation'
  BY AuthAssumption, SMTT(30) DEF Inv, TypeOK, SessionIsolation,
      RequestsConsistent, Logout, Goto, tables, request
<1> QED BY <1>1, <1>2 DEF Inv

\* A token that is not active is revoked: it was handed out and has a row.
LEMMA LogoutLookupStep ==
  ASSUME Inv, NEW r \in Request, LogoutLookup(r)
  PROVE  Inv'
<1>1. TypeOK' /\ RowsConsistent' /\ RequestsConsistent' /\ SingleLiveToken'
      /\ ReuseEndsSessions' /\ SessionIsolation'
  BY AuthAssumption, SMTT(30) DEF Inv, TypeOK, RowsConsistent,
      RequestsConsistent, SingleLiveToken, ReuseEndsSessions,
      SessionIsolation, LogoutLookup, Goto, Exists, tables, request
<1>2. SuccessorsConsistent' /\ RotationRecorded'
  BY AuthAssumption, SMTT(30) DEF Inv, TypeOK, SuccessorsConsistent,
      RotationRecorded, RequestsConsistent, LogoutLookup, Goto, Exists,
      tables, request
<1>3. LogoutEffective'
  BY AuthAssumption, SMTT(30) DEF Inv, TypeOK, LogoutEffective,
      RowsConsistent, RequestsConsistent, LogoutLookup, Goto, Exists,
      tables, request
<1> QED BY <1>1, <1>2, <1>3 DEF Inv

\* The presented token is revoked, whatever happened to it since it was looked up.
LEMMA LogoutRevokeStep ==
  ASSUME Inv, NEW r \in Request, LogoutRevoke(r)
  PROVE  Inv'
<1>1. RequestsConsistent' /\ SingleLiveToken' /\ ReuseEndsSessions' /\
      SessionIsolation' /\ LogoutEffective'
  BY AuthAssumption, SMTT(30) DEF Inv, TypeOK, RequestsConsistent,
      SingleLiveToken, ReuseEndsSessions, SessionIsolation, LogoutEffective,
      LogoutRevoke, Goto, Returns, tables, request
<1>2. TypeOK' /\ RowsConsistent' /\ SuccessorsConsistent' /\
      RotationRecorded'
  BY AuthAssumption, SMTT(30) DEF Inv, TypeOK, RowsConsistent,
      SuccessorsConsistent, RotationRecorded, RequestsConsistent,
      LogoutRevoke, Goto, Returns, tables, request
<1> QED BY <1>1, <1>2 DEF Inv

\* Only pc changes, to an outcome nothing depends on.
LEMMA DatabaseFailsStep ==
  ASSUME Inv, NEW r \in Request, DatabaseFails(r)
  PROVE  Inv'
<1>1. TypeOK' /\ RowsConsistent' /\ RequestsConsistent' /\
      SuccessorsConsistent' /\ SingleLiveToken' /\ ReuseEndsSessions' /\
      RotationRecorded' /\ SessionIsolation' /\ LogoutEffective'
  BY AuthAssumption, SMTT(30) DEF Inv, TypeOK, RowsConsistent,
      RequestsConsistent, SuccessorsConsistent, SingleLiveToken,
      ReuseEndsSessions, RotationRecorded, SessionIsolation,
      LogoutEffective, DatabaseFails, Goto, tables, request
<1> QED BY <1>1 DEF Inv

\* Only expired changes.
LEMMA ExpireStep ==
  ASSUME Inv, NEW t \in Token, Expire(t)
  PROVE  Inv'
<1>1. TypeOK' /\ RowsConsistent' /\ RequestsConsistent' /\
      SuccessorsConsistent' /\ SingleLiveToken' /\ ReuseEndsSessions' /\
      RotationRecorded' /\ SessionIsolation' /\ LogoutEffective'
  BY AuthAssumption, SMTT(30) DEF Inv, TypeOK, RowsConsistent,
      RequestsConsistent, SuccessorsConsistent, SingleLiveToken,
      ReuseEndsSessions, RotationRecorded, SessionIsolation,
      LogoutEffective, Expire, tables, request
<1> QED BY <1>1 DEF Inv

-----------------------------------------------------------------------------
\* Inv holds in every reachable state, whatever the interleaving of the requests
\* and the failures of their calls.
THEOREM Invariance == Spec => []Inv
<1>1. Init => Inv
  BY AuthAssumption DEF Init, Inv, TypeOK, RowsConsistent, RequestsConsistent,
     SuccessorsConsistent, SingleLiveToken, ReuseEndsSessions, RotationRecorded,
     SessionIsolation, LogoutEffective
<1>2. Inv /\ [Next]_vars => Inv'
  <2> SUFFICES ASSUME Inv, [Next]_vars PROVE Inv'
    OBVIOUS
  <2>1. ASSUME NEW r \in Request, NEW u \in User, Register(r, u) \/ Login(r, u)
        PROVE  Inv'
    BY <2>1, RegisterStep, LoginStep
  <2>2. ASSUME NEW r \in Request, NEW x \in handed \cup {None},
               Refresh(r, x) \/ Logout(r, x)
        PROVE  Inv'
    BY <2>2, RefreshStep, LogoutStep
  <2>3. ASSUME NEW r \in Request, NEW t \in Token, Issue(r, t) \/ Reissue(r, t)
        PROVE  Inv'
    BY <2>3, IssueStep, ReissueStep
  <2>4. ASSUME NEW r \in Request,
               CreateUser(r) \/ LoginLookup(r) \/ RefreshLookup(r) \/ Rotate(r)
        PROVE  Inv'
    BY <2>4, CreateUserStep, LoginLookupStep, RefreshLookupStep, RotateStep
  <2>5. ASSUME NEW r \in Request,
               RevokeAll(r) \/ LogoutLookup(r) \/ LogoutRevoke(r) \/ DatabaseFails(r)
        PROVE  Inv'
    BY <2>5, RevokeAllStep, LogoutLookupStep, LogoutRevokeStep, DatabaseFailsStep
  <2>6. ASSUME NEW t \in Token, Expire(t) PROVE Inv'
    BY <2>6, ExpireStep
  <2>7. CASE UNCHANGED vars
    BY <2>7 DEF vars, tables, request, Inv, TypeOK, RowsConsistent,
       RequestsConsistent, SuccessorsConsistent, SingleLiveToken,
       ReuseEndsSessions, RotationRecorded, SessionIsolation, LogoutEffective
  <2> QED
    BY <2>1, <2>2, <2>3, <2>4, <2>5, <2>6, <2>7 DEF Next
<1> QED
  BY <1>1, <1>2, PTL DEF Spec

\* The variables keep their types.
THEOREM TypeCorrect == Spec => []TypeOK
BY Invariance, PTL DEF Inv

\* Clients never hold two active tokens of one session.
THEOREM OneLiveToken == Spec => []SingleLiveToken
BY Invariance, PTL DEF Inv

\* A session that RevokeAllForUser met does not live on in a client's hands.
THEOREM ReuseEnds == Spec => []ReuseEndsSessions
BY Invariance, PTL DEF Inv

\* At most one Refresh of a token succeeds, and replaced_by tells which.
THEOREM RotatedOnce == Spec => []RotationRecorded
BY Invariance, PTL DEF Inv

\* A token is revoked only on account of itself or of its user's reuse.
THEOREM SessionsIsolated == Spec => []SessionIsolation
BY Invariance, PTL DEF Inv

\* A Logout that succeeded has revoked its token.
THEOREM LogoutRevokes == Spec => []LogoutEffective
BY Invariance, PTL DEF Inv
=============================================================================

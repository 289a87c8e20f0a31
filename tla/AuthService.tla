---------------------------- MODULE AuthService ----------------------------
(***************************************************************************)
(* Sessions: the four requests of services.AuthService                     *)
(* (internal/services/auth.go) behind internal/handlers/auth.go, running   *)
(* concurrently against the database.  Nothing spans two database calls    *)
(* but the request itself: no transaction, no lock.  Each call is one      *)
(* action and may fail, because the request's context ended or the         *)
(* database did, with or without having taken effect.                      *)
(*                                                                         *)
(* The repositories are external; their calls do what services/auth.go     *)
(* relies on: Create of a user refuses a name that exists, Revoke revokes  *)
(* a row that is not revoked yet and otherwise reports ErrNotFound,        *)
(* RevokeAllForUser revokes what is not revoked.                           *)
(***************************************************************************)
EXTENDS Naturals, FiniteSets

CONSTANTS Request,   \* requests; each is served once
          User,      \* user names
          Token,     \* refresh tokens, and their rows
          None

ASSUME AuthAssumption == None \notin Request \cup User \cup Token

VARIABLES
    \* the tables
    users,     \* names that exist
    row,       \* token -> "none", "active" or "revoked"
    owner,     \* token -> user, None without a row
    replaced,  \* token -> the token of its replaced_by, or None
    expired,   \* tokens past expires_at
    \* the requests
    pc,        \* the call a request makes next, or its outcome: "ok",
               \* "invalid", "reuse" or "error"
    op,        \* "register", "login", "refresh", "logout", or "none"
    who,       \* user name of a Register or Login, else None
    arg,       \* token presented to a Refresh or Logout, None if unknown
    new,       \* token a Refresh has issued, else None
    \* history
    handed,    \* tokens that were returned to a client
    session,   \* token -> the Register or Login its chain of refreshes began with
    ended      \* sessions whose rows were there when RevokeAllForUser ran

tables == <<users, row, owner, replaced, expired>>
request == <<op, who, arg>>
vars == <<tables, pc, request, new, handed, session, ended>>

Init ==
    /\ users = {} /\ expired = {}
    /\ row = [t \in Token |-> "none"]
    /\ owner = [t \in Token |-> None]
    /\ replaced = [t \in Token |-> None]
    /\ pc = [r \in Request |-> "idle"]
    /\ op = [r \in Request |-> "none"]
    /\ who = [r \in Request |-> None]
    /\ arg = [r \in Request |-> None]
    /\ new = [r \in Request |-> None]
    /\ handed = {} /\ ended = {}
    /\ session = [t \in Token |-> None]

Goto(r, l) == pc' = [pc EXCEPT ![r] = l]

\* A call took effect; its answer may be lost on the way, which the service
\* reports as an error.
Returns(r, l) == Goto(r, l) \/ Goto(r, "error")

Exists(t) == t # None /\ row[t] # "none"

-----------------------------------------------------------------------------
(* Wrong variants of the operations below, against which the properties    *)
(* are tested.                                                             *)

\* Refresh tolerates ErrNotFound from Revoke, as Logout does.
Rotate_Tolerant(r) ==
    LET t == arg[r] IN
    /\ pc[r] = "rotate"
    /\ row' = [row EXCEPT ![t] = "revoked"]
    /\ replaced' = IF row[t] = "active" THEN [replaced EXCEPT ![t] = new[r]]
                                        ELSE replaced
    /\ Goto(r, "ok")
    /\ handed' = handed \cup {new[r]}
    /\ UNCHANGED <<users, owner, expired, request, new, session, ended>>

\* Logout revokes every session of the user.
LogoutRevoke_All(r) ==
    /\ pc[r] = "logoutrevoke"
    /\ row' = [t \in Token |-> IF row[t] = "active" /\ owner[t] = owner[arg[r]]
                               THEN "revoked" ELSE row[t]]
    /\ Returns(r, "ok")
    /\ UNCHANGED <<users, owner, replaced, expired, request, new, handed,
                   session, ended>>

\* Logout ignores every error of Revoke.
DatabaseFails_Ignored(r) ==
    /\ pc[r] \in {"createuser", "loginlookup", "issue", "lookup", "reissue",
                  "rotate", "logoutlookup", "logoutrevoke"}
    /\ Goto(r, IF pc[r] = "logoutrevoke" THEN "ok" ELSE "error")
    /\ UNCHANGED <<tables, request, new, handed, session, ended>>

-----------------------------------------------------------------------------
(* Register and Login                                                      *)

Register(r, u) ==
    /\ pc[r] = "idle"
    /\ Goto(r, "createuser")
    /\ op' = [op EXCEPT ![r] = "register"]
    /\ who' = [who EXCEPT ![r] = u]
    /\ UNCHANGED <<tables, arg, new, handed, session, ended>>

\* users.Create: a name that is taken is refused.
CreateUser(r) ==
    /\ pc[r] = "createuser"
    /\ IF who[r] \in users THEN Goto(r, "error") ELSE Returns(r, "issue")
    /\ users' = users \cup {who[r]}
    /\ UNCHANGED <<row, owner, replaced, expired, request, new, handed, session, ended>>

Login(r, u) ==
    /\ pc[r] = "idle"
    /\ Goto(r, "loginlookup")
    /\ op' = [op EXCEPT ![r] = "login"]
    /\ who' = [who EXCEPT ![r] = u]
    /\ UNCHANGED <<tables, arg, new, handed, session, ended>>

\* GetByUsername and the password, which is right only for a user there is.
LoginLookup(r) ==
    /\ pc[r] = "loginlookup"
    /\ Goto(r, "invalid") \/ (who[r] \in users /\ Goto(r, "issue"))
    /\ UNCHANGED <<tables, request, new, handed, session, ended>>

\* A fresh row; an access token is made as well and kept nowhere.
CreateToken(t, u) ==
    /\ row[t] = "none"
    /\ row' = [row EXCEPT ![t] = "active"]
    /\ owner' = [owner EXCEPT ![t] = u]
    /\ UNCHANGED <<users, replaced, expired>>

\* issueTokenPair: the client gets the token of a session of its own.
Issue(r, t) ==
    /\ pc[r] = "issue"
    /\ CreateToken(t, who[r])
    /\ session' = [session EXCEPT ![t] = r]
    /\ \/ Goto(r, "ok") /\ handed' = handed \cup {t}
       \/ Goto(r, "error") /\ UNCHANGED handed
    /\ UNCHANGED <<request, new, ended>>

-----------------------------------------------------------------------------
(* Refresh                                                                 *)

\* A client presents a token it was given, or one nobody was given.
Refresh(r, t) ==
    /\ pc[r] = "idle"
    /\ Goto(r, "lookup")
    /\ op' = [op EXCEPT ![r] = "refresh"]
    /\ arg' = [arg EXCEPT ![r] = t]
    /\ UNCHANGED <<tables, who, new, handed, session, ended>>

\* GetByHash; everything up to the next write is decided on this copy of the
\* row.  Revoked is looked at before expired.
RefreshLookup(r) ==
    LET t == arg[r] IN
    /\ pc[r] = "lookup"
    /\ Goto(r, IF ~Exists(t) THEN "invalid"
               ELSE IF row[t] = "revoked" THEN "revokeall"
               ELSE IF t \in expired THEN "invalid" ELSE "reissue")
    /\ UNCHANGED <<tables, request, new, handed, session, ended>>

\* GetByID and issueTokenPairWithRow: the successor is stored before the
\* presented token is revoked.
Reissue(r, t) ==
    /\ pc[r] = "reissue"
    /\ CreateToken(t, owner[arg[r]])
    /\ session' = [session EXCEPT ![t] = session[arg[r]]]
    /\ \/ Goto(r, "rotate") /\ new' = [new EXCEPT ![r] = t]
       \/ Goto(r, "error") /\ UNCHANGED new
    /\ UNCHANGED <<request, handed, ended>>

\* Revoke with a replaced_by: it fails when the token was revoked meanwhile, and
\* then the pair is not returned.
Rotate(r) ==
    LET t == arg[r] IN
    /\ pc[r] = "rotate"
    /\ \/ /\ row[t] = "active"
          /\ row' = [row EXCEPT ![t] = "revoked"]
          /\ replaced' = [replaced EXCEPT ![t] = new[r]]
          /\ \/ Goto(r, "ok") /\ handed' = handed \cup {new[r]}
             \/ Goto(r, "error") /\ UNCHANGED handed
       \/ row[t] # "active" /\ Goto(r, "error") /\ UNCHANGED <<row, replaced, handed>>
    /\ UNCHANGED <<users, owner, expired, request, new, session, ended>>

\* A revoked token was presented.  The error of RevokeAllForUser is ignored, so
\* the answer is the same whether or not it took effect.
RevokeAll(r) ==
    LET mine == {t \in Token : Exists(t) /\ owner[t] = owner[arg[r]]} IN
    /\ pc[r] = "revokeall"
    /\ Goto(r, "reuse")
    /\ \/ /\ row' = [t \in Token |-> IF t \in mine THEN "revoked" ELSE row[t]]
          /\ ended' = ended \cup {session[t] : t \in mine}
       \/ UNCHANGED <<row, ended>>
    /\ UNCHANGED <<users, owner, replaced, expired, request, new, handed, session>>

-----------------------------------------------------------------------------
(* Logout                                                                  *)

Logout(r, t) ==
    /\ pc[r] = "idle"
    /\ Goto(r, "logoutlookup")
    /\ op' = [op EXCEPT ![r] = "logout"]
    /\ arg' = [arg EXCEPT ![r] = t]
    /\ UNCHANGED <<tables, who, new, handed, session, ended>>

LogoutLookup(r) ==
    LET t == arg[r] IN
    /\ pc[r] = "logoutlookup"
    /\ Goto(r, IF Exists(t) /\ row[t] = "active" THEN "logoutrevoke" ELSE "ok")
    /\ UNCHANGED <<tables, request, new, handed, session, ended>>

\* A token that was revoked meanwhile is as good.
LogoutRevoke(r) ==
    /\ pc[r] = "logoutrevoke"
    /\ row' = [row EXCEPT ![arg[r]] = "revoked"]
    /\ Returns(r, "ok")
    /\ UNCHANGED <<users, owner, replaced, expired, request, new, handed,
                   session, ended>>

-----------------------------------------------------------------------------
\* The pending call fails without effect (RevokeAll covers its own failure).
DatabaseFails(r) ==
    /\ pc[r] \in {"createuser", "loginlookup", "issue", "lookup", "reissue",
                  "rotate", "logoutlookup", "logoutrevoke"}
    /\ Goto(r, "error")
    /\ UNCHANGED <<tables, request, new, handed, session, ended>>

Expire(t) ==
    /\ row[t] # "none" /\ t \notin expired
    /\ expired' = expired \cup {t}
    /\ UNCHANGED <<users, row, owner, replaced, pc, request, new, handed,
                   session, ended>>

Next ==
    \/ \E r \in Request :
          \/ \E u \in User : Register(r, u) \/ Login(r, u)
          \/ \E t \in handed \cup {None} : Refresh(r, t) \/ Logout(r, t)
          \/ CreateUser(r) \/ LoginLookup(r)
          \/ \E t \in Token : Issue(r, t) \/ Reissue(r, t)
          \/ RefreshLookup(r) \/ Rotate(r) \/ RevokeAll(r)
          \/ LogoutLookup(r) \/ LogoutRevoke(r)
          \/ DatabaseFails(r)
    \/ \E t \in Token : Expire(t)

Spec == Init /\ [][Next]_vars

-----------------------------------------------------------------------------
(* Properties                                                              *)

TypeOK ==
    /\ users \in SUBSET User
    /\ row \in [Token -> {"none", "active", "revoked"}]
    /\ owner \in [Token -> User \cup {None}]
    /\ replaced \in [Token -> Token \cup {None}]
    /\ expired \in SUBSET Token
    /\ pc \in [Request -> {"idle", "createuser", "loginlookup", "issue", "lookup",
                           "reissue", "rotate", "revokeall", "logoutlookup",
                           "logoutrevoke", "ok", "invalid", "reuse", "error"}]
    /\ op \in [Request -> {"none", "register", "login", "refresh", "logout"}]
    /\ who \in [Request -> User \cup {None}]
    /\ arg \in [Request -> Token \cup {None}]
    /\ new \in [Request -> Token \cup {None}]
    /\ handed \in SUBSET Token
    /\ session \in [Token -> Request \cup {None}]
    /\ ended \in SUBSET Request

\* However the refreshes of a session race, fail and are retried, clients never
\* hold two tokens of it that are both active.
SingleLiveToken ==
    \A t1, t2 \in handed :
        t1 # t2 /\ session[t1] = session[t2] =>
            ~(row[t1] = "active" /\ row[t2] = "active")

\* A Refresh that succeeded is recorded: its token is revoked and replaced by the
\* token of the answer, and two Refresh requests never both succeed on a token.
RotationRecorded ==
    \A r \in Request : op[r] = "refresh" /\ pc[r] = "ok" =>
        /\ row[arg[r]] = "revoked"
        /\ replaced[arg[r]] = new[r]
        /\ owner[new[r]] = owner[arg[r]]
        /\ \A q \in Request \ {r} : op[q] = "refresh" /\ pc[q] = "ok" =>
              arg[q] # arg[r]

\* When RevokeAllForUser took effect, no client holds an active token of a
\* session there was at that moment, nor ever gets one: a Refresh or Login that
\* was under way does not hand out an active token of such a session.
ReuseEndsSessions ==
    \A t \in handed : session[t] \in ended => row[t] # "active"

\* One session does not end another: a token is revoked only if it was itself
\* presented, or if reuse of a token of the same user was answered.
SessionIsolation ==
    \A t \in Token : row[t] = "revoked" =>
        \/ \E r \in Request : arg[r] = t
        \/ \E r \in Request : /\ op[r] = "refresh" /\ pc[r] = "reuse"
                              /\ owner[arg[r]] = owner[t]

\* A Logout that reported success leaves its token unusable.
LogoutEffective ==
    \A r \in Request : op[r] = "logout" /\ pc[r] = "ok" /\ arg[r] # None =>
        row[arg[r]] = "revoked"
-----------------------------------------------------------------------------
(* The inductive invariant behind the properties                           *)

\* Rows: whatever is recorded of a token goes with its row; tokens of one session
\* are of one user.
RowsConsistent ==
    /\ \A t \in Token : /\ row[t] = "none" <=> owner[t] = None
                        /\ row[t] = "none" <=> session[t] = None
                        /\ row[t] = "none" => t \notin handed
    /\ \A t1, t2 \in Token :
          session[t1] = session[t2] /\ session[t1] # None => owner[t1] = owner[t2]
    /\ \A x \in ended : \E t \in Token : session[t] = x

\* Requests: what a request holds while it waits for its next call.
RequestsConsistent ==
    \A r \in Request :
        /\ pc[r] = "idle" => op[r] = "none" /\ arg[r] = None
        /\ pc[r] \in {"createuser", "loginlookup", "issue"} => who[r] # None
        /\ pc[r] \in {"idle", "createuser", "loginlookup", "issue"} =>
              \A t \in Token : session[t] # r
        /\ pc[r] \in {"createuser", "loginlookup", "issue"} =>
              op[r] \in {"register", "login"}
        /\ pc[r] \in {"lookup", "reissue", "rotate", "revokeall"} => op[r] = "refresh"
        /\ pc[r] \in {"logoutlookup", "logoutrevoke"} => op[r] = "logout"
        /\ pc[r] \in {"reissue", "rotate", "revokeall", "logoutrevoke"} => arg[r] # None
        /\ arg[r] # None => arg[r] \in handed
        /\ pc[r] \in {"idle", "lookup", "reissue"} => new[r] = None

\* Successors: a Refresh that has issued a token and not yet revoked the one it
\* replaces is the only one who knows the new token.
SuccessorsConsistent ==
    /\ \A r \in Request : new[r] # None => row[new[r]] # "none"
    /\ \A r, q \in Request : r # q /\ new[r] # None => new[r] # new[q]
    /\ \A r \in Request : pc[r] = "rotate" =>
          /\ new[r] # None /\ new[r] \notin handed
          /\ session[new[r]] = session[arg[r]]
          /\ owner[new[r]] = owner[arg[r]]
    /\ \A r \in Request : op[r] = "refresh" /\ pc[r] = "ok" => new[r] # None /\ arg[r] # None

\* What the proofs of SingleLiveToken, ReuseEndsSessions and the others rest on.
Inv ==
    /\ TypeOK /\ RowsConsistent /\ RequestsConsistent /\ SuccessorsConsistent
    /\ SingleLiveToken /\ ReuseEndsSessions /\ RotationRecorded
    /\ SessionIsolation /\ LogoutEffective
=============================================================================

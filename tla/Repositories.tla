---------------------------- MODULE Repositories ----------------------------
(***************************************************************************)
(* The GORM repositories of internal/repository.  Each is one table with   *)
(* the same methods over it; they differ in what a List selects, how it    *)
(* orders and what an update changes of that order.  A behaviour is about  *)
(* one of the repositories, used by concurrent requests and by a client    *)
(* that walks through a list page by page.                                 *)
(*                                                                         *)
(* Postgres and GORM are external: a statement is atomic, is applied or    *)
(* not, and may report an error although it was applied.  A soft-deleted   *)
(* row is to every method what a deleted one is.                           *)
(***************************************************************************)
EXTENDS Integers, FiniteSets, Sequences, SequencesExt

CONSTANTS Id,           \* primary keys, numbered by a sequence
          Owner,        \* the users, contents or conversations of foreign keys
          Key,          \* timestamps or scores
          Limits,       \* the limits that callers of List pass
          Request,
          None

ASSUME RepositoriesAssumption ==
    /\ Id \subseteq Nat /\ Key \subseteq Int /\ Limits \subseteq Int
    /\ IsFiniteSet(Id)
    /\ None \notin Request

All == {"create", "get", "update", "delete"}

\* What tells the repositories apart: their methods; whether List selects all
\* rows, those of one owner, or those with the owner on either side; its order;
\* what it does with limit <= 0.  "created" is set by the clock of the process
\* that creates the row, "updated" also by every update, "score" by the caller.
Repo(ops, selects, orderBy, ascending, thenById, defaultLimit) ==
    [ops |-> ops, selects |-> selects, orderBy |-> orderBy, ascending |-> ascending,
     thenById |-> thenById, defaultLimit |-> defaultLimit]

CommentRepository == Repo(All, "one", "created", TRUE, FALSE, 30)
ContentRepository == Repo(All, "one", "created", FALSE, FALSE, 20)
ConversationRepository == Repo(All, "either", "updated", FALSE, FALSE, 50)
CustomerRepository == Repo({"create", "get"}, "none", "id", TRUE, TRUE, 0)
FollowRepository == Repo(All, "one", "created", FALSE, FALSE, 50)
HashtagRepository == Repo(All, "all", "score", FALSE, TRUE, 50)
HashtagCategoryRepository == Repo(All, "all", "id", FALSE, TRUE, 50)
LikedRepository == Repo(All, "one", "created", FALSE, FALSE, 50)
LocationRepository == Repo(All, "all", "id", FALSE, TRUE, 100)
MessageRepository == Repo(All, "one", "created", TRUE, FALSE, 100)
NotificationRepository == Repo(All, "one", "created", FALSE, FALSE, 50)
ReportRepository == Repo(All, "all", "created", FALSE, FALSE, 50)
ReportTypeRepository == Repo(All, "all", "score", FALSE, TRUE, 50)

Repository ==
    {CommentRepository, ContentRepository, ConversationRepository,
     CustomerRepository, FollowRepository, HashtagRepository,
     HashtagCategoryRepository, LikedRepository, LocationRepository,
     MessageRepository, NotificationRepository, ReportRepository,
     ReportTypeRepository}

VARIABLES
    repo,       \* the repository of this behaviour
    rows,       \* id -> [state, owners, key], state "fresh", "live" or "gone"
    writes,     \* id -> the requests whose UPDATE changed the row, in order
    pc,         \* request -> "idle", "called", "reading" or "answered"
    req,        \* request -> [op, id, found]: the state of the row at the call
    res,        \* request -> [outcome, val]: the last UPDATE in what it returns
    walk        \* the client that lists: what it asks for, the rows it has seen
                \* so far and what happened to the selected rows meanwhile

reqVars == <<pc, req, res>>
vars == <<repo, rows, writes, reqVars, walk>>

\* Who a row belongs to: one owner, or the two sides of a conversation.
Owners == IF repo.selects = "either" THEN SUBSET Owner \ {{}}
          ELSE {{o} : o \in Owner}
Keys == IF repo.orderBy = "id" THEN {0} ELSE Key

Live(i) == rows[i].state = "live"
Fresh == [state |-> "fresh", owners |-> {}, key |-> 0]

\* The table as earlier calls left it.
Init ==
    /\ repo \in Repository
    /\ rows \in [Id -> {Fresh} \cup [state : {"live"}, owners : Owners, key : Keys]]
    /\ writes = [i \in Id |-> << >>]
    /\ pc = [r \in Request |-> "idle"]
    /\ req = [r \in Request |-> [op |-> "get", id |-> 0, found |-> "fresh"]]
    /\ res = [r \in Request |-> [outcome |-> "none", val |-> None]]
    /\ walk = [phase |-> "none", owner |-> None, limit |-> 0, seen |-> << >>,
               start |-> {}, tied |-> FALSE,
               inserted |-> FALSE, deleted |-> FALSE, moved |-> FALSE]

-----------------------------------------------------------------------------
(* List                                                                    *)

Selected(o) ==
    {i \in Id : Live(i) /\ (repo.selects = "all" \/ o \in rows[i].owners)}

\* ORDER BY puts i before j.
Precedes(i, j) ==
    \/ IF repo.ascending THEN rows[i].key < rows[j].key ELSE rows[i].key > rows[j].key
    \/ rows[i].key = rows[j].key /\ repo.thenById /\ i > j

Tied(S) == \E i, j \in S : i # j /\ ~Precedes(i, j) /\ ~Precedes(j, i)

\* Postgres returns rows that tie in any order, and in another one next time.
Orderings(S) ==
    {q \in SetToSeqs(S) : \A a, b \in 1..Len(q) : a < b => ~Precedes(q[b], q[a])}

\* Wrong: a caller that leaves out the limit gets no rows.
Limit_NoDefault(l) == l

Limit(l) == IF l <= 0 THEN repo.defaultLimit ELSE l

\* What a List may return.
List(o, l, offset) ==
    LET to(q) == IF offset + Limit(l) < Len(q) THEN offset + Limit(l) ELSE Len(q)
    IN  {SubSeq(q, offset + 1, to(q)) : q \in Orderings(Selected(o))}

WalkStart(o, l) ==
    /\ repo.selects # "none" /\ walk.phase = "none"
    /\ walk' = [walk EXCEPT !.phase = "walking", !.owner = o, !.limit = l,
                            !.start = Selected(o)]
    /\ UNCHANGED <<repo, rows, writes, reqVars>>

\* The client asks for the page after the rows it has; an empty one is the last.
WalkPage ==
    /\ walk.phase = "walking"
    /\ \E page \in List(walk.owner, walk.limit, Len(walk.seen)) :
          walk' = [walk EXCEPT
                      !.seen = @ \o page,
                      !.tied = @ \/ Tied(Selected(walk.owner)),
                      !.phase = IF page = << >> THEN "done" ELSE @]
    /\ UNCHANGED <<repo, rows, writes, reqVars>>

\* Row i, which the walk selects before or after the step, changes as "what".
Note(i, what) ==
    walk' = IF /\ walk.phase # "none"
               /\ repo.selects = "all" \/ walk.owner \in rows[i].owners \cup rows'[i].owners
            THEN [walk EXCEPT ![what] = TRUE] ELSE walk

-----------------------------------------------------------------------------
(* The statements                                                          *)

Call(r, op, i) ==
    /\ pc[r] = "idle"
    /\ op \in repo.ops
    /\ pc' = [pc EXCEPT ![r] = "called"]
    /\ req' = [req EXCEPT ![r] = [op |-> op, id |-> i, found |-> rows[i].state]]
    /\ UNCHANGED <<repo, rows, writes, res, walk>>

Answer(r, outcome, val) ==
    /\ pc' = [pc EXCEPT ![r] = "answered"]
    /\ res' = [res EXCEPT ![r] = [outcome |-> outcome, val |-> val]]
    /\ UNCHANGED req

Version(i) == IF writes[i] = << >> THEN None ELSE Last(writes[i])

Statement(r, op) == pc[r] = "called" /\ req[r].op = op

\* The sequence gives each INSERT a number of its own; one that took its number
\* early may commit late.
Insert(i, o, k) ==
    /\ rows[i].state = "fresh"
    /\ rows' = [rows EXCEPT ![i] = [state |-> "live", owners |-> o, key |-> k]]
    /\ Note(i, "inserted")

Create(r, i, o, k) ==
    /\ Statement(r, "create")
    /\ Insert(i, o, k)
    /\ Answer(r, "ok", None)
    /\ UNCHANGED <<repo, writes>>

\* Also by a unique name, and as the second statement of Update and MarkRead.
GetByID(r) ==
    /\ pc[r] = "reading" \/ Statement(r, "get")
    /\ IF Live(req[r].id) THEN Answer(r, "ok", Version(req[r].id))
       ELSE Answer(r, "notfound", None)
    /\ UNCHANGED <<repo, rows, writes, walk>>

\* Every update sets updated_at, an update of the score is the caller's.
Write(r, k) ==
    LET i == req[r].id IN
    /\ Live(i)
    /\ k = rows[i].key \/ repo.orderBy \in {"updated", "score"}
    /\ rows' = [rows EXCEPT ![i].key = k]
    /\ writes' = [writes EXCEPT ![i] = Append(@, r)]
    /\ IF k = rows[i].key THEN UNCHANGED walk ELSE Note(i, "moved")

\* Wrong: the row is returned as it was before the UPDATE.
Update_ReadsFirst(r, k) ==
    /\ Statement(r, "update")
    /\ Write(r, k)
    /\ Answer(r, "ok", Version(req[r].id))
    /\ UNCHANGED repo

\* UPDATE, and then GetByID in a statement of its own.  MarkRead does the same.
Update(r, k) ==
    /\ Statement(r, "update")
    /\ Write(r, k)
    /\ pc' = [pc EXCEPT ![r] = "reading"]
    /\ UNCHANGED <<repo, req, res>>

DeleteRow(i) ==
    /\ Live(i)
    /\ rows' = [rows EXCEPT ![i] = [Fresh EXCEPT !.state = "gone"]]
    /\ Note(i, "deleted")

Delete(r) ==
    /\ Statement(r, "delete")
    /\ DeleteRow(req[r].id)
    /\ Answer(r, "ok", None)
    /\ UNCHANGED <<repo, writes>>

\* Wrong: RowsAffected of a DELETE is not looked at.
NotFound_OkOnDelete(r) ==
    /\ Statement(r, "update") \/ Statement(r, "delete")
    /\ ~Live(req[r].id)
    /\ Answer(r, IF req[r].op = "delete" THEN "ok" ELSE "notfound", None)
    /\ UNCHANGED <<repo, rows, writes, walk>>

\* RowsAffected = 0: ErrNotFound.
NotFound(r) ==
    /\ Statement(r, "update") \/ Statement(r, "delete")
    /\ ~Live(req[r].id)
    /\ Answer(r, "notfound", None)
    /\ UNCHANGED <<repo, rows, writes, walk>>

\* A constraint is violated, the context is cancelled or Postgres cannot be
\* reached; in the latter cases the statement may have been applied.
Fail(r) ==
    /\ pc[r] \in {"called", "reading"}
    /\ Answer(r, "error", None)
    /\ \/ UNCHANGED <<rows, writes, walk>>
       \/ /\ Statement(r, "create") /\ UNCHANGED writes
          /\ \E i \in Id, o \in Owners, k \in Keys : Insert(i, o, k)
       \/ Statement(r, "update") /\ \E k \in Keys : Write(r, k)
       \/ Statement(r, "delete") /\ DeleteRow(req[r].id) /\ UNCHANGED writes
    /\ UNCHANGED repo

Next ==
    \/ \E r \in Request :
          \/ \E op \in All, i \in Id : Call(r, op, i)
          \/ \E i \in Id, o \in Owners, k \in Keys : Create(r, i, o, k)
          \/ \E k \in Keys : Update(r, k)
          \/ GetByID(r) \/ Delete(r) \/ NotFound(r) \/ Fail(r)
    \/ \E o \in Owner, l \in Limits : WalkStart(o, l)
    \/ WalkPage

Spec == Init /\ [][Next]_vars

-----------------------------------------------------------------------------
(* Properties                                                              *)

TypeOK ==
    /\ repo \in Repository
    /\ rows \in [Id -> [state : {"fresh", "live", "gone"},
                        owners : SUBSET Owner, key : Key \cup {0}]]
    /\ writes \in [Id -> Seq(Request)]
    /\ pc \in [Request -> {"idle", "called", "reading", "answered"}]
    /\ req \in [Request -> [op : All, id : Id \cup {0}, found : {"fresh", "live", "gone"}]]
    /\ res \in [Request -> [outcome : {"none", "ok", "notfound", "error"},
                            val : Request \cup {None}]]
    /\ walk \in [phase : {"none", "walking", "done"}, owner : Owner \cup {None},
                limit : Limits \cup {0}, seen : Seq(Id), start : SUBSET Id, tied : BOOLEAN,
                inserted : BOOLEAN, deleted : BOOLEAN, moved : BOOLEAN]

\* Update is two statements; what it returns is the row as this update or a
\* later one left it, never an earlier state, and "not found" only when the row
\* has been deleted meanwhile (comment.go:82-95 and its likes).
UpdateReturnsOwnOrLater ==
    \A r \in Request : pc[r] = "answered" /\ req[r].op = "update" =>
        LET w == writes[req[r].id] IN
        /\ res[r].outcome = "ok" =>
              \E a, b \in 1..Len(w) : a <= b /\ w[a] = r /\ w[b] = res[r].val
        /\ res[r].outcome = "notfound" /\ req[r].found = "live" =>
              rows[req[r].id].state = "gone"

\* However many requests delete a row, one of them at most is told that it did;
\* and a call that begins when the row is deleted never finds it, and changes
\* nothing (comment.go:97-106 and its likes).
DeletedOnce ==
    \A r, q \in Request : pc[q] = "answered" /\ res[q].outcome = "ok" =>
        /\ req[q].op # "create" => req[q].found # "gone"
        /\ ~( /\ r # q /\ req[r].id = req[q].id
              /\ pc[r] = "answered" /\ res[r].outcome = "ok"
              /\ req[r].op = "delete" /\ req[q].op = "delete" )

\* LIMIT and OFFSET page through a list that changes: unless rows tie, a row is
\* left out only when others were deleted or moved, and comes twice only when
\* others were inserted or moved; an unchanged list comes as it is.
PagesCoverList ==
    walk.phase = "done" /\ ~walk.tied =>
        /\ ~walk.deleted /\ ~walk.moved => walk.start \subseteq Range(walk.seen)
        /\ ~walk.inserted /\ ~walk.moved => IsInjective(walk.seen)
        /\ ~walk.inserted /\ ~walk.deleted /\ ~walk.moved =>
              /\ Range(walk.seen) = walk.start
              /\ \A a, b \in 1..Len(walk.seen) :
                    a < b => ~Precedes(walk.seen[b], walk.seen[a])

-----------------------------------------------------------------------------
(* The invariant behind the first two                                      *)

\* A row is created and deleted once, and a request remembers where it stood.
CallsConsistent ==
    \A r \in Request : pc[r] # "idle" =>
        /\ req[r].id \in Id
        /\ req[r].found = "live" => rows[req[r].id].state # "fresh"
        /\ req[r].found = "gone" => rows[req[r].id].state = "gone"

\* An update that goes on to read has written, a successful delete has deleted.
EffectsConsistent ==
    \A r \in Request :
        LET w == writes[req[r].id] IN
        /\ pc[r] = "reading" =>
              /\ req[r].op = "update" /\ req[r].found # "gone"
              /\ \E a \in 1..Len(w) : w[a] = r
        /\ pc[r] = "answered" /\ res[r].outcome = "ok" /\ req[r].op = "delete" =>
              rows[req[r].id].state = "gone"

CallsInv == /\ TypeOK /\ CallsConsistent /\ EffectsConsistent
            /\ UpdateReturnsOwnOrLater /\ DeletedOnce

-----------------------------------------------------------------------------
(* The invariant behind the third                                          *)

\* The selected rows in front of row i.
Rank(i) == Cardinality({j \in Selected(walk.owner) : Precedes(j, i)})

\* What was seen is what comes first in the list: all of it that is left from the
\* start when nothing moved backwards, and nothing else when nothing moved
\* forwards.
WalkConsistent ==
    /\ walk.phase = "none" => walk.seen = << >>
    /\ walk.phase # "none" => repo.selects # "none"
    /\ walk.phase # "none" /\ ~walk.tied /\ ~walk.moved =>
          /\ ~walk.deleted =>
                /\ walk.start \subseteq Selected(walk.owner)
                /\ \A i \in walk.start :
                      Rank(i) < Len(walk.seen) \/ walk.phase = "done" => i \in Range(walk.seen)
          /\ ~walk.inserted =>
                /\ IsInjective(walk.seen)
                /\ \A i \in Selected(walk.owner) \cap Range(walk.seen) : Rank(i) < Len(walk.seen)
          /\ ~walk.deleted /\ ~walk.inserted =>
                /\ walk.start = Selected(walk.owner)
                /\ \A a \in 1..Len(walk.seen) :
                      walk.seen[a] \in walk.start /\ Rank(walk.seen[a]) = a - 1

Inv == CallsInv /\ WalkConsistent
=============================================================================

------------------------- MODULE RepositoriesProofs -------------------------
(***************************************************************************)
(* Proofs about Repositories, for any numbers of rows, owners and requests *)
(* and each of the repositories.                                           *)
(***************************************************************************)
EXTENDS Repositories, TLAPS, FiniteSetTheorems

RowTypes == rows \in [Id -> [state : {"fresh", "live", "gone"},
                             owners : SUBSET Owner, key : Key \cup {0}]]

WalkTypes ==
    walk \in [phase : {"none", "walking", "done"}, owner : Owner \cup {None},
              limit : Limits \cup {0}, seen : Seq(Id), start : SUBSET Id, tied : BOOLEAN,
              inserted : BOOLEAN, deleted : BOOLEAN, moved : BOOLEAN]

TableTypes == RowTypes /\ writes \in [Id -> Seq(Request)] /\ WalkTypes

\* What a step may do to the table: no row comes back, no write is undone.
Forward ==
    \A i \in Id :
        /\ rows[i].state # "fresh" => rows'[i].state # "fresh"
        /\ rows[i].state = "gone" => rows'[i].state = "gone"
        /\ \A a \in 1..Len(writes[i]) :
              a \in 1..Len(writes'[i]) /\ writes'[i][a] = writes[i][a]

-----------------------------------------------------------------------------
(* The statements, as far as the table goes                                *)

\* What Owners and Keys choose from.
LEMMA OwnersKeys ==
  ASSUME TypeOK
  PROVE  Owners \subseteq SUBSET Owner /\ Keys \subseteq Key \cup {0}
BY DEF Owners, Keys

\* The client that lists notes what happens to the rows.
LEMMA NoteTypes ==
  ASSUME WalkTypes, NEW i, NEW what \in {"inserted", "deleted", "moved"}, Note(i, what)
  PROVE  WalkTypes'
BY DEF WalkTypes, Note

\* An INSERT makes a fresh row live, and only that.
LEMMA InsertTable ==
  ASSUME TypeOK, NEW i \in Id, NEW o \in Owners, NEW k \in Keys,
         Insert(i, o, k), UNCHANGED writes
  PROVE  TableTypes' /\ Forward
<1>1. RowTypes'
  BY OwnersKeys DEF TypeOK, RowTypes, Insert
<1>2. WalkTypes'
  BY NoteTypes DEF TypeOK, WalkTypes, Insert
<1>3. Forward
  BY SMT DEF TypeOK, Forward, Insert
<1> QED BY <1>1, <1>2, <1>3 DEF TypeOK, TableTypes

\* An UPDATE adds its request to the writes of a row.
LEMMA WriteTable ==
  ASSUME TypeOK, NEW r \in Request, NEW k \in Keys, Write(r, k), req[r].id \in Id
  PROVE  /\ TableTypes' /\ Forward
         /\ \E a \in 1..Len(writes'[req[r].id]) : writes'[req[r].id][a] = r
<1> DEFINE i == req[r].id
<1>1. RowTypes'
  <2>1. rows[i] \in [state : {"fresh", "live", "gone"}, owners : SUBSET Owner, key : Key \cup {0}]
    BY DEF TypeOK
  <2>2. [rows[i] EXCEPT !.key = k]
           \in [state : {"fresh", "live", "gone"}, owners : SUBSET Owner, key : Key \cup {0}]
    BY <2>1, OwnersKeys
  <2> QED BY <2>2 DEF TypeOK, RowTypes, Write
<1>2. WalkTypes'
  BY NoteTypes DEF TypeOK, WalkTypes, Write
<1>3. /\ writes[i] \in Seq(Request) /\ writes'[i] = Append(writes[i], r)
      /\ \A j \in Id \ {i} : writes'[j] = writes[j]
  BY DEF TypeOK, Write
<1>4. writes' \in [Id -> Seq(Request)]
  <2>1. Append(writes[i], r) \in Seq(Request)
    BY <1>3
  <2> QED BY <2>1 DEF TypeOK, Write
<1>5. /\ Len(writes'[i]) \in 1..Len(writes'[i]) /\ writes'[i][Len(writes'[i])] = r
      /\ \A a \in 1..Len(writes[i]) : a \in 1..Len(writes'[i]) /\ writes'[i][a] = writes[i][a]
  BY <1>3
<1>6. \A j \in Id : rows'[j].state = rows[j].state
  BY SMT DEF TypeOK, Write
<1>7. Forward
  BY <1>3, <1>5, <1>6 DEF Forward
<1> QED BY <1>1, <1>2, <1>4, <1>5, <1>7 DEF TableTypes

\* A DELETE takes a live row, which is never live again.
LEMMA DeleteTable ==
  ASSUME TypeOK, NEW i \in Id, DeleteRow(i), UNCHANGED writes
  PROVE  /\ TableTypes' /\ Forward
         /\ rows[i].state = "live" /\ rows'[i].state = "gone"
<1>1. RowTypes'
  BY DEF TypeOK, RowTypes, DeleteRow, Fresh
<1>2. WalkTypes'
  BY NoteTypes DEF TypeOK, WalkTypes, DeleteRow
<1>3. rows[i].state = "live" /\ rows'[i].state = "gone"
  BY SMT DEF TypeOK, DeleteRow, Fresh, Live
<1>4. Forward
  BY <1>3, SMT DEF TypeOK, Forward, DeleteRow
<1> QED BY <1>1, <1>2, <1>3, <1>4 DEF TypeOK, TableTypes

\* A statement that is not applied.
LEMMA SameTable ==
  ASSUME TypeOK, UNCHANGED <<rows, writes, walk>>
  PROVE  TableTypes' /\ Forward
BY DEF TypeOK, TableTypes, RowTypes, WalkTypes, Forward

-----------------------------------------------------------------------------
(* What is told to the callers                                             *)

\* What an answer must not say.
LEMMA AnswerStep ==
  ASSUME CallsInv, TableTypes', Forward, UNCHANGED repo,
         NEW r \in Request, pc[r] # "idle",
         NEW outcome \in {"ok", "notfound", "error"}, NEW val \in Request \cup {None},
         Answer(r, outcome, val),
         outcome = "ok" /\ req[r].op = "update" =>
             \E a, b \in 1..Len(writes'[req[r].id]) :
                 a <= b /\ writes'[req[r].id][a] = r /\ writes'[req[r].id][b] = val,
         outcome = "notfound" /\ req[r].op = "update" /\ req[r].found = "live" =>
             rows'[req[r].id].state = "gone",
         outcome = "ok" /\ req[r].op # "create" => req[r].found # "gone",
         outcome = "ok" /\ req[r].op = "delete" =>
             rows[req[r].id].state = "live" /\ rows'[req[r].id].state = "gone"
  PROVE  CallsInv'
<1>1. /\ pc' = [pc EXCEPT ![r] = "answered"] /\ req' = req
      /\ res' = [res EXCEPT ![r] = [outcome |-> outcome, val |-> val]]
  BY DEF Answer
<1>2. TypeOK'
  <2>1. res' \in [Request -> [outcome : {"none", "ok", "notfound", "error"},
                              val : Request \cup {None}]]
    BY <1>1 DEF CallsInv, TypeOK
  <2> QED BY <1>1, <2>1 DEF CallsInv, TypeOK, TableTypes, RowTypes, WalkTypes
<1>3. CallsConsistent'
  BY <1>1 DEF CallsInv, TypeOK, CallsConsistent, Forward
<1>4. \A q \in Request : pc'[q] # "idle" => req[q].id \in Id
  BY <1>1 DEF CallsInv, TypeOK, CallsConsistent
<1>5. \A q \in Request : q # r => pc'[q] = pc[q] /\ res'[q] = res[q]
  BY <1>1 DEF CallsInv, TypeOK
<1>6. pc'[r] = "answered" /\ res'[r].outcome = outcome /\ res'[r].val = val
  BY <1>1 DEF CallsInv, TypeOK
<1>7. EffectsConsistent'
  BY <1>1, <1>4, <1>5, <1>6 DEF CallsInv, EffectsConsistent, Forward
<1>8. UpdateReturnsOwnOrLater'
  <2> SUFFICES ASSUME NEW q \in Request, pc'[q] = "answered", req[q].op = "update"
               PROVE  LET w == writes'[req[q].id] IN
                      /\ res'[q].outcome = "ok" =>
                            \E a, b \in 1..Len(w) : a <= b /\ w[a] = q /\ w[b] = res'[q].val
                      /\ res'[q].outcome = "notfound" /\ req[q].found = "live" =>
                            rows'[req[q].id].state = "gone"
    BY <1>1 DEF UpdateReturnsOwnOrLater
  <2>1. CASE q = r
    BY <1>6, <2>1
  <2>2. CASE q # r
    <3>1. /\ req[q].id \in Id /\ pc[q] = "answered" /\ res'[q] = res[q]
      BY <1>4, <1>5, <2>2
    <3>2. CASE res[q].outcome = "ok"
      <4>1. PICK a, b \in 1..Len(writes[req[q].id]) :
               a <= b /\ writes[req[q].id][a] = q /\ writes[req[q].id][b] = res[q].val
        BY <3>1, <3>2 DEF CallsInv, UpdateReturnsOwnOrLater
      <4>2. /\ a \in 1..Len(writes'[req[q].id]) /\ writes'[req[q].id][a] = q
            /\ b \in 1..Len(writes'[req[q].id]) /\ writes'[req[q].id][b] = res[q].val
        BY <3>1, <4>1 DEF Forward
      <4> QED BY <3>1, <3>2, <4>1, <4>2
    <3>3. CASE res[q].outcome # "ok"
      BY <3>1, <3>3 DEF CallsInv, UpdateReturnsOwnOrLater, Forward
    <3> QED BY <3>2, <3>3
  <2> QED BY <2>1, <2>2
<1>9. DeletedOnce'
  BY <1>1, <1>5, <1>6 DEF CallsInv, DeletedOnce, EffectsConsistent
<1> QED BY <1>2, <1>3, <1>7, <1>8, <1>9 DEF CallsInv

-----------------------------------------------------------------------------
(* One lemma per action                                                    *)

\* A request that begins has told nobody anything.
LEMMA CallStep ==
  ASSUME CallsInv, NEW r \in Request, NEW op \in All, NEW i \in Id, Call(r, op, i)
  PROVE  CallsInv'
<1>1. TypeOK'
  <2>1. rows[i].state \in {"fresh", "live", "gone"}
    BY DEF CallsInv, TypeOK
  <2>2. req' \in [Request -> [op : All, id : Id \cup {0}, found : {"fresh", "live", "gone"}]]
    BY <2>1 DEF CallsInv, TypeOK, Call
  <2> QED BY <2>2 DEF CallsInv, TypeOK, Call
<1>2. CallsConsistent'
  BY SMTT(30) DEF CallsInv, TypeOK, CallsConsistent, Call
<1>3. EffectsConsistent'
  BY SMTT(30) DEF CallsInv, TypeOK, EffectsConsistent, Call
<1>4. UpdateReturnsOwnOrLater'
  BY SMTT(30) DEF CallsInv, TypeOK, UpdateReturnsOwnOrLater, Call
<1>5. DeletedOnce'
  BY SMTT(30) DEF CallsInv, TypeOK, DeletedOnce, Call
<1> QED BY <1>1, <1>2, <1>3, <1>4, <1>5 DEF CallsInv

\* Create promises nothing that the table does not show.
LEMMA CreateStep ==
  ASSUME CallsInv, NEW r \in Request, NEW i \in Id, NEW o \in Owners, NEW k \in Keys,
         Create(r, i, o, k)
  PROVE  CallsInv'
<1>1. TableTypes' /\ Forward
  BY InsertTable DEF CallsInv, Create
<1>2. pc[r] # "idle" /\ req[r].op = "create" /\ Answer(r, "ok", None) /\ UNCHANGED repo
  BY DEF Create, Statement
<1> QED BY <1>1, <1>2, AnswerStep

\* The last write is the reader's own or a later one.
LEMMA GetByIDStep ==
  ASSUME CallsInv, NEW r \in Request, GetByID(r)
  PROVE  CallsInv'
<1> DEFINE i == req[r].id
<1>1. /\ pc[r] # "idle" /\ i \in Id /\ UNCHANGED <<repo, rows, writes, walk>>
      /\ req[r].op = "update" => pc[r] = "reading"
  BY DEF CallsInv, TypeOK, CallsConsistent, GetByID, Statement
<1>2. TableTypes' /\ Forward
  BY <1>1, SameTable DEF CallsInv
<1>3. CASE Live(i)
  <2>1. Answer(r, "ok", Version(i)) /\ rows[i].state = "live"
    BY <1>3 DEF GetByID, Live
  <2>2. writes[i] \in Seq(Request)
    BY <1>1 DEF CallsInv, TypeOK
  <2>3. writes[i] = << >> \/ Len(writes[i]) \in 1..Len(writes[i])
    BY <2>2
  <2>4. Version(i) \in Request \cup {None}
    BY <2>2, <2>3 DEF Version, Last
  <2>5. req[r].op = "update" =>
            \E a, b \in 1..Len(writes[i]) :
                a <= b /\ writes[i][a] = r /\ writes[i][b] = Version(i)
    <3> SUFFICES ASSUME req[r].op = "update"
                 PROVE  \E a, b \in 1..Len(writes[i]) :
                            a <= b /\ writes[i][a] = r /\ writes[i][b] = Version(i)
      OBVIOUS
    <3>1. PICK a \in 1..Len(writes[i]) : writes[i][a] = r
      BY <1>1 DEF CallsInv, EffectsConsistent
    <3>2. /\ Len(writes[i]) \in 1..Len(writes[i]) /\ a <= Len(writes[i])
          /\ Version(i) = writes[i][Len(writes[i])]
      BY <2>2, <2>3, <3>1 DEF Version, Last
    <3> QED BY <3>1, <3>2
  <2>6. req[r].found # "gone" /\ req[r].op # "delete"
    BY <1>1, <2>1 DEF CallsInv, CallsConsistent, EffectsConsistent, GetByID, Statement
  <2> QED BY <1>1, <1>2, <2>1, <2>4, <2>5, <2>6, AnswerStep
<1>4. CASE ~Live(i)
  <2>1. Answer(r, "notfound", None)
    BY <1>4 DEF GetByID
  <2>2. req[r].found = "live" => rows[i].state = "gone"
    BY <1>1, <1>4 DEF CallsInv, TypeOK, CallsConsistent, Live
  <2> QED BY <1>1, <1>2, <2>1, <2>2, AnswerStep
<1> QED BY <1>3, <1>4

\* The row is there, so that it was not deleted before the call.
LEMMA UpdateStep ==
  ASSUME CallsInv, NEW r \in Request, NEW k \in Keys, Update(r, k)
  PROVE  CallsInv'
<1> DEFINE i == req[r].id
<1>1. /\ pc[r] = "called" /\ req[r].op = "update" /\ i \in Id /\ Write(r, k)
      /\ rows[i].state = "live" /\ UNCHANGED <<repo, req, res>>
      /\ pc' = [pc EXCEPT ![r] = "reading"]
  BY DEF CallsInv, CallsConsistent, Update, Statement, Write, Live
<1>2. /\ TableTypes' /\ Forward
      /\ \E a \in 1..Len(writes'[i]) : writes'[i][a] = r
  BY <1>1, WriteTable DEF CallsInv
<1>3. TypeOK'
  BY <1>1, <1>2 DEF CallsInv, TypeOK, TableTypes, RowTypes, WalkTypes
<1>4. CallsConsistent'
  BY <1>1, <1>2 DEF CallsInv, TypeOK, CallsConsistent, Forward
<1>5. /\ pc'[r] = "reading" /\ req[r].found # "gone"
      /\ \A q \in Request : q # r => pc'[q] = pc[q]
      /\ \A q \in Request : pc'[q] # "idle" => req[q].id \in Id
  BY <1>1 DEF CallsInv, TypeOK, CallsConsistent
<1>6. EffectsConsistent'
  BY <1>1, <1>2, <1>5 DEF CallsInv, EffectsConsistent, Forward
<1>7. UpdateReturnsOwnOrLater'
  <2> SUFFICES ASSUME NEW q \in Request, pc'[q] = "answered", req[q].op = "update"
               PROVE  LET w == writes'[req[q].id] IN
                      /\ res[q].outcome = "ok" =>
                            \E a, b \in 1..Len(w) : a <= b /\ w[a] = q /\ w[b] = res[q].val
                      /\ res[q].outcome = "notfound" /\ req[q].found = "live" =>
                            rows'[req[q].id].state = "gone"
    BY <1>1 DEF UpdateReturnsOwnOrLater
  <2>1. pc[q] = "answered" /\ req[q].id \in Id
    BY <1>5
  <2>2. CASE res[q].outcome = "ok"
    <3>1. PICK a, b \in 1..Len(writes[req[q].id]) :
             a <= b /\ writes[req[q].id][a] = q /\ writes[req[q].id][b] = res[q].val
      BY <2>1, <2>2 DEF CallsInv, UpdateReturnsOwnOrLater
    <3>2. /\ a \in 1..Len(writes'[req[q].id]) /\ writes'[req[q].id][a] = q
          /\ b \in 1..Len(writes'[req[q].id]) /\ writes'[req[q].id][b] = res[q].val
      BY <1>2, <2>1, <3>1 DEF Forward
    <3> QED BY <2>2, <3>1, <3>2
  <2>3. CASE res[q].outcome # "ok"
    BY <1>2, <2>1, <2>3 DEF CallsInv, UpdateReturnsOwnOrLater, Forward
  <2> QED BY <2>2, <2>3
<1>8. DeletedOnce'
  BY <1>1, <1>5 DEF CallsInv, DeletedOnce
<1> QED BY <1>3, <1>4, <1>6, <1>7, <1>8 DEF CallsInv

\* The DELETE that affects a row is the only one that ever does.
LEMMA DeleteStep ==
  ASSUME CallsInv, NEW r \in Request, Delete(r)
  PROVE  CallsInv'
<1>1. /\ pc[r] # "idle" /\ req[r].op = "delete" /\ req[r].id \in Id
      /\ Answer(r, "ok", None) /\ UNCHANGED <<repo, writes>> /\ DeleteRow(req[r].id)
  BY DEF CallsInv, CallsConsistent, Delete, Statement
<1>2. /\ TableTypes' /\ Forward
      /\ rows[req[r].id].state = "live" /\ rows'[req[r].id].state = "gone"
  BY <1>1, DeleteTable DEF CallsInv
<1>3. req[r].found # "gone"
  BY <1>1, <1>2 DEF CallsInv, CallsConsistent
<1> QED BY <1>1, <1>2, <1>3, AnswerStep

\* A call that finds no row changes none.
LEMMA NotFoundStep ==
  ASSUME CallsInv, NEW r \in Request, NotFound(r)
  PROVE  CallsInv'
<1>1. /\ pc[r] # "idle" /\ req[r].id \in Id /\ ~Live(req[r].id)
      /\ Answer(r, "notfound", None) /\ UNCHANGED <<repo, rows, writes, walk>>
  BY DEF CallsInv, CallsConsistent, NotFound, Statement
<1>2. TableTypes' /\ Forward
  BY <1>1, SameTable DEF CallsInv
<1>3. req[r].found = "live" => rows[req[r].id].state = "gone"
  BY <1>1 DEF CallsInv, TypeOK, CallsConsistent, Live
<1> QED BY <1>1, <1>2, <1>3, AnswerStep

\* Whatever was applied, an error promises nothing.
LEMMA FailStep ==
  ASSUME CallsInv, NEW r \in Request, Fail(r)
  PROVE  CallsInv'
<1>1. /\ pc[r] # "idle" /\ req[r].id \in Id /\ Answer(r, "error", None) /\ UNCHANGED repo
  BY DEF CallsInv, CallsConsistent, Fail
<1>2. TableTypes' /\ Forward
  BY <1>1, SameTable, InsertTable, WriteTable, DeleteTable DEF CallsInv, Fail
<1> QED BY <1>1, <1>2, AnswerStep

-----------------------------------------------------------------------------
(* The client that lists                                                   *)

\* What the client of a list remembers is no part of the promises of the calls.
LEMMA WalkStep ==
  ASSUME CallsInv, UNCHANGED <<repo, rows, writes, reqVars>>, WalkTypes'
  PROVE  CallsInv'
BY DEF CallsInv, TypeOK, WalkTypes, CallsConsistent, EffectsConsistent,
   UpdateReturnsOwnOrLater, DeletedOnce, reqVars

\* A page consists of rows.
LEMMA PageTypes ==
  ASSUME TypeOK, NEW o, NEW l \in Limits \cup {0}, NEW offset \in Nat, NEW page \in List(o, l, offset)
  PROVE  page \in Seq(Id)
<1>1. Selected(o) \subseteq Id
  BY DEF Selected
<1>2. IsFiniteSet(Selected(o)) /\ Cardinality(Selected(o)) \in Nat
  BY <1>1, RepositoriesAssumption, FS_Subset, FS_CardinalityType
<1>3. Limit(l) \in Nat
  BY RepositoriesAssumption DEF TypeOK, Limit, Repository, Repo, CommentRepository, ContentRepository,
     ConversationRepository, CustomerRepository, FollowRepository, HashtagRepository,
     HashtagCategoryRepository, LikedRepository, LocationRepository,
     MessageRepository, NotificationRepository, ReportRepository, ReportTypeRepository
<1>4. PICK q \in Orderings(Selected(o)) :
        page = SubSeq(q, offset + 1, IF offset + Limit(l) < Len(q) THEN offset + Limit(l)
                                                                  ELSE Len(q))
  BY DEF List
<1>5. q \in Seq(Id)
  BY <1>1, <1>2 DEF Orderings, SetToSeqs
<1> QED BY <1>3, <1>4, <1>5, SMT

\* The first page and the following ones.
LEMMA WalkSteps ==
  ASSUME CallsInv, \/ \E o \in Owner, l \in Limits : WalkStart(o, l)
              \/ WalkPage
  PROVE  CallsInv'
<1>1. ASSUME NEW o \in Owner, NEW l \in Limits, WalkStart(o, l)
      PROVE  CallsInv'
  <2>1. Selected(o) \in SUBSET Id
    BY DEF Selected
  <2>2. WalkTypes'
    BY <1>1, <2>1 DEF CallsInv, TypeOK, WalkTypes, WalkStart
  <2> QED BY <1>1, <2>2, WalkStep DEF WalkStart
<1>2. CASE WalkPage
  <2>1. /\ walk.seen \in Seq(Id) /\ walk.limit \in Limits \cup {0}
        /\ walk.tied \in BOOLEAN /\ Len(walk.seen) \in Nat
    BY DEF CallsInv, TypeOK
  <2>2. PICK page \in List(walk.owner, walk.limit, Len(walk.seen)) :
          walk' = [walk EXCEPT !.seen = @ \o page,
                               !.tied = @ \/ Tied(Selected(walk.owner)),
                               !.phase = IF page = << >> THEN "done" ELSE @]
    BY <1>2 DEF WalkPage
  <2>3. walk.seen \o page \in Seq(Id)
    BY <2>1, <2>2, PageTypes DEF CallsInv
  <2>4. (walk.tied \/ Tied(Selected(walk.owner))) \in BOOLEAN
    OBVIOUS
  <2>5. WalkTypes'
    BY <2>2, <2>3, <2>4, Zenon DEF CallsInv, TypeOK, WalkTypes
  <2> QED BY <1>2, <2>5, WalkStep DEF WalkPage
<1> QED BY <1>1, <1>2

-----------------------------------------------------------------------------
(* The invariant                                                           *)

\* CallsInv survives every step of the callers, the client of a list and the database.
LEMMA CallsNextStep ==
  ASSUME CallsInv, [Next]_vars
  PROVE  CallsInv'
<1>1. CASE UNCHANGED vars
  BY <1>1, WalkStep DEF vars, CallsInv, TypeOK, WalkTypes
<1>2. CASE Next
  BY <1>2, CallStep, CreateStep, UpdateStep, GetByIDStep, DeleteStep, NotFoundStep,
     FailStep, WalkSteps DEF Next
<1> QED BY <1>1, <1>2

\* CallsInv holds of each of the repositories.
LEMMA CallsInvariance == Spec => []CallsInv
<1>1. Init => CallsInv
  <2> SUFFICES ASSUME Init PROVE CallsInv
    OBVIOUS
  <2>1. rows \in [Id -> [state : {"fresh", "live", "gone"}, owners : SUBSET Owner,
                         key : Key \cup {0}]]
    <3>1. {Fresh} \cup [state : {"live"}, owners : Owners, key : Keys]
             \subseteq [state : {"fresh", "live", "gone"}, owners : SUBSET Owner,
                        key : Key \cup {0}]
      BY DEF Fresh, Owners, Keys
    <3> QED BY <3>1 DEF Init
  <2>2. /\ repo \in Repository /\ writes \in [Id -> Seq(Request)]
        /\ pc \in [Request -> {"idle", "called", "reading", "answered"}]
        /\ req \in [Request -> [op : All, id : Id \cup {0}, found : {"fresh", "live", "gone"}]]
        /\ res \in [Request -> [outcome : {"none", "ok", "notfound", "error"},
                                val : Request \cup {None}]]
    BY DEF Init, All
  <2>3. WalkTypes
    BY DEF Init, WalkTypes
  <2>4. TypeOK
    BY <2>1, <2>2, <2>3 DEF TypeOK, WalkTypes
  <2>5. \A r \in Request : pc[r] = "idle"
    BY DEF Init
  <2> QED
    BY <2>4, <2>5 DEF CallsInv, CallsConsistent, EffectsConsistent, UpdateReturnsOwnOrLater,
       DeletedOnce
<1>2. CallsInv /\ [Next]_vars => CallsInv'
  BY CallsNextStep
<1> QED BY <1>1, <1>2, PTL DEF Spec

\* The variables keep their types.
THEOREM TypeCorrect == Spec => []TypeOK
BY CallsInvariance, PTL DEF CallsInv

\* An update returns the row as it or a later update left it.
THEOREM UpdatesReadTheirWrites == Spec => []UpdateReturnsOwnOrLater
BY CallsInvariance, PTL DEF CallsInv

\* One request at most is told that it deleted a row.
THEOREM DeletesOnce == Spec => []DeletedOnce
BY CallsInvariance, PTL DEF CallsInv

-----------------------------------------------------------------------------
(* The order of a list                                                     *)

\* The selected rows in front of row i, which Rank counts.
InFront(i) == {j \in Selected(walk.owner) : Precedes(j, i)}

\* Sets of rows are finite.
LEMMA RowSets ==
  ASSUME NEW S \in SUBSET Id
  PROVE  IsFiniteSet(S) /\ Cardinality(S) \in Nat
BY RepositoriesAssumption, FS_Subset, FS_CardinalityType

\* Fewer rows are counted in a part of them.
LEMMA FewerRows ==
  ASSUME NEW S \in SUBSET Id, NEW T \in SUBSET S
  PROVE  Cardinality(T) <= Cardinality(S) /\ (T # S => Cardinality(T) < Cardinality(S))
<1>1. IsFiniteSet(S) /\ Cardinality(S) \in Nat /\ Cardinality(T) \in Nat
  BY RowSets
<1>2. Cardinality(T) <= Cardinality(S) /\ (Cardinality(S) = Cardinality(T) => S = T)
  BY <1>1, FS_Subset
<1> QED BY <1>1, <1>2

\* Ids and keys are compared as numbers.
LEMMA Numbers ==
  ASSUME TypeOK, NEW i \in Id
  PROVE  i \in Int /\ rows[i].key \in Int
<1>1. rows[i] \in [state : {"fresh", "live", "gone"}, owners : SUBSET Owner, key : Key \cup {0}]
  BY DEF TypeOK
<1>2. rows[i].key \in Key \cup {0}
  BY <1>1
<1>3. Id \subseteq Int /\ Key \cup {0} \subseteq Int
  BY RepositoriesAssumption
<1> QED BY <1>2, <1>3

\* No row precedes itself.
LEMMA NotItself ==
  ASSUME TypeOK, NEW i \in Id
  PROVE  ~Precedes(i, i)
BY Numbers DEF Precedes

\* A row in front of one in front of a third is in front of that.
LEMMA Transitive ==
  ASSUME TypeOK, NEW i \in Id, NEW j \in Id, NEW k \in Id, Precedes(i, j), Precedes(j, k)
  PROVE  Precedes(i, k)
<1>1. /\ i \in Int /\ j \in Int /\ k \in Int
      /\ rows[i].key \in Int /\ rows[j].key \in Int /\ rows[k].key \in Int
  BY Numbers
<1> QED BY <1>1 DEF Precedes

\* Rank counts rows that are selected.
LEMMA RankFront ==
  ASSUME NEW i
  PROVE  /\ InFront(i) \in SUBSET Selected(walk.owner) /\ Selected(walk.owner) \in SUBSET Id
         /\ Rank(i) = Cardinality(InFront(i)) /\ Rank(i) \in Nat
<1>1. InFront(i) \in SUBSET Selected(walk.owner) /\ Selected(walk.owner) \in SUBSET Id
  BY DEF Selected, InFront
<1>2. Rank(i) = Cardinality(InFront(i))
  BY DEF Rank, InFront
<1>3. InFront(i) \in SUBSET Id
  BY <1>1
<1> QED BY <1>1, <1>2, <1>3, RowSets

\* It counts less than all of them.
LEMMA RankBound ==
  ASSUME TypeOK, NEW i \in Selected(walk.owner)
  PROVE  Rank(i) < Cardinality(Selected(walk.owner))
<1>1. i \in Id /\ i \notin InFront(i)
  <2>1. i \in Id
    BY RankFront
  <2> QED BY <2>1, NotItself DEF InFront
<1> QED BY <1>1, RankFront, FewerRows

\* It counts less for a row in front of another.
LEMMA RankOrder ==
  ASSUME TypeOK, NEW i \in Selected(walk.owner), NEW j \in Id, Precedes(i, j)
  PROVE  Rank(i) < Rank(j)
<1>1. i \in Id
  BY RankFront
<1>2. i \in InFront(j) /\ i \notin InFront(i)
  BY <1>1, NotItself DEF InFront
<1>3. ASSUME NEW k \in InFront(i) PROVE k \in InFront(j)
  <2>1. k \in Selected(walk.owner) /\ k \in Id /\ Precedes(k, i)
    BY RankFront DEF InFront
  <2> QED BY <1>1, <2>1, Transitive DEF InFront
<1>4. InFront(j) \in SUBSET Id /\ InFront(i) \in SUBSET InFront(j) /\ InFront(i) # InFront(j)
  BY <1>2, <1>3, RankFront
<1> QED BY <1>4, RankFront, FewerRows

\* When no rows tie there is one ordering: each row stands where Rank says.
LEMMA OrderedByRank ==
  ASSUME TypeOK, ~Tied(Selected(walk.owner)), NEW q \in Orderings(Selected(walk.owner))
  PROVE  /\ q \in Seq(Id) /\ Len(q) = Cardinality(Selected(walk.owner))
         /\ \A a \in 1..Len(q) : q[a] \in Selected(walk.owner) /\ Rank(q[a]) = a - 1
         /\ \A i \in Selected(walk.owner) : Rank(i) + 1 \in 1..Len(q) /\ q[Rank(i) + 1] = i
<1> DEFINE S == Selected(walk.owner)
           n == Cardinality(S)
<1>1. S \in SUBSET Id
  BY DEF Selected
<1>2. IsFiniteSet(S) /\ n \in Nat
  BY <1>1, RowSets
<1>3. /\ q \in [1..n -> S] /\ \A a, b \in 1..n : a # b => q[a] # q[b]
      /\ \A a, b \in 1..Len(q) : a < b => ~Precedes(q[b], q[a])
  BY DEF Orderings, SetToSeqs
<1>4. \A i, j \in S : i # j => Precedes(i, j) \/ Precedes(j, i)
  BY DEF Tied
<1> HIDE DEF S
<1>5. q \in Seq(Id) /\ Len(q) = n
  BY <1>1, <1>2, <1>3
<1>6. \A a, b \in 1..n : Precedes(q[a], q[b]) <=> a < b
  <2> SUFFICES ASSUME NEW a \in 1..n, NEW b \in 1..n
               PROVE  Precedes(q[a], q[b]) <=> a < b
    OBVIOUS
  <2>1. q[a] \in S /\ q[b] \in S /\ q[a] \in Id /\ q[b] \in Id
    BY <1>1, <1>3
  <2>2. CASE a < b
    BY <1>2, <1>3, <1>4, <1>5, <2>1, <2>2
  <2>3. CASE a = b
    BY <2>1, <2>3, <1>2, NotItself
  <2>4. CASE b < a
    BY <1>2, <1>3, <1>5, <2>4
  <2> QED BY <1>2, <2>2, <2>3, <2>4
<1>7. \A i \in S : \E a \in 1..n : q[a] = i
  <2>1. q \in Injection(1..n, S)
    BY <1>3 DEF Injection, IsInjective
  <2>2. Cardinality(1..n) = n
    BY <1>2, FS_Interval
  <2>3. q \in Surjection(1..n, S)
    BY <1>2, <2>1, <2>2, FS_Injection
  <2> QED BY <2>3 DEF Surjection
<1>8. ASSUME NEW a \in 1..n PROVE q[a] \in S /\ Rank(q[a]) = a - 1
  <2> DEFINE T == InFront(q[a])
             g == [b \in 1..(a - 1) |-> q[b]]
  <2>1. \A b \in 1..(a - 1) : b \in 1..n /\ b < a
    BY <1>2
  <2>2. \A j \in T : \E b \in 1..(a - 1) : q[b] = j
    <3> SUFFICES ASSUME NEW j \in T PROVE \E b \in 1..(a - 1) : q[b] = j
      OBVIOUS
    <3>1. j \in S /\ Precedes(j, q[a])
      BY DEF InFront, S
    <3>2. PICK b \in 1..n : q[b] = j
      BY <1>7, <3>1
    <3>3. b < a
      BY <1>6, <3>1, <3>2
    <3> QED BY <1>2, <3>2, <3>3
  <2>3. \A b \in 1..(a - 1) : q[b] \in T
    BY <1>3, <1>6, <2>1 DEF InFront, S
  <2> HIDE DEF T
  <2>4. g \in Surjection(1..(a - 1), T)
    BY <2>2, <2>3 DEF Surjection
  <2>5. g \in Injection(1..(a - 1), T)
    BY <1>3, <2>1, <2>3 DEF Injection, IsInjective
  <2>6. IsFiniteSet(1..(a - 1)) /\ Cardinality(1..(a - 1)) = a - 1
    <3>1. 1 \in Int /\ a - 1 \in Int /\ a - 1 >= 0
      BY <1>2
    <3>2. /\ IsFiniteSet(1..(a - 1))
          /\ Cardinality(1..(a - 1)) = IF 1 > a - 1 THEN 0 ELSE a - 1 - 1 + 1
      BY <3>1, FS_Interval
    <3> QED BY <3>1, <3>2
  <2>7. Cardinality(T) = a - 1
    BY <2>4, <2>5, <2>6, FS_Surjection
  <2> QED BY <1>3, <2>7 DEF Rank, InFront, T
<1>9. ASSUME NEW i \in S PROVE Rank(i) + 1 \in 1..n /\ q[Rank(i) + 1] = i
  <2>1. PICK a \in 1..n : q[a] = i
    BY <1>7
  <2>2. Rank(i) = a - 1
    BY <1>8, <2>1
  <2> QED BY <1>2, <2>1, <2>2
<1> QED BY <1>5, <1>8, <1>9 DEF S

\* A page goes on where the rows before it ended, and is empty only when they
\* are all.
LEMMA PageByRank ==
  ASSUME TypeOK, ~Tied(Selected(walk.owner)), repo.selects # "none",
         NEW page \in List(walk.owner, walk.limit, Len(walk.seen))
  PROVE  /\ page \in Seq(Id)
         /\ \A b \in 1..Len(page) : /\ page[b] \in Selected(walk.owner)
                                   /\ Rank(page[b]) = Len(walk.seen) + b - 1
         /\ \A i \in Selected(walk.owner) :
               Len(walk.seen) <= Rank(i) =>
                   page # << >> /\ (Rank(i) < Len(walk.seen) + Len(page) =>
                                        \E b \in 1..Len(page) : page[b] = i)
<1> DEFINE n == Len(walk.seen)
           l == Limit(walk.limit)
<1>1. n \in Nat
  BY DEF TypeOK
<1>2. l \in Int /\ l > 0
  <2>1. repo.defaultLimit \in Int /\ repo.defaultLimit > 0
    BY DEF TypeOK, Repository, Repo, CommentRepository, ContentRepository,
       ConversationRepository, CustomerRepository, FollowRepository, HashtagRepository,
       HashtagCategoryRepository, LikedRepository, LocationRepository,
       MessageRepository, NotificationRepository, ReportRepository, ReportTypeRepository
  <2>2. walk.limit \in Limits \cup {0}
    BY DEF TypeOK
  <2>3. Limits \cup {0} \subseteq Int
    BY RepositoriesAssumption
  <2>4. walk.limit \in Int
    BY <2>2, <2>3
  <2> QED BY <2>1, <2>4 DEF Limit
<1>3. PICK q \in Orderings(Selected(walk.owner)) :
        page = SubSeq(q, n + 1, IF n + l < Len(q) THEN n + l ELSE Len(q))
  BY DEF List
<1>4. /\ q \in Seq(Id)
      /\ \A a \in 1..Len(q) : q[a] \in Selected(walk.owner) /\ Rank(q[a]) = a - 1
      /\ \A i \in Selected(walk.owner) : Rank(i) + 1 \in 1..Len(q) /\ q[Rank(i) + 1] = i
  BY OrderedByRank
<1> DEFINE m == IF n + l < Len(q) THEN n + l ELSE Len(q)
<1>5. Len(q) \in Nat /\ m \in Nat /\ m <= Len(q) /\ (n < Len(q) => n < m)
  BY <1>1, <1>2, <1>4
<1>6. page = SubSeq(q, n + 1, m)
  BY <1>3
<1> HIDE DEF m, l, n
<1>7. /\ page \in Seq(Id) /\ Len(page) = (IF n < m THEN m - n ELSE 0)
      /\ \A b \in 1..Len(page) : n + b \in 1..Len(q) /\ page[b] = q[n + b]
  BY <1>1, <1>4, <1>5, <1>6
<1>8. ASSUME NEW b \in 1..Len(page)
      PROVE  page[b] \in Selected(walk.owner) /\ Rank(page[b]) = n + b - 1
  BY <1>1, <1>4, <1>7
<1>9. ASSUME NEW i \in Selected(walk.owner), n <= Rank(i)
      PROVE  page # << >> /\ (Rank(i) < n + Len(page) => \E b \in 1..Len(page) : page[b] = i)
  <2>1. Rank(i) \in Nat /\ Rank(i) + 1 \in 1..Len(q) /\ q[Rank(i) + 1] = i
    BY <1>4, RankFront
  <2>2. n < m
    BY <1>1, <1>5, <1>9, <2>1
  <2>3. page # << >>
    BY <1>1, <1>5, <1>7, <2>2
  <2>4. ASSUME Rank(i) < n + Len(page) PROVE \E b \in 1..Len(page) : page[b] = i
    <3>1. Rank(i) + 1 - n \in 1..Len(page) /\ n + (Rank(i) + 1 - n) = Rank(i) + 1
      BY <1>1, <1>5, <1>7, <1>9, <2>1, <2>4
    <3> QED BY <1>7, <2>1, <3>1
  <2> QED BY <2>3, <2>4
<1> QED BY <1>7, <1>8, <1>9 DEF n

-----------------------------------------------------------------------------
(* The pages of a walk                                                     *)

\* A walk begins with nothing seen.
LEMMA WalkStartStep ==
  ASSUME TypeOK, WalkConsistent, NEW o \in Owner, NEW l \in Limits, WalkStart(o, l)
  PROVE  WalkConsistent'
<1>1. /\ repo' = repo /\ rows' = rows /\ repo.selects # "none"
      /\ walk.seen = << >> /\ walk'.seen = << >> /\ walk'.phase = "walking"
      /\ walk'.owner = o /\ walk'.start = Selected(o)
  BY DEF TypeOK, WalkConsistent, WalkStart
<1>2. Selected(walk.owner)' = Selected(o)
  BY <1>1 DEF Selected, Live
<1>3. \A i : Rank(i)' \in Nat
  <2> SUFFICES ASSUME NEW i PROVE Rank(i)' \in Nat
    OBVIOUS
  <2>1. {j \in Selected(walk.owner)' : Precedes(j, i)'} \in SUBSET Id
    BY <1>2 DEF Selected
  <2> QED BY <2>1, RowSets DEF Rank
<1>4. Len(walk'.seen) = 0 /\ Range(walk'.seen) = {} /\ IsInjective(walk'.seen)
  BY <1>1 DEF Range, IsInjective
<1> QED BY <1>1, <1>2, <1>3, <1>4 DEF WalkConsistent

\* A page adds the rows that follow in the list.
LEMMA WalkPageStep ==
  ASSUME TypeOK, WalkConsistent, WalkPage
  PROVE  WalkConsistent'
<1> DEFINE S == Selected(walk.owner)
           n == Len(walk.seen)
<1>1. PICK page \in List(walk.owner, walk.limit, n) :
        walk' = [walk EXCEPT !.seen = @ \o page,
                             !.tied = @ \/ Tied(S),
                             !.phase = IF page = << >> THEN "done" ELSE @]
  BY DEF WalkPage
<1>2. /\ repo' = repo /\ rows' = rows /\ walk.phase = "walking" /\ repo.selects # "none"
      /\ walk'.seen = walk.seen \o page
      /\ walk'.owner = walk.owner /\ walk'.start = walk.start
      /\ walk'.tied = (walk.tied \/ Tied(S)) /\ walk'.moved = walk.moved
      /\ walk'.inserted = walk.inserted /\ walk'.deleted = walk.deleted
      /\ walk'.phase = IF page = << >> THEN "done" ELSE "walking"
  BY <1>1 DEF TypeOK, WalkConsistent, WalkPage
<1>3. Selected(walk.owner)' = S /\ \A i : Rank(i)' = Rank(i)
  BY <1>2 DEF Selected, Live, Rank, Precedes
<1> SUFFICES ASSUME ~walk'.tied, ~walk'.moved
             PROVE  /\ ~walk'.deleted =>
                          /\ walk'.start \subseteq S
                          /\ \A i \in walk'.start :
                                Rank(i) < Len(walk'.seen) \/ walk'.phase = "done"
                                    => i \in Range(walk'.seen)
                    /\ ~walk'.inserted =>
                          /\ IsInjective(walk'.seen)
                          /\ \A i \in S \cap Range(walk'.seen) : Rank(i) < Len(walk'.seen)
                    /\ ~walk'.deleted /\ ~walk'.inserted =>
                          /\ walk'.start = S
                          /\ \A a \in 1..Len(walk'.seen) :
                                walk'.seen[a] \in walk'.start /\ Rank(walk'.seen[a]) = a - 1
  BY <1>2, <1>3 DEF WalkConsistent
<1>4. ~walk.tied /\ ~Tied(S) /\ ~walk.moved
  BY <1>2
<1>5. /\ page \in Seq(Id)
      /\ \A b \in 1..Len(page) : page[b] \in S /\ Rank(page[b]) = n + b - 1
      /\ \A i \in S : n <= Rank(i) =>
             page # << >> /\ (Rank(i) < n + Len(page) => \E b \in 1..Len(page) : page[b] = i)
  BY <1>2, <1>4, PageByRank
<1>6. /\ walk.seen \in Seq(Id) /\ n \in Nat /\ Len(page) \in Nat
      /\ Len(walk'.seen) = n + Len(page) /\ walk'.seen \in Seq(Id)
      /\ \A a \in 1..n : walk'.seen[a] = walk.seen[a]
      /\ \A b \in 1..Len(page) : walk'.seen[n + b] = page[b]
  BY <1>2, <1>5 DEF TypeOK
<1>7. /\ \A i : i \in Range(walk.seen) <=> \E a \in 1..n : walk.seen[a] = i
      /\ \A i : i \in Range(walk'.seen) <=> \E a \in 1..(n + Len(page)) : walk'.seen[a] = i
  BY <1>6 DEF Range
<1>8. \A a \in 1..(n + Len(page)) : a \in 1..n \/ (a - n \in 1..Len(page) /\ n + (a - n) = a)
  BY <1>6
<1>9. \A i : Rank(i) \in Nat
  BY RankFront
<1> HIDE DEF S, n
<1>10. ASSUME ~walk.deleted
       PROVE  /\ walk.start \subseteq S
              /\ \A i \in walk.start :
                    Rank(i) < n + Len(page) \/ page = << >> => i \in Range(walk'.seen)
  <2>1. walk.start \subseteq S /\ \A i \in walk.start : Rank(i) < n => i \in Range(walk.seen)
    BY <1>2, <1>4, <1>10 DEF WalkConsistent, S, n
  <2> SUFFICES ASSUME NEW i \in walk.start, Rank(i) < n + Len(page) \/ page = << >>
               PROVE  i \in Range(walk'.seen)
    BY <2>1
  <2>2. CASE Rank(i) < n
    <3>1. PICK a \in 1..n : walk.seen[a] = i
      BY <1>7, <2>1, <2>2
    <3>2. a \in 1..(n + Len(page)) /\ walk'.seen[a] = i
      BY <1>6, <3>1
    <3> QED BY <1>7, <3>2
  <2>3. CASE ~(Rank(i) < n)
    <3>1. n <= Rank(i)
      BY <1>6, <1>9, <2>3
    <3>2. PICK b \in 1..Len(page) : page[b] = i
      BY <1>5, <2>1, <3>1
    <3>3. n + b \in 1..(n + Len(page)) /\ walk'.seen[n + b] = i
      BY <1>6, <3>2
    <3> QED BY <1>7, <3>3
  <2> QED BY <2>2, <2>3
<1>11. ASSUME ~walk.inserted
       PROVE  /\ IsInjective(walk'.seen)
              /\ \A i \in S \cap Range(walk'.seen) : Rank(i) < n + Len(page)
  <2>1. IsInjective(walk.seen) /\ \A i \in S \cap Range(walk.seen) : Rank(i) < n
    BY <1>2, <1>4, <1>11 DEF WalkConsistent, S, n
  <2>2. \A a, b \in 1..n : walk.seen[a] = walk.seen[b] => a = b
    BY <1>6, <2>1 DEF IsInjective, n
  <2>3. ASSUME NEW a \in 1..n, NEW b \in 1..Len(page) PROVE walk.seen[a] # page[b]
    <3>1. page[b] \in S /\ ~(Rank(page[b]) < n)
      BY <1>5, <1>6
    <3> QED BY <1>7, <2>1, <3>1
  <2>4. ASSUME NEW a \in 1..Len(page), NEW b \in 1..Len(page), page[a] = page[b] PROVE a = b
    <3>1. Rank(page[a]) = n + a - 1 /\ Rank(page[a]) = n + b - 1
      BY <1>5, <2>4
    <3> QED BY <1>6, <3>1
  <2>5. \A a, b \in 1..(n + Len(page)) : walk'.seen[a] = walk'.seen[b] => a = b
    <3> SUFFICES ASSUME NEW a \in 1..(n + Len(page)), NEW b \in 1..(n + Len(page)),
                        walk'.seen[a] = walk'.seen[b]
                 PROVE  a = b
      OBVIOUS
    <3>1. CASE a \in 1..n /\ b \in 1..n
      BY <1>6, <2>2, <3>1
    <3>2. CASE a \in 1..n /\ b \notin 1..n
      <4>1. b - n \in 1..Len(page) /\ walk'.seen[b] = page[b - n]
        BY <1>6, <1>8, <3>2
      <4> QED BY <1>6, <2>3, <3>2, <4>1
    <3>3. CASE a \notin 1..n /\ b \in 1..n
      <4>1. a - n \in 1..Len(page) /\ walk'.seen[a] = page[a - n]
        BY <1>6, <1>8, <3>3
      <4> QED BY <1>6, <2>3, <3>3, <4>1
    <3>4. CASE a \notin 1..n /\ b \notin 1..n
      <4>1. /\ a - n \in 1..Len(page) /\ b - n \in 1..Len(page)
            /\ page[a - n] = page[b - n]
        BY <1>6, <1>8, <3>4
      <4> QED BY <1>6, <2>4, <4>1
    <3> QED BY <3>1, <3>2, <3>3, <3>4
  <2>6. IsInjective(walk'.seen)
    <3>1. DOMAIN walk'.seen = 1..(n + Len(page))
      BY <1>6
    <3> QED BY <2>5, <3>1 DEF IsInjective
  <2>7. ASSUME NEW i \in S \cap Range(walk'.seen) PROVE Rank(i) < n + Len(page)
    <3>1. PICK a \in 1..(n + Len(page)) : walk'.seen[a] = i
      BY <1>7
    <3>2. CASE a \in 1..n
      <4>1. i \in Range(walk.seen)
        BY <1>6, <1>7, <3>1, <3>2
      <4> QED BY <1>6, <1>9, <2>1, <4>1
    <3>3. CASE a \notin 1..n
      <4>1. PICK b \in 1..Len(page) : page[b] = i
        BY <1>6, <1>8, <3>1, <3>3
      <4> QED BY <1>5, <1>6, <4>1
    <3> QED BY <3>2, <3>3
  <2> QED BY <2>6, <2>7
<1>12. ASSUME ~walk.deleted, ~walk.inserted
       PROVE  /\ walk.start = S
              /\ \A a \in 1..(n + Len(page)) :
                    walk'.seen[a] \in S /\ Rank(walk'.seen[a]) = a - 1
  <2>1. walk.start = S /\ \A a \in 1..n : walk.seen[a] \in S /\ Rank(walk.seen[a]) = a - 1
    BY <1>2, <1>4, <1>12 DEF WalkConsistent, S, n
  <2> SUFFICES ASSUME NEW a \in 1..(n + Len(page))
               PROVE  walk'.seen[a] \in S /\ Rank(walk'.seen[a]) = a - 1
    BY <2>1
  <2>2. CASE a \in 1..n
    BY <1>6, <2>1, <2>2
  <2>3. CASE a \notin 1..n
    <3>1. a - n \in 1..Len(page) /\ walk'.seen[a] = page[a - n]
      BY <1>6, <1>8, <2>3
    <3>2. page[a - n] \in S /\ Rank(page[a - n]) = n + (a - n) - 1
      BY <1>5, <3>1
    <3> QED BY <1>6, <3>1, <3>2
  <2> QED BY <2>2, <2>3
<1> QED BY <1>2, <1>6, <1>10, <1>11, <1>12

-----------------------------------------------------------------------------
(* What the callers do to the list meanwhile                               *)

\* Among more rows, with the keys they had, a row stands no earlier.
LEMMA RankMonotone ==
  ASSUME TypeOK, UNCHANGED repo, walk'.owner = walk.owner,
         Selected(walk.owner) \subseteq Selected(walk.owner)',
         \A j \in Selected(walk.owner) : rows'[j].key = rows[j].key,
         NEW i \in Selected(walk.owner)
  PROVE  Rank(i) \in Nat /\ Rank(i)' \in Nat /\ Rank(i) <= Rank(i)'
<1> DEFINE T == {j \in Selected(walk.owner)' : Precedes(j, i)'}
<1>1. T \in SUBSET Id
  BY DEF Selected
<1>2. InFront(i) \in SUBSET T
  BY DEF InFront, Precedes
<1>3. Rank(i) = Cardinality(InFront(i)) /\ Rank(i) \in Nat
  BY RankFront
<1>4. Rank(i)' = Cardinality(T)
  BY DEF Rank
<1> HIDE DEF T
<1> QED BY <1>1, <1>2, <1>3, <1>4, RowSets, FewerRows

\* Among fewer it stands no later.
LEMMA RankAntitone ==
  ASSUME TypeOK, UNCHANGED repo, walk'.owner = walk.owner,
         Selected(walk.owner)' \subseteq Selected(walk.owner),
         \A j \in Selected(walk.owner)' : rows'[j].key = rows[j].key,
         NEW i \in Selected(walk.owner)'
  PROVE  Rank(i) \in Nat /\ Rank(i)' \in Nat /\ Rank(i)' <= Rank(i)
<1> DEFINE T == {j \in Selected(walk.owner)' : Precedes(j, i)'}
<1>1. T \in SUBSET InFront(i)
  BY DEF InFront, Precedes
<1>2. InFront(i) \in SUBSET Id /\ Rank(i) = Cardinality(InFront(i)) /\ Rank(i) \in Nat
  BY RankFront
<1>3. Rank(i)' = Cardinality(T)
  BY DEF Rank
<1> HIDE DEF T
<1>4. T \in SUBSET Id
  BY <1>1, <1>2
<1> QED BY <1>1, <1>2, <1>3, <1>4, RowSets, FewerRows

\* The client's list, as far as it goes, is not touched.
LEMMA SameList ==
  ASSUME TypeOK, WalkConsistent, UNCHANGED <<repo, walk>>,
         Selected(walk.owner)' = Selected(walk.owner),
         \A j \in Selected(walk.owner) : rows'[j].key = rows[j].key
  PROVE  WalkConsistent'
<1>1. \A i \in Selected(walk.owner) : Rank(i)' = Rank(i)
  BY DEF Rank, Precedes
<1>2. walk.phase # "none" /\ ~walk.tied /\ ~walk.moved /\ ~walk.deleted =>
          \A i \in walk.start : i \in Selected(walk.owner)
  BY DEF WalkConsistent
<1>3. walk.phase # "none" /\ ~walk.tied /\ ~walk.moved /\ ~walk.deleted /\ ~walk.inserted =>
          \A a \in 1..Len(walk.seen) : walk.seen[a] \in Selected(walk.owner)
  BY DEF WalkConsistent
<1> QED BY <1>1, <1>2, <1>3 DEF WalkConsistent

\* Rows come in anywhere: those from the start stand where they stood or later.
LEMMA MoreRows ==
  ASSUME TypeOK, WalkConsistent, UNCHANGED repo, walk.phase # "none",
         walk' = [walk EXCEPT !.inserted = TRUE],
         Selected(walk.owner) \subseteq Selected(walk.owner)',
         \A j \in Selected(walk.owner) : rows'[j].key = rows[j].key
  PROVE  WalkConsistent'
<1>1. /\ walk'.owner = walk.owner /\ walk'.phase = walk.phase /\ walk'.seen = walk.seen
      /\ walk'.start = walk.start /\ walk'.tied = walk.tied /\ walk'.moved = walk.moved
      /\ walk'.deleted = walk.deleted /\ walk'.inserted = TRUE
  BY DEF TypeOK
<1>2. repo.selects # "none"
  BY DEF WalkConsistent
<1> SUFFICES ASSUME ~walk.tied, ~walk.moved, ~walk.deleted
             PROVE  /\ walk.start \subseteq Selected(walk.owner)'
                    /\ \A i \in walk.start :
                          Rank(i)' < Len(walk.seen) \/ walk.phase = "done"
                              => i \in Range(walk.seen)
  BY <1>1, <1>2 DEF WalkConsistent
<1>3. /\ walk.start \subseteq Selected(walk.owner)
      /\ \A i \in walk.start :
            Rank(i) < Len(walk.seen) \/ walk.phase = "done" => i \in Range(walk.seen)
  BY DEF WalkConsistent
<1>4. \A i \in walk.start : Rank(i) \in Nat /\ Rank(i)' \in Nat /\ Rank(i) <= Rank(i)'
  BY <1>1, <1>3, RankMonotone
<1>5. Len(walk.seen) \in Nat
  BY DEF TypeOK
<1>6. \A i \in walk.start : Rank(i)' < Len(walk.seen) => Rank(i) < Len(walk.seen)
  BY <1>4, <1>5
<1> QED BY <1>3, <1>6

\* Rows go anywhere: those that are left stand where they stood or earlier.
LEMMA FewerSelected ==
  ASSUME TypeOK, WalkConsistent, UNCHANGED repo, walk.phase # "none",
         walk' = [walk EXCEPT !.deleted = TRUE],
         Selected(walk.owner)' \subseteq Selected(walk.owner),
         \A j \in Selected(walk.owner)' : rows'[j].key = rows[j].key
  PROVE  WalkConsistent'
<1>1. /\ walk'.owner = walk.owner /\ walk'.phase = walk.phase /\ walk'.seen = walk.seen
      /\ walk'.start = walk.start /\ walk'.tied = walk.tied /\ walk'.moved = walk.moved
      /\ walk'.inserted = walk.inserted /\ walk'.deleted = TRUE
  BY DEF TypeOK
<1>2. repo.selects # "none"
  BY DEF WalkConsistent
<1> SUFFICES ASSUME ~walk.tied, ~walk.moved, ~walk.inserted
             PROVE  /\ IsInjective(walk.seen)
                    /\ \A i \in Selected(walk.owner)' \cap Range(walk.seen) :
                          Rank(i)' < Len(walk.seen)
  BY <1>1, <1>2 DEF WalkConsistent
<1>3. /\ IsInjective(walk.seen)
      /\ \A i \in Selected(walk.owner) \cap Range(walk.seen) : Rank(i) < Len(walk.seen)
  BY DEF WalkConsistent
<1>4. \A i \in Selected(walk.owner)' :
          Rank(i) \in Nat /\ Rank(i)' \in Nat /\ Rank(i)' <= Rank(i)
  BY <1>1, RankAntitone
<1>5. Len(walk.seen) \in Nat
  BY DEF TypeOK
<1> QED BY <1>3, <1>4, <1>5

\* Rows change places: nothing is promised any more.
LEMMA RowsMoved ==
  ASSUME TypeOK, WalkConsistent, UNCHANGED repo, walk.phase # "none",
         walk' = [walk EXCEPT !.moved = TRUE]
  PROVE  WalkConsistent'
<1>1. walk'.phase = walk.phase /\ walk'.moved = TRUE
  BY DEF TypeOK
<1> QED BY <1>1 DEF WalkConsistent

\* Nobody walks yet.
LEMMA NoWalk ==
  ASSUME WalkConsistent, walk.phase = "none", UNCHANGED walk
  PROVE  WalkConsistent'
BY DEF WalkConsistent

-----------------------------------------------------------------------------
(* The statements, as far as the walk goes                                 *)

\* What becomes of a row that the walk does not select is not noted.
LEMMA NoteUnselected ==
  ASSUME TypeOK, WalkConsistent, UNCHANGED repo, NEW i \in Id, NEW what, Note(i, what),
         walk.phase = "none" \/ ~( \/ repo.selects = "all"
                                   \/ walk.owner \in rows[i].owners \cup rows'[i].owners ),
         \A j \in Id : j # i => rows'[j] = rows[j]
  PROVE  WalkConsistent'
<1>1. walk' = walk
  BY DEF Note
<1>2. CASE walk.phase = "none"
  BY <1>1, <1>2, NoWalk
<1>3. CASE ~(repo.selects = "all" \/ walk.owner \in rows[i].owners \cup rows'[i].owners)
  <2>1. /\ Selected(walk.owner)' = Selected(walk.owner)
        /\ \A j \in Selected(walk.owner) : rows'[j].key = rows[j].key
    BY <1>1, <1>3 DEF Selected, Live
  <2> QED BY <1>1, <2>1, SameList
<1> QED BY <1>2, <1>3

\* INSERT.
LEMMA InsertWalk ==
  ASSUME TypeOK, WalkConsistent, UNCHANGED repo,
         NEW i \in Id, NEW o \in Owners, NEW k \in Keys, Insert(i, o, k)
  PROVE  WalkConsistent'
<1>1. /\ rows[i].state = "fresh" /\ rows'[i].state = "live"
      /\ \A j \in Id : j # i => rows'[j] = rows[j]
      /\ Note(i, "inserted")
  BY DEF TypeOK, Insert
<1>2. CASE /\ walk.phase # "none"
           /\ repo.selects = "all" \/ walk.owner \in rows[i].owners \cup rows'[i].owners
  <2>1. walk' = [walk EXCEPT !.inserted = TRUE]
    BY <1>1, <1>2 DEF Note
  <2>2. walk'.owner = walk.owner
    BY <2>1 DEF TypeOK
  <2>3. /\ Selected(walk.owner) \subseteq Selected(walk.owner)'
        /\ \A j \in Selected(walk.owner) : rows'[j].key = rows[j].key
    BY <1>1, <2>2 DEF Selected, Live
  <2> QED BY <1>2, <2>1, <2>3, MoreRows
<1> QED BY <1>1, <1>2, NoteUnselected

\* DELETE.
LEMMA DeleteWalk ==
  ASSUME TypeOK, WalkConsistent, UNCHANGED repo, NEW i \in Id, DeleteRow(i)
  PROVE  WalkConsistent'
<1>1. /\ rows'[i].state = "gone"
      /\ \A j \in Id : j # i => rows'[j] = rows[j]
      /\ Note(i, "deleted")
  BY DEF TypeOK, DeleteRow, Fresh
<1>2. CASE /\ walk.phase # "none"
           /\ repo.selects = "all" \/ walk.owner \in rows[i].owners \cup rows'[i].owners
  <2>1. walk' = [walk EXCEPT !.deleted = TRUE]
    BY <1>1, <1>2 DEF Note
  <2>2. walk'.owner = walk.owner
    BY <2>1 DEF TypeOK
  <2>3. /\ Selected(walk.owner)' \subseteq Selected(walk.owner)
        /\ \A j \in Selected(walk.owner)' : rows'[j].key = rows[j].key
    BY <1>1, <2>2 DEF Selected, Live
  <2> QED BY <1>2, <2>1, <2>3, FewerSelected
<1> QED BY <1>1, <1>2, NoteUnselected

\* UPDATE, which moves the row or leaves it in its place.
LEMMA WriteWalk ==
  ASSUME TypeOK, WalkConsistent, UNCHANGED repo,
         NEW r \in Request, NEW k \in Keys, Write(r, k), req[r].id \in Id
  PROVE  WalkConsistent'
<1> DEFINE i == req[r].id
<1>1. \A j \in Id : j # i => rows'[j] = rows[j]
  BY DEF Write
<1>2. /\ rows'[i].state = rows[i].state /\ rows'[i].owners = rows[i].owners
      /\ rows'[i].key = k
  <2>1. rows[i] \in [state : {"fresh", "live", "gone"}, owners : SUBSET Owner, key : Key \cup {0}]
    BY DEF TypeOK
  <2>2. rows'[i] = [rows[i] EXCEPT !.key = k]
    BY DEF TypeOK, Write
  <2> QED BY <2>1, <2>2
<1>3. CASE k = rows[i].key
  <2>1. walk' = walk
    BY <1>3 DEF Write
  <2>2. /\ Selected(walk.owner)' = Selected(walk.owner)
        /\ \A j \in Selected(walk.owner) : rows'[j].key = rows[j].key
    BY <1>1, <1>2, <1>3, <2>1 DEF Selected, Live
  <2> QED BY <2>1, <2>2, SameList
<1>4. CASE k # rows[i].key
  <2>1. Note(i, "moved")
    BY <1>4 DEF Write
  <2>2. CASE /\ walk.phase # "none"
             /\ repo.selects = "all" \/ walk.owner \in rows[i].owners \cup rows'[i].owners
    <3>1. walk' = [walk EXCEPT !.moved = TRUE]
      BY <2>1, <2>2 DEF Note
    <3> QED BY <2>2, <3>1, RowsMoved
  <2> QED BY <1>1, <2>1, <2>2, NoteUnselected
<1> QED BY <1>3, <1>4

\* A statement that was not applied, or a SELECT.
LEMMA SameWalk ==
  ASSUME TypeOK, WalkConsistent, UNCHANGED <<repo, rows, walk>>
  PROVE  WalkConsistent'
BY SameList DEF Selected, Live

-----------------------------------------------------------------------------
(* The whole invariant                                                     *)

\* What was seen of a list stays what comes first in it.
LEMMA WalkNextStep ==
  ASSUME CallsInv, WalkConsistent, [Next]_vars
  PROVE  WalkConsistent'
<1>1. TypeOK /\ \A r \in Request : pc[r] # "idle" => req[r].id \in Id
  BY DEF CallsInv, CallsConsistent
<1>2. CASE UNCHANGED vars
  BY <1>1, <1>2, SameWalk DEF vars
<1>3. ASSUME NEW o \in Owner, NEW l \in Limits, WalkStart(o, l) PROVE WalkConsistent'
  BY <1>1, <1>3, WalkStartStep
<1>4. CASE WalkPage
  BY <1>1, <1>4, WalkPageStep
<1>5. ASSUME NEW r \in Request,
             \/ \E op \in All, i \in Id : Call(r, op, i)
             \/ GetByID(r) \/ NotFound(r)
      PROVE  WalkConsistent'
  BY <1>1, <1>5, SameWalk DEF Call, GetByID, NotFound
<1>6. ASSUME NEW r \in Request, NEW i \in Id, NEW o \in Owners, NEW k \in Keys,
             Create(r, i, o, k)
      PROVE  WalkConsistent'
  BY <1>1, <1>6, InsertWalk DEF Create
<1>7. ASSUME NEW r \in Request, NEW k \in Keys, Update(r, k)
      PROVE  WalkConsistent'
  BY <1>1, <1>7, WriteWalk DEF Update, Statement
<1>8. ASSUME NEW r \in Request, Delete(r)
      PROVE  WalkConsistent'
  BY <1>1, <1>8, DeleteWalk DEF Delete, Statement
<1>9. ASSUME NEW r \in Request, Fail(r)
      PROVE  WalkConsistent'
  <2>1. UNCHANGED repo /\ req[r].id \in Id
    BY <1>1, <1>9 DEF Fail
  <2>2. CASE UNCHANGED <<rows, writes, walk>>
    BY <1>1, <2>1, <2>2, SameWalk
  <2>3. CASE \E i \in Id, o \in Owners, k \in Keys : Insert(i, o, k)
    BY <1>1, <2>1, <2>3, InsertWalk
  <2>4. CASE \E k \in Keys : Write(r, k)
    BY <1>1, <2>1, <2>4, WriteWalk
  <2>5. CASE DeleteRow(req[r].id)
    BY <1>1, <2>1, <2>5, DeleteWalk
  <2> QED BY <1>9, <2>2, <2>3, <2>4, <2>5 DEF Fail
<1> QED BY <1>2, <1>3, <1>4, <1>5, <1>6, <1>7, <1>8, <1>9 DEF Next

\* Inv holds of each of the repositories.
THEOREM Invariance == Spec => []Inv
<1>1. Init => WalkConsistent
  BY DEF Init, WalkConsistent
<1>2. CallsInv /\ WalkConsistent /\ [Next]_vars => WalkConsistent'
  BY WalkNextStep
<1>3. Spec => [](CallsInv /\ WalkConsistent)
  BY <1>1, <1>2, CallsInvariance, PTL DEF Spec
<1> QED BY <1>3, PTL DEF Inv

\* The pages of an untied list cover it: see PagesCoverList.
THEOREM PagesCover == Spec => []PagesCoverList
<1>1. Inv => PagesCoverList
  <2> SUFFICES ASSUME Inv, walk.phase = "done", ~walk.tied PROVE PagesCoverList
    BY DEF PagesCoverList
  <2>1. TypeOK /\ WalkConsistent /\ walk.seen \in Seq(Id) /\ walk.start \in SUBSET Id
    BY DEF Inv, CallsInv, TypeOK
  <2>2. ~walk.deleted /\ ~walk.moved => walk.start \subseteq Range(walk.seen)
    BY <2>1 DEF WalkConsistent
  <2>3. ~walk.inserted /\ ~walk.moved => IsInjective(walk.seen)
    BY <2>1 DEF WalkConsistent
  <2>4. ASSUME ~walk.inserted, ~walk.deleted, ~walk.moved
        PROVE  /\ Range(walk.seen) = walk.start
               /\ \A a, b \in 1..Len(walk.seen) :
                     a < b => ~Precedes(walk.seen[b], walk.seen[a])
    <3>1. /\ walk.start = Selected(walk.owner)
          /\ \A a \in 1..Len(walk.seen) :
                walk.seen[a] \in walk.start /\ Rank(walk.seen[a]) = a - 1
      BY <2>1, <2>4 DEF WalkConsistent
    <3>2. DOMAIN walk.seen = 1..Len(walk.seen) /\ Len(walk.seen) \in Nat
      BY <2>1
    <3>3. Range(walk.seen) \subseteq walk.start
      BY <3>1, <3>2 DEF Range
    <3>4. ASSUME NEW a \in 1..Len(walk.seen), NEW b \in 1..Len(walk.seen), a < b,
                 Precedes(walk.seen[b], walk.seen[a])
          PROVE  FALSE
      <4>1. /\ walk.seen[a] \in Selected(walk.owner) /\ Rank(walk.seen[a]) = a - 1
            /\ walk.seen[b] \in Selected(walk.owner) /\ Rank(walk.seen[b]) = b - 1
            /\ walk.seen[a] \in Id
        BY <2>1, <3>1
      <4>2. Rank(walk.seen[b]) < Rank(walk.seen[a])
        BY <2>1, <3>4, <4>1, RankOrder
      <4> QED BY <3>2, <3>4, <4>1, <4>2
    <3> QED BY <2>2, <2>4, <3>3, <3>4
  <2> QED BY <2>2, <2>3, <2>4 DEF PagesCoverList
<1> QED BY <1>1, Invariance, PTL
=============================================================================

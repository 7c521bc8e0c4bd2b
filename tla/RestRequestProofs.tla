---- MODULE RestRequestProofs ----
(***************************************************************************)
(* Proofs about RestRequest, for any requests, routes, custom endpoints,   *)
(* companies and numbers of attempts: what a request's updates, its answer *)
(* and its log say of each other, and that one authority let it through.   *)
(***************************************************************************)
EXTENDS RestRequest, TLAPS

Row == [status : Status, id : Nat, auth : BOOLEAN, rule : BOOLEAN]
Remembered == [id : Nat, auth : BOOLEAN, rule : BOOLEAN]
Told == [status : Status \cup {"none"}, id : Nat]

----------------------------------------------------------------------------
(* What the state of one request is like, wherever the others are *)

Authenticated == {"pre_dispatch", "resolve_company", "dispatch", "post_dispatch", "flush"}
Profiled == {"resolve_company", "dispatch", "post_dispatch", "flush"}
Resolved == {"dispatch", "post_dispatch", "flush"}
Dispatched == {"post_dispatch", "flush"}

\* A request that may begin an attempt has one left, and one that was made has a
\* call.
MayBegin(r) ==
    /\ pc[r] \in {"idle", "begin"} => tries[r] < MaxTries
    /\ pc[r] # "idle" => call[r] \in Call

\* What the attempt has passed, its snapshot lets through.
Passed(r) ==
    /\ pc[r] \in Authenticated /\ call[r].route.auth = "ssi_rest" => snap[r].key
    /\ pc[r] \in Profiled => snap[r].profile
    /\ pc[r] \in Resolved => company[r] = CompanyOf(call[r]) /\ company[r] \in snap[r].companies
    /\ pc[r] \in Dispatched => Does(r) \notin DOMAIN Refusal

\* If the snapshot of an attempt on the primary lets the request through, the
\* primary did so when the attempt began.
Vouched(r) ==
    cursor[r] = "rw" /\ pc[r] \in {"authenticate"} \cup Authenticated
        /\ Suffices(snap[r], call[r]) => covered[r]

\* Updates are pending only on the primary, until the attempt is committed or rolled
\* back.
Pending(r) ==
    wrote[r] =>
        /\ cursor[r] = "rw" /\ Does(r) \in {"write", "spoil"}
        /\ pc[r] \in Resolved \cup {"handle_error"}

\* Nothing is committed and nothing is answered before the end; a request on its
\* way to handle_error has an exception.
Unfinished(r) ==
    /\ pc[r] \notin {"done", "lost"} => effects[r] = <<>>
    /\ pc[r] # "done" => answer[r] = NoAnswer
    /\ pc[r] = "handle_error" => raised[r] \in Status \ {"ok"}

Effect(r) ==
    /\ Len(effects[r]) <= 1
    /\ answer[r].status = "ok" /\ Updates(r) => effects[r] # <<>>
    /\ answer[r].status \notin {"ok", "none"} => effects[r] = <<>>

Served(r) ==
    /\ effects[r] # <<>> => covered[r] /\ effects[r][1] = CompanyOf(call[r])
    /\ answer[r].status = "ok" /\ cursor[r] = "rw" => covered[r]

----------------------------------------------------------------------------
(* Types *)

\* TypeOK in parts, named.
DbType ==
    /\ changes \in 0 .. MaxChanges
    /\ authority \in Authority /\ replica \in Authority
    /\ effects \in [Request -> Seq(Company)]
    /\ log \in [Request -> Seq(Row)]
    /\ logged \in [Request -> BOOLEAN]

PcType == [Request -> {"idle", "begin", "authenticate", "pre_dispatch", "resolve_company",
                       "dispatch", "post_dispatch", "flush", "handle_error", "done", "lost"}]

CallType ==
    /\ pc \in PcType
    /\ call \in [Request -> Call \cup {NoCall}]
    /\ cursor \in [Request -> {"ro", "rw"}]
    /\ raised \in [Request -> Status \cup {"none"}]
    /\ object \in [Request -> Remembered]
    /\ answer \in [Request -> Told]
    /\ covered \in [Request -> BOOLEAN]

AttemptType ==
    /\ tries \in [Request -> 0 .. MaxTries]
    /\ snap \in [Request -> Authority]
    /\ company \in [Request -> Company \cup {None}]
    /\ wrote \in [Request -> BOOLEAN]
    /\ beaten \in [Request -> BOOLEAN]

\* The type invariant, part by part,
LEMMA TypeParts == TypeOK => DbType /\ CallType /\ AttemptType
    BY DEF TypeOK, DbType, CallType, AttemptType, PcType, Row, Remembered, Told

\* and put together again after a step.
LEMMA TypeWhole == DbType' /\ CallType' /\ AttemptType' => TypeOK'
    BY DEF TypeOK, DbType, CallType, AttemptType, PcType, Row, Remembered, Told

\* What the assumption on the constants says of calls and authorities.
LEMMA TypesOfConstants ==
    /\ FullAuthority \in Authority
    /\ \A e \in EndpointRow \cup {NoEndpoint} :
         [FullAuthority EXCEPT !.endpoint = e] \in Authority
    /\ Fresh \in Remembered /\ NoAnswer \in Told
    /\ 0 \in 0 .. MaxChanges /\ 0 \in 0 .. MaxTries
<1>1. FullAuthority \in Authority
    BY DEF FullAuthority, Authority
<1>2. ASSUME NEW e \in EndpointRow \cup {NoEndpoint}
      PROVE  [FullAuthority EXCEPT !.endpoint = e] \in Authority
    BY <1>1 DEF Authority
<1>3. Fresh \in Remembered /\ NoAnswer \in Told
    BY DEF Fresh, Remembered, NoAnswer, Told
<1> QED
    BY <1>1, <1>2, <1>3, ConstantsAssumption

\* The first state is typed.
LEMMA TypeInit == Init => TypeOK
<1> SUFFICES ASSUME Init PROVE TypeOK
    OBVIOUS
<1>1. PICK e \in EndpointRow : authority = [FullAuthority EXCEPT !.endpoint = e]
    BY DEF Init
<1>2. {authority, replica} \subseteq Authority
    BY <1>1, TypesOfConstants DEF Init
<1>3. /\ changes \in 0 .. MaxChanges /\ tries \in [Request -> 0 .. MaxTries]
      /\ snap \in [Request -> Authority]
      /\ object \in [Request -> Remembered] /\ answer \in [Request -> Told]
    BY TypesOfConstants DEF Init
<1>4. /\ effects \in [Request -> Seq(Company)] /\ log \in [Request -> Seq(Row)]
    BY DEF Init
<1> QED
    BY <1>2, <1>3, <1>4 DEF Init, TypeOK, Row, Remembered, Told

\* A call is matched to one of the routes and gets a cursor.
LEMMA TypeArrive == ASSUME TypeOK, NEW r \in Request, Arrive(r) PROVE TypeOK'
<1> USE TypeParts
<1>1. DbType' /\ AttemptType'
    BY DEF Arrive, DbType, AttemptType, db, attempt
<1>2. CallType'
    BY DEF Arrive, CallType, PcType, Goto
<1> QED
    BY <1>1, <1>2, TypeWhole

\* An attempt begins only while one is left.
LEMMA TypeBegin == ASSUME TypeOK, NEW r \in Request, MayBegin(r), Begin(r) PROVE TypeOK'
<1> USE TypeParts
<1>1. DbType'
    BY DEF Begin, DbType, db
<1>2. AttemptType'
    BY ConstantsAssumption DEF Begin, AttemptType, MayBegin, DbType
<1>3. CallType'
    <2>1. Suffices(authority, call[r]) \in BOOLEAN
        BY DEF Suffices
    <2> QED
        BY <2>1 DEF Begin, CallType, PcType, Goto
<1> QED
    BY <1>1, <1>2, <1>3, TypeWhole

\* An authentication that fails is answered 401, 400 or 500.
LEMMA FailuresAreStatus ==
    ASSUME NEW r \in Request
    PROVE  Failures(r) \subseteq AuthFailure
    BY DEF Failures, AuthFailure

\* Authentication goes on or raises, and remembers a Boolean.
LEMMA TypeAuthenticate == ASSUME TypeOK, NEW r \in Request, Authenticate(r) PROVE TypeOK'
<1> USE TypeParts
<1>1. DbType' /\ AttemptType'
    BY DEF Authenticate, Identify, DbType, AttemptType, db, attempt
<1>2. [object[r] EXCEPT !.auth = call[r].route.auth = "ssi_rest"] \in Remembered
    <2> DEFINE asked == call[r].route.auth = "ssi_rest"
    <2>1. object[r] \in Remembered
        BY DEF CallType
    <2>2. asked \in BOOLEAN
        BY Zenon
    <2> HIDE DEF asked
    <2>3. [object[r] EXCEPT !.auth = asked] \in Remembered
        BY <2>1, <2>2 DEF Remembered
    <2> QED
        BY <2>3, Zenon DEF asked
<1>3. CallType'
    BY <1>2, FailuresAreStatus DEF Authenticate, Identify, CallType, PcType, Goto, Raise, Status
<1> QED
    BY <1>1, <1>3, TypeWhole

\* The request's id is drawn once, and keeps the type of what is remembered.
LEMMA EnsuredId ==
    ASSUME NEW o \in Remembered
    PROVE  /\ EnsureRequestId(o) \in Remembered
           /\ EnsureRequestId(o).id # 0
           /\ o.id # 0 => EnsureRequestId(o).id = o.id
           /\ o.id = 0 => EnsureRequestId(o).id = 1
           /\ [EnsureRequestId(o) EXCEPT !.rule = TRUE] \in Remembered
           /\ [EnsureRequestId(o) EXCEPT !.rule = TRUE].id = EnsureRequestId(o).id
<1>1. [o EXCEPT !.id = 1] \in Remembered /\ [o EXCEPT !.id = 1].id = 1
    BY DEF Remembered
<1>2. EnsureRequestId(o) \in Remembered
    BY <1>1 DEF EnsureRequestId
<1>3. ASSUME NEW q \in Remembered
      PROVE  [q EXCEPT !.rule = TRUE] \in Remembered /\ [q EXCEPT !.rule = TRUE].id = q.id
    BY DEF Remembered
<1> QED
    BY <1>1, <1>2, <1>3 DEF EnsureRequestId

\* The id drawn by the checks is a number.
LEMMA TypePreDispatch == ASSUME TypeOK, NEW r \in Request, PreDispatch(r) PROVE TypeOK'
<1> USE TypeParts
<1>1. DbType' /\ AttemptType'
    BY DEF PreDispatch, DbType, AttemptType, db, attempt
<1> DEFINE o == EnsureRequestId(object[r])
<1>2. o \in Remembered /\ [o EXCEPT !.rule = TRUE] \in Remembered
    BY EnsuredId DEF CallType
<1>3. /\ \/ object' = [object EXCEPT ![r] = [o EXCEPT !.rule = TRUE]] /\ raised' = raised
         \/ object' = [object EXCEPT ![r] = o] /\ raised' = [raised EXCEPT ![r] = "denied"]
      /\ \E l \in {"resolve_company", "handle_error"} : pc' = [pc EXCEPT ![r] = l]
      /\ UNCHANGED <<call, cursor, answer, covered>>
    BY DEF PreDispatch, Goto, Raise
<1> HIDE DEF o
<1>4. object' \in [Request -> Remembered]
    BY <1>2, <1>3 DEF CallType
<1>5. pc' \in PcType /\ raised' \in [Request -> Status \cup {"none"}]
    BY <1>3 DEF CallType, PcType, Status
<1>6. CallType'
    BY <1>3, <1>4, <1>5 DEF CallType
<1> QED
    BY <1>1, <1>6, TypeWhole

\* The company resolved is one of the user's.
LEMMA TypeResolveCompany == ASSUME TypeOK, NEW r \in Request, ResolveCompany(r) PROVE TypeOK'
<1> USE TypeParts
<1>1. DbType'
    BY DEF ResolveCompany, DbType, db
<1>2. snap[r].companies \in SUBSET Company
    BY DEF AttemptType, Authority
<1>3. AttemptType'
    BY <1>2 DEF ResolveCompany, AttemptType
<1>4. CallType'
    BY DEF ResolveCompany, CallType, PcType, Goto, Raise, Status
<1> QED
    BY <1>1, <1>3, <1>4, TypeWhole

\* What an endpoint refuses with is a status.
LEMMA RefusalIsStatus ==
    /\ DOMAIN Refusal = {"fail", "spoil", "miss", "refuse", "malformed", "oversized"}
    /\ \A d \in DOMAIN Refusal : Refusal[d] \in Status \ {"ok"}
    BY DEF Refusal, Status, AuthFailure

\* What an endpoint raises has one of the statuses.
LEMMA TypeDispatch == ASSUME TypeOK, NEW r \in Request, Dispatch(r) PROVE TypeOK'
<1> USE TypeParts
<1>1. DbType' /\ AttemptType'
    BY DEF Dispatch, DbType, AttemptType, db, attempt
<1>2. CallType'
    BY RefusalIsStatus DEF Dispatch, CallType, PcType, Goto, Raise
<1> QED
    BY <1>1, <1>2, TypeWhole

\* A row of the log is typed, and one that is written is the last.
LEMMA WriteLogTyped ==
    ASSUME log \in [Request -> Seq(Row)], logged \in [Request -> BOOLEAN],
           NEW r \in Request, NEW status \in Status, NEW o \in Remembered,
           WriteLog(r, status, o)
    PROVE  /\ log' \in [Request -> Seq(Row)] /\ logged' \in [Request -> BOOLEAN]
           /\ \A s \in Request \ {r} : log'[s] = log[s] /\ logged'[s] = logged[s]
           /\ \/ log'[r] = Append(log[r], LogRow(status, o)) /\ logged'[r]
              \/ log'[r] = log[r] /\ ~logged'[r]
           /\ LogRow(status, o) \in Row
<1>1. LogRow(status, o) \in Row
    BY DEF LogRow, Row, Remembered
<1>2. CASE /\ log' = [log EXCEPT ![r] = Append(@, LogRow(status, o))]
           /\ logged' = [logged EXCEPT ![r] = TRUE]
    <2>1. Append(log[r], LogRow(status, o)) \in Seq(Row)
        BY <1>1
    <2> QED
        BY <1>1, <1>2, <2>1
<1>3. CASE logged' = [logged EXCEPT ![r] = FALSE] /\ UNCHANGED log
    BY <1>1, <1>3
<1> QED
    BY <1>2, <1>3 DEF WriteLog

\* A row of the log is typed.
LEMMA TypePostDispatch == ASSUME TypeOK, NEW r \in Request, PostDispatch(r) PROVE TypeOK'
<1> USE TypeParts
<1>1. object[r] \in Remembered /\ "ok" \in Status
    BY DEF CallType, Status
<1>2. DbType'
    BY <1>1, WriteLogTyped DEF PostDispatch, DbType
<1>3. CallType' /\ AttemptType'
    BY DEF PostDispatch, CallType, AttemptType, PcType, Goto, attempt
<1> QED
    BY <1>2, <1>3, TypeWhole

\* An update only marks the row as written.
LEMMA TypeUpdate == ASSUME TypeOK, NEW r \in Request, Update(r) PROVE TypeOK'
<1> USE TypeParts
<1>1. DbType' /\ CallType'
    BY DEF Update, DbType, CallType, PcType, db
<1>2. AttemptType'
    BY DEF Update, AttemptType
<1> QED
    BY <1>1, <1>2, TypeWhole

\* A rolled-back attempt leaves its typed default.
LEMMA TypeRollback ==
    ASSUME AttemptType, NEW r \in Request, Rollback(r)
    PROVE  /\ snap' \in [Request -> Authority] /\ company' \in [Request -> Company \cup {None}]
           /\ wrote' \in [Request -> BOOLEAN] /\ beaten' \in [Request -> BOOLEAN]
           /\ wrote'[r] = FALSE
           /\ \A s \in Request \ {r} : /\ snap'[s] = snap[s] /\ company'[s] = company[s]
                                       /\ wrote'[s] = wrote[s]
    BY TypesOfConstants DEF AttemptType, Rollback

\* A constraint that fails rolls back and raises.
LEMMA TypeConstraint == ASSUME TypeOK, NEW r \in Request, Constraint(r) PROVE TypeOK'
<1> USE TypeParts
<1>1. DbType' /\ AttemptType'
    BY TypeRollback DEF Constraint, DbType, AttemptType, db
<1>2. CallType'
    BY DEF Constraint, CallType, PcType, Goto, Raise, Status
<1> QED
    BY <1>1, <1>2, TypeWhole

\* A lost race rolls back, and begins again or gives up.
LEMMA TypeConflict == ASSUME TypeOK, NEW r \in Request, Conflict(r) PROVE TypeOK'
<1> USE TypeParts
<1>1. DbType' /\ AttemptType'
    BY TypeRollback DEF Conflict, Retry, DbType, AttemptType, db
<1>2. CallType'
    BY DEF Conflict, Retry, CallType, PcType, Goto, Raise, Status, AuthFailure
<1> QED
    BY <1>1, <1>2, TypeWhole

\* A failure for being read-only starts over with no attempt made.
LEMMA TypeUpdateReadOnly == ASSUME TypeOK, NEW r \in Request, UpdateReadOnly(r) PROVE TypeOK'
<1> USE TypeParts
<1>1. DbType' /\ AttemptType'
    BY TypeRollback, TypesOfConstants DEF UpdateReadOnly, ReadOnlyFailure, DbType, AttemptType, db
<1>2. CallType'
    BY DEF UpdateReadOnly, ReadOnlyFailure, CallType, PcType, Goto
<1> QED
    BY <1>1, <1>2, TypeWhole

\* A worker that dies leaves nothing but the log.
LEMMA TypeCrash == ASSUME TypeOK, NEW r \in Request, Crash(r) PROVE TypeOK'
<1> USE TypeParts
<1>1. DbType' /\ AttemptType'
    BY TypeRollback DEF Crash, DbType, AttemptType, db
<1>2. CallType'
    BY DEF Crash, CallType, PcType, Goto
<1> QED
    BY <1>1, <1>2, TypeWhole

\* Who is beaten is a Boolean of each request.
LEMMA TypeBeat == Beat \in [Request -> BOOLEAN]
<1> DEFINE lost(s) == \/ beaten[s]
                      \/ /\ Running(s) /\ Updates(s) /\ cursor[s] = "rw"
                         /\ pc[s] \notin {"begin", "handle_error"}
<1>1. \A s \in Request : lost(s) \in BOOLEAN
    OBVIOUS
<1> QED
    BY <1>1 DEF Beat

\* An update from elsewhere only beats requests.
LEMMA TypeUpdateOutside == ASSUME TypeOK, UpdateOutside PROVE TypeOK'
<1> USE TypeParts
<1>1. DbType' /\ CallType' /\ AttemptType'
    BY TypeBeat DEF UpdateOutside, DbType, CallType, PcType, AttemptType, db
<1> QED
    BY <1>1, TypeWhole

\* The replica becomes the primary.
LEMMA TypeReplicate == ASSUME TypeOK, Replicate PROVE TypeOK'
<1> USE TypeParts
<1>1. DbType' /\ CallType' /\ AttemptType'
    BY DEF Replicate, DbType, CallType, PcType, AttemptType, attempt
<1> QED
    BY <1>1, TypeWhole

\* What an administrator changes stays an authority.
LEMMA TypeAdminister == ASSUME TypeOK, Administer PROVE TypeOK'
<1> USE TypeParts
<1>1. authority' \in Authority
    BY DEF Administer, DbType, Authority
<1>2. DbType'
    BY <1>1, ConstantsAssumption DEF Administer, DbType
<1>3. covered' \in [Request -> BOOLEAN]
    BY DEF Administer, Suffices, Running, CallType
<1>4. CallType' /\ AttemptType'
    BY <1>3 DEF Administer, CallType, PcType, AttemptType, attempt
<1> QED
    BY <1>2, <1>4, TypeWhole

\* A commit records the company, which was resolved.
LEMMA TypeCommit ==
    ASSUME TypeOK, NEW r \in Request, Passed(r), Commit(r)
    PROVE  TypeOK'
<1> USE TypeParts
<1>1. company[r] \in Company
    BY DEF Passed, Commit, Resolved, AttemptType, Authority
<1>2. effects' \in [Request -> Seq(Company)]
    <2>1. Append(effects[r], company[r]) \in Seq(Company)
        BY <1>1 DEF DbType
    <2> QED
        BY <2>1 DEF Commit, DbType
<1>3. DbType'
    BY <1>2 DEF Commit, DbType
<1>4. [FullAuthority EXCEPT !.endpoint = snap[r].endpoint] \in Authority
    BY TypesOfConstants DEF AttemptType, Authority
<1>5. [Beat EXCEPT ![r] = FALSE] \in [Request -> BOOLEAN]
    BY TypeBeat
<1>6. AttemptType'
    BY <1>4, <1>5 DEF Commit, AttemptType
<1>7. [status |-> "ok", id |-> object[r].id] \in Told
    BY DEF CallType, Told, Remembered, Status
<1>8. CallType'
    BY <1>7 DEF Commit, CallType, PcType, Goto
<1> QED
    BY <1>3, <1>6, <1>8, TypeWhole

\* The answer and the row of the log of an exception.
LEMMA TypeHandleError ==
    ASSUME TypeOK, NEW r \in Request, Unfinished(r), HandleError(r)
    PROVE  TypeOK'
<1> USE TypeParts
<1> DEFINE o == EnsureRequestId(object[r])
<1>1. o \in Remembered /\ raised[r] \in Status
    BY EnsuredId DEF CallType, Unfinished, HandleError
<1>2. /\ WriteLog(r, raised[r], o)
      /\ object' = [object EXCEPT ![r] = o]
      /\ \/ pc' = [pc EXCEPT ![r] = "done"]
            /\ answer' = [answer EXCEPT ![r] = [status |-> raised[r], id |-> o.id]]
         \/ pc' = [pc EXCEPT ![r] = "lost"] /\ answer' = answer
      /\ raised' = [raised EXCEPT ![r] = "none"]
      /\ UNCHANGED <<changes, authority, replica, effects, call, cursor, tries, covered>>
    BY DEF HandleError, Goto
<1>3. [status |-> raised[r], id |-> o.id] \in Told
    BY <1>1 DEF Told, Remembered
<1> HIDE DEF o
<1>4. DbType'
    BY <1>1, <1>2, WriteLogTyped DEF DbType
<1>5. AttemptType'
    BY TypeRollback DEF HandleError, AttemptType
<1>6. CallType'
    BY <1>1, <1>2, <1>3 DEF CallType, PcType
<1> QED
    BY <1>4, <1>5, <1>6, TypeWhole

----------------------------------------------------------------------------
(* One request's invariant *)

ServeInv(r) ==
    /\ MayBegin(r) /\ Passed(r) /\ Vouched(r) /\ Pending(r) /\ Unfinished(r)
    /\ Effect(r) /\ Served(r)

\* A step that leaves what this request did alone, and whose authority can only
\* have been vouched for since, keeps its invariant.
LEMMA ServeElsewhere ==
    ASSUME NEW r \in Request, ServeInv(r),
           pc'[r] = pc[r], tries'[r] = tries[r], call'[r] = call[r], cursor'[r] = cursor[r],
           snap'[r] = snap[r], company'[r] = company[r], wrote'[r] = wrote[r],
           effects'[r] = effects[r], answer'[r] = answer[r], raised'[r] = raised[r],
           covered[r] => covered'[r]
    PROVE  ServeInv(r)'
<1>1. Does(r)' = Does(r) /\ Updates(r)' = Updates(r)
    BY DEF Does, Updates
<1> QED
    BY <1>1 DEF ServeInv, MayBegin, Passed, Vouched, Pending, Unfinished, Effect, Served, Suffices,
       CompanyOf

ServeInvs == \A r \in Request : ServeInv(r)

\* Nothing is served or committed at first.
LEMMA ServeInit == Init => ServeInvs
    BY ConstantsAssumption DEF Init, ServeInvs, ServeInv, MayBegin, Passed, Vouched, Pending,
       Unfinished, Effect, Served, Authenticated, Profiled, Resolved, Dispatched, NoAnswer

\* A request that arrives has nothing behind it and an attempt before it.
LEMMA ServeArrive ==
    ASSUME TypeOK, ServeInvs, NEW r \in Request, Arrive(r)
    PROVE  ServeInvs'
<1> USE DEF ServeInvs
<1>1. PICK q \in Call, c \in {"ro", "rw"} :
        /\ pc[r] = "idle" /\ pc' = [pc EXCEPT ![r] = "begin"]
        /\ call' = [call EXCEPT ![r] = q] /\ cursor' = [cursor EXCEPT ![r] = c]
        /\ UNCHANGED <<effects, answer, raised, covered, tries, snap, company, wrote>>
    BY DEF Arrive, Goto, db, attempt
<1>2. pc'[r] = "begin" /\ call'[r] = q
    BY <1>1 DEF TypeOK
<1>3. ServeInv(r)'
    BY <1>1, <1>2 DEF ServeInv, MayBegin, Passed, Vouched, Pending, Unfinished, Effect, Served,
       Authenticated, Profiled, Resolved, Dispatched, NoAnswer
<1>4. ASSUME NEW s \in Request \ {r} PROVE ServeInv(s)'
    BY <1>1, <1>4, ServeElsewhere DEF TypeOK
<1> QED
    BY <1>3, <1>4

\* What the snapshot says, the primary says too when it is read from it.
LEMMA ServeBegin ==
    ASSUME TypeOK, ServeInvs, NEW r \in Request, Begin(r)
    PROVE  ServeInvs'
<1> USE DEF ServeInvs
<1>1. /\ pc[r] = "begin" /\ pc'[r] = "authenticate"
      /\ snap'[r] = IF cursor[r] = "ro" THEN replica ELSE authority
      /\ covered'[r] = Suffices(authority, call[r])
      /\ UNCHANGED <<effects, call, cursor, company, wrote, raised, answer>>
    BY DEF Begin, Goto, TypeOK, db
<1>2. ServeInv(r)'
    <2>1. ~wrote[r] /\ effects[r] = <<>> /\ answer[r] = NoAnswer /\ call[r] \in Call
        BY <1>1 DEF ServeInv, MayBegin, Pending, Unfinished, Resolved
    <2>2. MayBegin(r)' /\ Passed(r)' /\ Pending(r)' /\ Unfinished(r)'
        BY <1>1, <2>1 DEF MayBegin, Passed, Pending, Unfinished, Authenticated, Profiled, Resolved,
           Dispatched
    <2>3. Vouched(r)'
        BY <1>1, <2>1 DEF Vouched, TypeOK
    <2>4. Effect(r)' /\ Served(r)'
        BY <1>1, <2>1 DEF Effect, Served, NoAnswer
    <2> QED
        BY <2>2, <2>3, <2>4 DEF ServeInv
<1>3. ASSUME NEW s \in Request \ {r} PROVE ServeInv(s)'
    BY <1>1, <1>3, ServeElsewhere DEF TypeOK, Begin, Goto
<1> QED
    BY <1>2, <1>3

\* A step of an attempt that commits nothing: the request goes on with the call,
\* the snapshot and the vouching it had.
LEMMA ServeOn ==
    ASSUME TypeOK, NEW r \in Request, ServeInv(r), pc[r] \in {"authenticate"} \cup Authenticated,
           pc'[r] \in Authenticated \cup {"handle_error"},
           UNCHANGED <<effects, answer, call, cursor, covered, snap, tries>>,
           pc'[r] = "handle_error" => raised'[r] \in Status \ {"ok"},
           Passed(r)', Pending(r)'
    PROVE  ServeInv(r)'
<1>1. Updates(r)' = Updates(r)
    BY DEF Does, Updates
<1>2. MayBegin(r)' /\ Vouched(r)' /\ Unfinished(r)'
    BY DEF ServeInv, MayBegin, Vouched, Unfinished, Authenticated
<1>3. Effect(r)' /\ Served(r)'
    BY <1>1 DEF ServeInv, Effect, Served, CompanyOf
<1> QED
    BY <1>2, <1>3 DEF ServeInv

\* Who passes authentication on the primary has a valid key.
LEMMA ServeAuthenticate ==
    ASSUME TypeOK, ServeInvs, NEW r \in Request, Authenticate(r)
    PROVE  ServeInvs'
<1> USE DEF ServeInvs
<1>1. /\ pc[r] = "authenticate"
      /\ \/ pc'[r] = "handle_error" /\ raised'[r] \in AuthFailure
         \/ pc'[r] = "pre_dispatch" /\ (call[r].route.auth = "ssi_rest" => snap[r].key)
      /\ UNCHANGED <<effects, answer, call, cursor, covered, snap, tries, wrote, company>>
    BY FailuresAreStatus DEF Authenticate, Identify, Goto, Raise, TypeOK, db, attempt
<1>2. ServeInv(r)'
    <2>1. ~wrote[r]
        BY <1>1 DEF ServeInv, Pending, Resolved
    <2>2. Passed(r)' /\ Pending(r)'
        BY <1>1, <2>1 DEF Passed, Pending, Authenticated, Profiled, Resolved, Dispatched
    <2> QED
        BY <1>1, <2>1, <2>2, ServeOn DEF Authenticated, Status, AuthFailure
<1>3. ASSUME NEW s \in Request \ {r} PROVE ServeInv(s)'
    BY <1>1, <1>3, ServeElsewhere DEF TypeOK, Authenticate, Identify, Goto, Raise
<1> QED
    BY <1>2, <1>3

\* Who passes the profiles was let through by the snapshot.
LEMMA ServePreDispatch ==
    ASSUME TypeOK, ServeInvs, NEW r \in Request, PreDispatch(r)
    PROVE  ServeInvs'
<1> USE DEF ServeInvs
<1>1. /\ pc[r] = "pre_dispatch"
      /\ \/ pc'[r] = "handle_error" /\ raised'[r] = "denied"
         \/ pc'[r] = "resolve_company" /\ snap[r].profile
      /\ UNCHANGED <<effects, answer, call, cursor, covered, snap, tries, wrote, company>>
    BY DEF PreDispatch, Goto, Raise, TypeOK, db, attempt
<1>2. ServeInv(r)'
    <2>1. ~wrote[r] /\ (call[r].route.auth = "ssi_rest" => snap[r].key)
        BY <1>1 DEF ServeInv, Pending, Passed, Authenticated, Resolved
    <2>2. Passed(r)' /\ Pending(r)'
        BY <1>1, <2>1 DEF Passed, Pending, Authenticated, Profiled, Resolved, Dispatched
    <2> QED
        BY <1>1, <2>1, <2>2, ServeOn DEF Authenticated, Status
<1>3. ASSUME NEW s \in Request \ {r} PROVE ServeInv(s)'
    BY <1>1, <1>3, ServeElsewhere DEF TypeOK, PreDispatch, Goto, Raise
<1> QED
    BY <1>2, <1>3

\* Who passes the company check runs in the one asked for.
LEMMA ServeResolveCompany ==
    ASSUME TypeOK, ServeInvs, NEW r \in Request, ResolveCompany(r)
    PROVE  ServeInvs'
<1> USE DEF ServeInvs
<1>1. /\ pc[r] = "resolve_company"
      /\ \/ pc'[r] = "handle_error" /\ raised'[r] \in {"invalid", "denied"}
         \/ /\ pc'[r] = "dispatch" /\ company'[r] = CompanyOf(call[r])
            /\ company'[r] \in snap[r].companies
      /\ UNCHANGED <<effects, answer, call, cursor, covered, snap, tries, wrote>>
    BY DEF ResolveCompany, Goto, Raise, TypeOK, db
<1>2. ServeInv(r)'
    <2>1. ~wrote[r] /\ (call[r].route.auth = "ssi_rest" => snap[r].key) /\ snap[r].profile
        BY <1>1 DEF ServeInv, Pending, Passed, Authenticated, Profiled, Resolved
    <2>2. Passed(r)' /\ Pending(r)'
        BY <1>1, <2>1 DEF Passed, Pending, Authenticated, Profiled, Resolved, Dispatched, CompanyOf
    <2> QED
        BY <1>1, <2>1, <2>2, ServeOn DEF Authenticated, Status
<1>3. ASSUME NEW s \in Request \ {r} PROVE ServeInv(s)'
    BY <1>1, <1>3, ServeElsewhere DEF TypeOK, ResolveCompany, Goto, Raise
<1> QED
    BY <1>2, <1>3

\* An endpoint that returns does what its snapshot says.
LEMMA ServeDispatch ==
    ASSUME TypeOK, ServeInvs, NEW r \in Request, Dispatch(r)
    PROVE  ServeInvs'
<1> USE DEF ServeInvs
<1>1. /\ pc[r] = "dispatch"
      /\ \/ /\ pc'[r] = "handle_error" /\ Does(r) \in DOMAIN Refusal
            /\ raised'[r] = Refusal[Does(r)]
         \/ pc'[r] = "post_dispatch" /\ Does(r) \notin DOMAIN Refusal
      /\ UNCHANGED <<effects, answer, call, cursor, covered, snap, tries, wrote, company>>
    BY DEF Dispatch, Goto, Raise, TypeOK, db, attempt
<1>2. ServeInv(r)'
    <2>1. Does(r)' = Does(r)
        BY <1>1 DEF Does
    <2>2. Passed(r)' /\ Pending(r)'
        BY <1>1, <2>1 DEF ServeInv, Passed, Pending, Authenticated, Profiled, Resolved, Dispatched,
           CompanyOf
    <2> QED
        BY <1>1, <2>1, <2>2, ServeOn, RefusalIsStatus DEF Authenticated
<1>3. ASSUME NEW s \in Request \ {r} PROVE ServeInv(s)'
    BY <1>1, <1>3, ServeElsewhere DEF TypeOK, Dispatch, Goto, Raise
<1> QED
    BY <1>2, <1>3

\* Logging a success commits nothing of the request.
LEMMA ServePostDispatch ==
    ASSUME TypeOK, ServeInvs, NEW r \in Request, PostDispatch(r)
    PROVE  ServeInvs'
<1> USE DEF ServeInvs
<1>1. /\ pc[r] = "post_dispatch" /\ pc'[r] = "flush"
      /\ UNCHANGED <<effects, answer, call, cursor, covered, snap, tries, wrote, company, raised>>
    BY DEF PostDispatch, Goto, TypeOK, attempt
<1>2. ServeInv(r)'
    <2>1. Does(r)' = Does(r)
        BY <1>1 DEF Does
    <2>2. Passed(r)' /\ Pending(r)'
        BY <1>1, <2>1 DEF ServeInv, Passed, Pending, Authenticated, Profiled, Resolved, Dispatched,
           CompanyOf
    <2> QED
        BY <1>1, <2>2, ServeOn DEF Authenticated
<1>3. ASSUME NEW s \in Request \ {r} PROVE ServeInv(s)'
    BY <1>1, <1>3, ServeElsewhere DEF TypeOK, PostDispatch, Goto
<1> QED
    BY <1>2, <1>3

\* A row is written once: who wrote it does not flush again.
LEMMA ServeUpdate ==
    ASSUME TypeOK, ServeInvs, NEW r \in Request, Update(r)
    PROVE  ServeInvs'
<1> USE DEF ServeInvs
<1>1. /\ pc[r] \in {"dispatch", "flush"} /\ pc' = pc
      /\ cursor[r] = "rw" /\ Does(r) \in {"write", "spoil"}
      /\ UNCHANGED <<effects, answer, call, cursor, covered, snap, tries, company, raised>>
    BY DEF Update, Flushing, db
<1>2. ServeInv(r)'
    <2>1. Does(r)' = Does(r)
        BY <1>1 DEF Does
    <2>2. Passed(r)' /\ Pending(r)'
        BY <1>1, <2>1 DEF ServeInv, Passed, Pending, Resolved, CompanyOf
    <2> QED
        BY <1>1, <2>2, ServeOn DEF Authenticated
<1>3. ASSUME NEW s \in Request \ {r} PROVE ServeInv(s)'
    BY <1>1, <1>3, ServeElsewhere DEF TypeOK, Update
<1> QED
    BY <1>2, <1>3

\* A step that rolls the attempt back: it is begun again with an attempt left, or
\* its exception goes to handle_error, or nobody will be answered.
LEMMA ServeAborted ==
    ASSUME TypeOK, NEW r \in Request, ServeInv(r), Running(r),
           pc'[r] \in {"begin", "handle_error", "lost"}, wrote'[r] = FALSE,
           UNCHANGED <<effects, answer, call>>,
           pc'[r] = "begin" => tries'[r] < MaxTries,
           pc'[r] = "handle_error" => raised'[r] \in Status \ {"ok"}
    PROVE  ServeInv(r)'
<1>1. effects[r] = <<>> /\ answer[r] = NoAnswer /\ call[r] \in Call
    BY DEF ServeInv, MayBegin, Unfinished, Running
<1> QED
    BY <1>1 DEF ServeInv, MayBegin, Passed, Vouched, Pending, Unfinished, Effect, Served,
       Authenticated, Profiled, Resolved, Dispatched, NoAnswer

\* A constraint that fails leaves no effect behind.
LEMMA ServeConstraint ==
    ASSUME TypeOK, ServeInvs, NEW r \in Request, Constraint(r)
    PROVE  ServeInvs'
<1> USE DEF ServeInvs
<1> USE TypeParts, TypeRollback
<1>1. /\ Running(r) /\ Rollback(r) /\ pc'[r] = "handle_error" /\ raised'[r] = "invalid"
      /\ UNCHANGED <<effects, call, cursor, tries, answer, covered>>
    BY DEF Constraint, Flushing, Running, Goto, Raise, TypeOK, db
<1>2. ServeInv(r)'
    BY <1>1, ServeAborted DEF Status, AuthFailure
<1>3. ASSUME NEW s \in Request \ {r} PROVE ServeInv(s)'
    BY <1>1, <1>3, ServeElsewhere DEF TypeOK, Constraint, Goto, Raise
<1> QED
    BY <1>2, <1>3

\* A lost race leaves no effect behind, and an attempt unless it gives up.
LEMMA ServeConflict ==
    ASSUME TypeOK, ServeInvs, NEW r \in Request, Conflict(r)
    PROVE  ServeInvs'
<1> USE DEF ServeInvs
<1> USE TypeParts, TypeRollback
<1>1. /\ Running(r) /\ Rollback(r)
      /\ \/ pc'[r] = "begin" /\ tries[r] < MaxTries
         \/ pc'[r] = "handle_error" /\ raised'[r] = "error"
      /\ UNCHANGED <<effects, call, cursor, tries, answer, covered>>
    BY DEF Conflict, Retry, Flushing, Running, Goto, Raise, TypeOK, db
<1>2. ServeInv(r)'
    BY <1>1, ServeAborted DEF Status, AuthFailure
<1>3. ASSUME NEW s \in Request \ {r} PROVE ServeInv(s)'
    <2>1. /\ pc'[s] = pc[s] /\ raised'[s] = raised[s]
          /\ wrote'[s] = wrote[s] /\ company'[s] = company[s] /\ snap'[s] = snap[s]
        BY <1>3 DEF Conflict, Retry, Rollback, Goto, Raise, CallType, AttemptType, PcType
    <2> QED
        BY <1>1, <1>3, <2>1, ServeElsewhere
<1> QED
    BY <1>2, <1>3

\* Nothing was written on a read-only cursor, and every attempt is left.
LEMMA ServeUpdateReadOnly ==
    ASSUME TypeOK, ServeInvs, NEW r \in Request, UpdateReadOnly(r)
    PROVE  ServeInvs'
<1> USE DEF ServeInvs
<1> USE TypeParts, TypeRollback
<1>1. /\ Running(r) /\ Rollback(r) /\ pc'[r] = "begin" /\ tries'[r] = 0 /\ 0 < MaxTries
      /\ UNCHANGED <<effects, call, answer, covered>>
    BY ConstantsAssumption DEF UpdateReadOnly, ReadOnlyFailure, Flushing, Running, Goto, TypeOK, db
<1>2. ServeInv(r)'
    BY <1>1, ServeAborted
<1>3. ASSUME NEW s \in Request \ {r} PROVE ServeInv(s)'
    BY <1>1, <1>3, ServeElsewhere DEF TypeOK, UpdateReadOnly, ReadOnlyFailure, Goto
<1> QED
    BY <1>2, <1>3

\* A worker that dies before its commit leaves no effect.
LEMMA ServeCrash ==
    ASSUME TypeOK, ServeInvs, NEW r \in Request, Crash(r)
    PROVE  ServeInvs'
<1> USE DEF ServeInvs
<1> USE TypeParts, TypeRollback
<1>1. /\ Running(r) /\ Rollback(r) /\ pc'[r] = "lost"
      /\ UNCHANGED <<effects, call, cursor, tries, answer, covered>>
    BY DEF Crash, Goto, TypeOK, db
<1>2. ServeInv(r)'
    BY <1>1, ServeAborted
<1>3. ASSUME NEW s \in Request \ {r} PROVE ServeInv(s)'
    BY <1>1, <1>3, ServeElsewhere DEF TypeOK, Crash, Goto
<1> QED
    BY <1>2, <1>3

\* What is committed is the one update of a request whose snapshot, of the
\* primary, let it through.
LEMMA ServeCommit ==
    ASSUME TypeOK, ServeInvs, NEW r \in Request, Commit(r)
    PROVE  ServeInvs'
<1> USE DEF ServeInvs
<1> USE TypeParts
<1>1. /\ pc[r] = "flush" /\ ~Flushing(r)
      /\ effects'[r] = IF wrote[r] THEN Append(effects[r], company[r]) ELSE effects[r]
      /\ wrote'[r] = FALSE
      /\ snap'[r].endpoint = snap[r].endpoint
      /\ \/ pc'[r] = "done" /\ answer'[r] = [status |-> "ok", id |-> object[r].id]
         \/ pc'[r] = "lost" /\ answer' = answer
      /\ UNCHANGED <<call, cursor, tries, object, raised, covered>>
    <2>1. FullAuthority.endpoint = NoEndpoint /\ DOMAIN FullAuthority
             = {"key", "profile", "companies", "endpoint"}
        BY DEF FullAuthority
    <2> QED
        BY <2>1 DEF Commit, Goto, DbType, CallType, AttemptType, PcType
<1>2. /\ effects[r] = <<>> /\ answer[r] = NoAnswer /\ call[r] \in Call
      /\ call[r].route.auth = "ssi_rest" => snap[r].key
      /\ snap[r].profile
      /\ company[r] = CompanyOf(call[r]) /\ company[r] \in snap[r].companies
      /\ company[r] \in Company
      /\ Does(r) \notin DOMAIN Refusal
    BY <1>1 DEF ServeInv, MayBegin, Passed, Unfinished, Authenticated, Profiled, Resolved,
       Dispatched, AttemptType, Authority
<1>3. call[r].route.custom => snap[r].endpoint.active /\ snap[r].endpoint.open
    <2>1. call[r].body \in Body
        BY <1>2, ConstantsAssumption DEF Call
    <2>2. call[r].body = "sound"
        BY <1>2, <2>1, RefusalIsStatus DEF Does, Body
    <2> QED
        BY <1>2, <2>2, RefusalIsStatus DEF Does, CustomCall
<1>4. cursor[r] = "rw" => covered[r]
    BY <1>1, <1>2, <1>3 DEF ServeInv, Vouched, Suffices, Authenticated
<1>5. effects'[r] = IF wrote[r] THEN <<company[r]>> ELSE <<>>
    BY <1>1, <1>2
<1>6. Updates(r)' = Updates(r) /\ (Updates(r) => wrote[r])
    BY <1>1 DEF Updates, Does, Flushing
<1>7. ServeInv(r)'
    <2>1. MayBegin(r)' /\ Passed(r)' /\ Vouched(r)' /\ Pending(r)' /\ Unfinished(r)'
        BY <1>1, <1>2 DEF MayBegin, Passed, Vouched, Pending, Unfinished, Authenticated, Profiled,
           Resolved, Dispatched
    <2>2. Effect(r)'
        BY <1>1, <1>2, <1>5, <1>6 DEF Effect, NoAnswer
    <2>3. wrote[r] => cursor[r] = "rw"
        BY DEF ServeInv, Pending
    <2>4. Served(r)'
        BY <1>1, <1>2, <1>4, <1>5, <2>3 DEF Served, CompanyOf, NoAnswer
    <2> QED
        BY <2>1, <2>2, <2>4 DEF ServeInv
<1>8. ASSUME NEW s \in Request \ {r} PROVE ServeInv(s)'
    BY <1>1, <1>8, ServeElsewhere DEF Commit, Goto, DbType, CallType, AttemptType, PcType
<1> QED
    BY <1>7, <1>8

\* An error is told only of what committed nothing.
LEMMA ServeHandleError ==
    ASSUME TypeOK, ServeInvs, NEW r \in Request, HandleError(r)
    PROVE  ServeInvs'
<1> USE DEF ServeInvs
<1> USE TypeParts, TypeRollback
<1>1. /\ pc[r] = "handle_error" /\ Rollback(r)
      /\ \/ pc'[r] = "done" /\ answer'[r].status = raised[r]
         \/ pc'[r] = "lost" /\ answer' = answer
      /\ UNCHANGED <<effects, call, cursor, tries, covered>>
    BY DEF HandleError, Goto, TypeOK
<1>2. /\ effects[r] = <<>> /\ answer[r] = NoAnswer /\ raised[r] \in Status \ {"ok"}
      /\ call[r] \in Call
    BY <1>1 DEF ServeInv, MayBegin, Unfinished
<1>3. wrote'[r] = FALSE
    BY <1>1
<1>4. ServeInv(r)'
    BY <1>1, <1>2, <1>3 DEF ServeInv, MayBegin, Passed, Vouched, Pending, Unfinished, Effect,
       Served, Authenticated, Profiled, Resolved, Dispatched, NoAnswer, Status
<1>5. ASSUME NEW s \in Request \ {r} PROVE ServeInv(s)'
    <2>1. pc'[s] = pc[s] /\ raised'[s] = raised[s] /\ answer'[s] = answer[s]
        BY <1>5 DEF HandleError, Goto, CallType, AttemptType, PcType
    <2>2. snap'[s] = snap[s] /\ company'[s] = company[s] /\ wrote'[s] = wrote[s]
        BY <1>1, <1>5
    <2>3. ServeInv(s)
        BY <1>5
    <2> QED
        BY <1>1, <2>1, <2>2, <2>3, ServeElsewhere
<1> QED
    BY <1>4, <1>5

\* Others' updates and the replica touch no request, and an administrator's change
\* can only add that the caller once had authority.
LEMMA ServeOutside ==
    ASSUME TypeOK, ServeInvs, Administer \/ UpdateOutside \/ Replicate \/ UNCHANGED vars
    PROVE  ServeInvs'
<1>1. ASSUME NEW s \in Request PROVE ServeInv(s)'
    <2>1. ServeInv(s)
        BY DEF ServeInvs
    <2>2. covered[s] => covered'[s]
        BY DEF Administer, UpdateOutside, Replicate, vars
    <2> QED
        BY <2>1, <2>2, ServeElsewhere DEF Administer, UpdateOutside, Replicate, vars, db, attempt
<1> QED
    BY <1>1 DEF ServeInvs

----------------------------------------------------------------------------
(* The invariant of all requests *)

\* No step, of a request or beside it, breaks what holds of any request.
LEMMA ServeNext == TypeOK /\ ServeInvs /\ [Next]_vars => TypeOK' /\ ServeInvs'
<1> SUFFICES ASSUME TypeOK, ServeInvs, [Next]_vars PROVE TypeOK' /\ ServeInvs'
    OBVIOUS
<1>1. \A r \in Request : MayBegin(r) /\ Passed(r) /\ Unfinished(r)
    BY DEF ServeInvs, ServeInv
<1>2. ASSUME NEW r \in Request, Arrive(r) \/ Begin(r) \/ Authenticate(r) \/ PreDispatch(r)
                                  \/ ResolveCompany(r) \/ Dispatch(r) \/ PostDispatch(r)
      PROVE  TypeOK' /\ ServeInvs'
    BY <1>1, <1>2, TypeArrive, TypeBegin, TypeAuthenticate, TypePreDispatch, TypeResolveCompany,
       TypeDispatch, TypePostDispatch, ServeArrive, ServeBegin, ServeAuthenticate,
       ServePreDispatch, ServeResolveCompany, ServeDispatch, ServePostDispatch
<1>3. ASSUME NEW r \in Request, Update(r) \/ Constraint(r) \/ Conflict(r) \/ UpdateReadOnly(r)
                                  \/ Commit(r) \/ HandleError(r) \/ Crash(r)
      PROVE  TypeOK' /\ ServeInvs'
    BY <1>1, <1>3, TypeUpdate, TypeConstraint, TypeConflict, TypeUpdateReadOnly, TypeCommit,
       TypeHandleError, TypeCrash, ServeUpdate, ServeConstraint, ServeConflict,
       ServeUpdateReadOnly, ServeCommit, ServeHandleError, ServeCrash
<1>4. CASE Administer \/ UpdateOutside \/ Replicate
    BY <1>4, TypeAdminister, TypeUpdateOutside, TypeReplicate, ServeOutside
<1>5. CASE UNCHANGED vars
    <2>1. TypeOK'
        BY <1>5 DEF TypeOK, vars
    <2> QED
        BY <1>5, <2>1, ServeOutside
<1> QED
    BY <1>2, <1>3, <1>4, <1>5 DEF Next, RequestStep

\* The invariant of every behaviour.
LEMMA ServeAlways == Spec => [](TypeOK /\ ServeInvs)
    BY TypeInit, ServeInit, ServeNext, PTL DEF Spec

\* Every state is typed: however often a request is run again, on which cursor, and
\* whoever beats it to a row.
THEOREM TypeCorrect == Spec => []TypeOK
    BY ServeAlways, PTL

\* A request's updates are committed once if it is told of a success, and never if
\* it is told of an error.
THEOREM AnswerIsTrue == Spec => []AnswerTellsEffect
<1>1. ServeInvs => AnswerTellsEffect
    BY DEF ServeInvs, ServeInv, Effect, AnswerTellsEffect
<1> QED
    BY <1>1, ServeAlways, PTL

\* Whatever the primary does for a request was let through by one state of the
\* caller's authority, since the attempt that did it began.
THEOREM OneAuthority == Spec => []ServedUnderOneAuthority
<1>1. ServeInvs => ServedUnderOneAuthority
    BY DEF ServeInvs, ServeInv, Served, ServedUnderOneAuthority
<1> QED
    BY <1>1, ServeAlways, PTL

----------------------------------------------------------------------------
(* The log and the request id *)

\* Every row carries the id the request object has. Until the end each row is the
\* success of an attempt, and before the flush the last of them is this one's.
LogInv(r) ==
    /\ \A i \in DOMAIN log[r] : log[r][i].id = object[r].id
    /\ log[r] # <<>> \/ pc[r] \in Profiled => object[r].id # 0
    /\ pc[r] \notin {"done", "lost"} => \A i \in DOMAIN log[r] : log[r][i].status = "ok"
    /\ pc[r] = "flush" /\ logged[r] => log[r] # <<>>
    /\ pc[r] = "done" =>
         /\ answer[r].id = object[r].id /\ object[r].id # 0
         /\ logged[r] => log[r] # <<>> /\ log[r][Len(log[r])].status = answer[r].status
         /\ \A i \in 1 .. Len(log[r]) - 1 : log[r][i].status = "ok"

LogInvs == \A r \in Request : LogInv(r)

\* A step that leaves a request and its log alone.
LEMMA LogElsewhere ==
    ASSUME NEW r \in Request, LogInv(r), pc'[r] = pc[r], log'[r] = log[r],
           logged'[r] = logged[r], object'[r] = object[r], answer'[r] = answer[r]
    PROVE  LogInv(r)'
    BY DEF LogInv

\* A step of the request that writes no row.
LEMMA LogUnwritten ==
    ASSUME NEW r \in Request, LogInv(r), pc[r] \notin {"done", "lost"}, pc'[r] # "done",
           log'[r] = log[r], logged'[r] = logged[r], answer'[r] = answer[r],
           object'[r].id = object[r].id \/ object[r].id = 0,
           pc'[r] \in Profiled => object'[r].id # 0,
           pc'[r] = "flush" => pc[r] = "flush"
    PROVE  LogInv(r)'
    BY DEF LogInv

\* Every log is empty at first.
LEMMA LogInit == Init => LogInvs
    BY DEF Init, LogInvs, LogInv, Profiled

\* Authentication remembers its result beside the id; the checks before the
\* endpoint draw the id.
LEMMA LogChecks ==
    ASSUME TypeOK, LogInvs, NEW r \in Request,
           Arrive(r) \/ Begin(r) \/ Authenticate(r) \/ PreDispatch(r)
    PROVE  LogInvs'
<1> USE DEF LogInvs
<1> USE TypeParts
<1>1. LogInv(r)'
    <2>1. CASE Arrive(r) \/ Begin(r)
        <3>1. /\ pc[r] \in {"idle", "begin"} /\ pc'[r] \in {"begin", "authenticate"}
              /\ UNCHANGED <<log, logged, object, answer>>
            BY <2>1 DEF Arrive, Begin, Goto, db, CallType, PcType
        <3> QED
            BY <3>1, LogUnwritten DEF Profiled
    <2>2. CASE Authenticate(r)
        <3>1. /\ pc[r] = "authenticate" /\ pc'[r] \in {"pre_dispatch", "handle_error"}
              /\ UNCHANGED <<log, logged, answer>>
              /\ object'[r].id = object[r].id
            BY <2>2 DEF Authenticate, Identify, Raise, Goto, db, CallType, PcType, Remembered
        <3> QED
            BY <3>1, LogUnwritten DEF Profiled
    <2>3. CASE PreDispatch(r)
        <3>1. object[r] \in Remembered
            BY DEF CallType
        <3>2. /\ pc[r] = "pre_dispatch" /\ pc'[r] \in {"resolve_company", "handle_error"}
              /\ UNCHANGED <<log, logged, answer>>
              /\ object'[r].id = EnsureRequestId(object[r]).id
            <4> DEFINE o == EnsureRequestId(object[r])
            <4>1. o \in Remembered
                BY <3>1, EnsuredId
            <4>2. /\ pc[r] = "pre_dispatch" /\ UNCHANGED <<log, logged, answer>>
                  /\ \/ Goto(r, "resolve_company")
                        /\ object' = [object EXCEPT ![r] = [o EXCEPT !.rule = TRUE]]
                     \/ Goto(r, "handle_error") /\ object' = [object EXCEPT ![r] = o]
                BY <2>3 DEF PreDispatch, Raise, db
            <4> HIDE DEF o
            <4>3. pc'[r] \in {"resolve_company", "handle_error"}
                BY <4>2 DEF Goto, CallType, PcType
            <4>4. object'[r].id = o.id
                BY <4>1, <4>2 DEF CallType, Remembered
            <4> QED
                BY <4>2, <4>3, <4>4 DEF o
        <3> QED
            BY <3>1, <3>2, EnsuredId, LogUnwritten
    <2> QED
        BY <2>1, <2>2, <2>3
<1>2. ASSUME NEW s \in Request \ {r} PROVE LogInv(s)'
    BY <1>2, LogElsewhere DEF Arrive, Begin, Authenticate, Identify, PreDispatch, Goto, Raise, db,
       CallType, PcType
<1> QED
    BY <1>1, <1>2

\* What runs between the checks and the flush, fails or is rolled back writes no
\* row and leaves the id.
LEMMA LogAttempt ==
    ASSUME TypeOK, LogInvs, NEW r \in Request,
           \/ ResolveCompany(r) \/ Dispatch(r) \/ Update(r) \/ Constraint(r) \/ Conflict(r)
           \/ UpdateReadOnly(r) \/ Crash(r)
    PROVE  LogInvs'
<1> USE DEF LogInvs
<1> USE TypeParts
<1>1. /\ pc[r] \notin {"idle", "done", "lost"} /\ UNCHANGED <<log, logged, object, answer>>
      /\ \E l \in {"begin", "dispatch", "post_dispatch", "handle_error", "lost", pc[r]} :
           pc' = [pc EXCEPT ![r] = l]
      /\ pc'[r] \in Profiled => pc[r] \in Profiled
    BY DEF ResolveCompany, Dispatch, Update, Constraint, Conflict, UpdateReadOnly, Crash, Retry,
       ReadOnlyFailure, Flushing, Running, Goto, Raise, db, CallType, PcType, Profiled
<1>2. LogInv(r)'
    BY <1>1, LogUnwritten DEF LogInv, CallType, PcType
<1>3. ASSUME NEW s \in Request \ {r} PROVE LogInv(s)'
    BY <1>1, <1>3, LogElsewhere DEF CallType, PcType
<1> QED
    BY <1>2, <1>3

\* A row at the end of a log leaves those before it where they were.
LEMMA AppendRow ==
    ASSUME NEW rows \in Seq(Row), NEW row \in Row, NEW longer, longer = Append(rows, row)
    PROVE  /\ longer # <<>> /\ longer[Len(longer)] = row
           /\ \A i \in DOMAIN longer : longer[i] = row \/ (i \in DOMAIN rows /\ longer[i] = rows[i])
           /\ \A i \in 1 .. Len(longer) - 1 : i \in DOMAIN rows /\ longer[i] = rows[i]
<1>1. /\ Len(rows) \in Nat /\ Len(longer) = Len(rows) + 1
      /\ DOMAIN rows = 1 .. Len(rows) /\ DOMAIN longer = 1 .. Len(rows) + 1
      /\ longer[Len(rows) + 1] = row
      /\ \A i \in 1 .. Len(rows) : longer[i] = rows[i]
    OBVIOUS
<1> QED
    BY <1>1

\* The row of a success carries the id and comes after successes only.
LEMMA LogPostDispatch ==
    ASSUME TypeOK, LogInvs, NEW r \in Request, PostDispatch(r)
    PROVE  LogInvs'
<1> USE DEF LogInvs
<1> USE TypeParts
<1> DEFINE row == LogRow("ok", object[r])
<1>1. /\ pc[r] = "post_dispatch" /\ pc'[r] = "flush"
      /\ WriteLog(r, "ok", object[r]) /\ UNCHANGED <<object, answer>>
    BY DEF PostDispatch, Goto, CallType, PcType
<1>2. /\ log[r] \in Seq(Row) /\ row \in Row
      /\ \/ log'[r] = Append(log[r], row) /\ logged'[r]
         \/ log'[r] = log[r] /\ ~logged'[r]
      /\ \A s \in Request \ {r} : log'[s] = log[s] /\ logged'[s] = logged[s]
    BY <1>1, WriteLogTyped DEF DbType, CallType, Status
<1>3. row.status = "ok" /\ row.id = object[r].id /\ object[r].id # 0
    BY <1>1 DEF LogRow, LogInv, Profiled
<1> HIDE DEF row
<1>4. LogInv(r)'
    <2>1. CASE log'[r] = Append(log[r], row)
        <3>1. /\ log'[r] # <<>>
              /\ \A i \in DOMAIN log'[r] :
                    log'[r][i] = row \/ (i \in DOMAIN log[r] /\ log'[r][i] = log[r][i])
            BY <1>2, <2>1, AppendRow
        <3> QED
            BY <1>1, <1>3, <3>1 DEF LogInv, Profiled
    <2>2. CASE log'[r] = log[r] /\ ~logged'[r]
        BY <1>1, <1>3, <2>2 DEF LogInv, Profiled
    <2> QED
        BY <1>2, <2>1, <2>2
<1>5. ASSUME NEW s \in Request \ {r} PROVE LogInv(s)'
    BY <1>1, <1>2, <1>5, LogElsewhere DEF PostDispatch, Goto, CallType, PcType
<1> QED
    BY <1>4, <1>5

\* The answer of a success carries the id of the row that was written before it.
LEMMA LogCommit ==
    ASSUME TypeOK, LogInvs, NEW r \in Request, Commit(r)
    PROVE  LogInvs'
<1> USE DEF LogInvs
<1> USE TypeParts
<1>1. /\ pc[r] = "flush" /\ UNCHANGED <<log, logged, object>>
      /\ \/ pc'[r] = "done" /\ answer'[r] = [status |-> "ok", id |-> object[r].id]
         \/ pc'[r] = "lost" /\ answer' = answer
    BY DEF Commit, Goto, CallType, PcType
<1>2. /\ object[r].id # 0 /\ (logged[r] => log[r] # <<>>)
      /\ \A i \in DOMAIN log[r] : log[r][i].status = "ok" /\ log[r][i].id = object[r].id
    BY <1>1 DEF LogInv, Profiled
<1>3. /\ DOMAIN log[r] = 1 .. Len(log[r]) /\ Len(log[r]) \in Nat
      /\ log[r] # <<>> => Len(log[r]) \in DOMAIN log[r]
    BY DEF DbType
<1>4. LogInv(r)'
    BY <1>1, <1>2, <1>3 DEF LogInv, Profiled
<1>5. ASSUME NEW s \in Request \ {r} PROVE LogInv(s)'
    BY <1>1, <1>5, LogElsewhere DEF Commit, Goto, CallType, PcType
<1> QED
    BY <1>4, <1>5

\* The row of an exception tells what its answer does, after successes only.
LEMMA LogHandleError ==
    ASSUME TypeOK, LogInvs, NEW r \in Request, Unfinished(r), HandleError(r)
    PROVE  LogInvs'
<1> USE DEF LogInvs
<1> USE TypeParts
<1> DEFINE o == EnsureRequestId(object[r])
           row == LogRow(raised[r], o)
<1>1. /\ pc[r] = "handle_error" /\ WriteLog(r, raised[r], o)
      /\ object'[r] = o
      /\ \/ pc'[r] = "done" /\ answer'[r] = [status |-> raised[r], id |-> o.id]
         \/ pc'[r] = "lost" /\ answer' = answer
    BY DEF HandleError, Goto, CallType, PcType
<1>2. raised[r] \in Status /\ o \in Remembered /\ o.id # 0
      /\ (object[r].id # 0 => o.id = object[r].id)
    BY <1>1, EnsuredId DEF Unfinished, CallType
<1>3. /\ log[r] \in Seq(Row) /\ row \in Row
      /\ \/ log'[r] = Append(log[r], row) /\ logged'[r]
         \/ log'[r] = log[r] /\ ~logged'[r]
      /\ \A s \in Request \ {r} : log'[s] = log[s] /\ logged'[s] = logged[s]
    BY <1>1, <1>2, WriteLogTyped DEF DbType
<1>4. row.status = raised[r] /\ row.id = o.id
    BY DEF LogRow
<1>5. \A i \in DOMAIN log[r] : log[r][i].status = "ok" /\ log[r][i].id = o.id
    <2>1. ASSUME NEW i \in DOMAIN log[r] PROVE log[r] # <<>>
        BY <2>1
    <2> QED
        BY <1>1, <1>2, <2>1 DEF LogInv
<1> HIDE DEF o, row
<1>6. LogInv(r)'
    <2>1. CASE log'[r] = Append(log[r], row)
        <3>1. /\ log'[r] # <<>> /\ log'[r][Len(log'[r])] = row
              /\ \A i \in DOMAIN log'[r] :
                    log'[r][i] = row \/ (i \in DOMAIN log[r] /\ log'[r][i] = log[r][i])
              /\ \A i \in 1 .. Len(log'[r]) - 1 :
                    i \in DOMAIN log[r] /\ log'[r][i] = log[r][i]
            BY <1>3, <2>1, AppendRow
        <3> QED
            BY <1>1, <1>2, <1>4, <1>5, <3>1 DEF LogInv, Profiled
    <2>2. CASE log'[r] = log[r] /\ ~logged'[r]
        <3>1. \A i \in 1 .. Len(log[r]) - 1 : i \in DOMAIN log[r]
            BY <1>3
        <3> QED
            BY <1>1, <1>2, <1>5, <2>2, <3>1 DEF LogInv, Profiled
    <2> QED
        BY <1>3, <2>1, <2>2
<1>7. ASSUME NEW s \in Request \ {r} PROVE LogInv(s)'
    BY <1>1, <1>3, <1>7, LogElsewhere DEF HandleError, Goto, CallType, PcType
<1> QED
    BY <1>6, <1>7

\* Nothing beside the requests touches a log.
LEMMA LogOutside ==
    ASSUME LogInvs, Administer \/ UpdateOutside \/ Replicate \/ UNCHANGED vars
    PROVE  LogInvs'
    BY LogElsewhere DEF LogInvs, Administer, UpdateOutside, Replicate, vars, db

\* No step breaks what holds of any log.
LEMMA LogNext == TypeOK /\ ServeInvs /\ LogInvs /\ [Next]_vars => LogInvs'
<1> SUFFICES ASSUME TypeOK, ServeInvs, LogInvs, [Next]_vars PROVE LogInvs'
    OBVIOUS
<1>1. \A r \in Request : Unfinished(r)
    BY DEF ServeInvs, ServeInv
<1>2. ASSUME NEW r \in Request, Arrive(r) \/ RequestStep(r) \/ Crash(r)
      PROVE  LogInvs'
    BY <1>1, <1>2, LogChecks, LogAttempt, LogPostDispatch, LogCommit, LogHandleError DEF RequestStep
<1>3. CASE Administer \/ UpdateOutside \/ Replicate \/ UNCHANGED vars
    BY <1>3, LogOutside
<1> QED
    BY <1>2, <1>3 DEF Next

\* The invariant of the log in every behaviour.
LEMMA LogAlways == Spec => [](ServeInvs /\ LogInvs)
    BY TypeInit, ServeInit, LogInit, ServeNext, LogNext, PTL DEF Spec

\* One request id runs through every row of a request's log and its answer.
THEOREM IdIsOne == Spec => []OneRequestId
<1>1. ServeInvs /\ LogInvs => OneRequestId
    <2> SUFFICES ASSUME ServeInvs, LogInvs, NEW r \in Request
                 PROVE  /\ \A i \in DOMAIN log[r] : log[r][i].id = object[r].id
                        /\ answer[r].status # "none" =>
                             answer[r].id = object[r].id /\ answer[r].id # 0
        BY DEF OneRequestId
    <2>1. answer[r].status # "none" => pc[r] = "done"
        BY DEF ServeInvs, ServeInv, Unfinished, NoAnswer
    <2> QED
        BY <2>1 DEF LogInvs, LogInv
<1> QED
    BY <1>1, LogAlways, PTL

\* The last row of a request's log tells what the client was told, if it could be
\* written; those before it are successes that were rolled back.
THEOREM LogIsTrue == Spec => []LogTellsAnswer
<1>1. ServeInvs /\ LogInvs => LogTellsAnswer
    <2> SUFFICES ASSUME ServeInvs, LogInvs, NEW r \in Request, answer[r].status # "none"
                 PROVE  /\ logged[r] => /\ log[r] # <<>>
                                        /\ log[r][Len(log[r])].status = answer[r].status
                        /\ \A i \in 1 .. Len(log[r]) - 1 : log[r][i].status = "ok"
        BY DEF LogTellsAnswer
    <2>1. pc[r] = "done"
        BY DEF ServeInvs, ServeInv, Unfinished, NoAnswer
    <2> QED
        BY <2>1 DEF LogInvs, LogInv
<1> QED
    BY <1>1, LogAlways, PTL

----------------------------------------------------------------------------
(* What the rows of a log say of the caller and of the route *)

\* What a row, or an exception on its way to one, says of a call.
Names(row, q) ==
    /\ row.auth => q.route.auth = "ssi_rest"
    /\ q.route.auth = "ssi_rest" /\ ~row.auth => ~row.rule /\ row.status \in AuthFailure
    /\ ~row.rule => \/ row.status = "denied"
                    \/ q.route.auth = "ssi_rest" /\ row.status \in AuthFailure

\* Rows are written after pre_dispatch, but for the one of an error before it.
Routed(r) ==
    /\ \A i \in DOMAIN log[r] : ~log[r][i].rule =>
         Len(log[r]) = 1 /\ pc[r] \in {"done", "lost"}
    /\ pc[r] \notin {"done", "lost"} /\ ~object[r].rule => log[r] = <<>>
    /\ object[r].rule /\ call[r].route.auth = "ssi_rest" => object[r].auth

\* The request object remembers what any attempt passed.
NameInv(r) ==
    /\ \A i \in DOMAIN log[r] : Names(log[r][i], call[r])
    /\ Routed(r)
    /\ pc[r] = "idle" => log[r] = <<>> /\ ~object[r].auth /\ ~object[r].rule
    /\ object[r].auth => call[r].route.auth = "ssi_rest"
    /\ pc[r] \in Authenticated /\ call[r].route.auth = "ssi_rest" => object[r].auth
    /\ pc[r] \in Profiled => object[r].rule
    /\ pc[r] = "handle_error" => Names(LogRow(raised[r], object[r]), call[r])

NameInvs == \A r \in Request : NameInv(r)

\* A step that leaves a request, its log and what it remembers alone.
LEMMA NameElsewhere ==
    ASSUME NEW r \in Request, NameInv(r), pc'[r] = pc[r], log'[r] = log[r],
           call'[r] = call[r], object'[r] = object[r], raised'[r] = raised[r]
    PROVE  NameInv(r)'
    BY DEF NameInv, Names, LogRow, Routed

\* Every log is empty at first.
LEMMA NameInit == Init => NameInvs
    BY DEF Init, NameInvs, NameInv, Routed, Fresh, Authenticated, Profiled

\* The steps of an attempt that write no row.
LEMMA NameAttempt ==
    ASSUME TypeOK, ServeInvs, NameInvs, NEW r \in Request,
           \/ Arrive(r) \/ Begin(r) \/ Authenticate(r) \/ PreDispatch(r) \/ ResolveCompany(r)
           \/ Dispatch(r) \/ Update(r) \/ Constraint(r) \/ Conflict(r) \/ UpdateReadOnly(r)
           \/ Commit(r) \/ Crash(r)
    PROVE  NameInvs'
<1> USE DEF NameInvs
<1> USE TypeParts
<1>1. CASE Arrive(r)
    <2>1. /\ pc[r] = "idle" /\ pc'[r] = "begin" /\ UNCHANGED <<log, object, raised>>
        BY <1>1 DEF Arrive, Goto, db, CallType, PcType
    <2>2. NameInv(r)'
        <3>1. log[r] = <<>> /\ ~object[r].auth /\ ~object[r].rule
            BY <2>1 DEF NameInv
        <3>2. \A i \in DOMAIN log'[r] : FALSE
            BY <2>1, <3>1
        <3> QED
            BY <2>1, <3>1, <3>2 DEF NameInv, Routed, Authenticated, Profiled
    <2>3. ASSUME NEW s \in Request \ {r} PROVE NameInv(s)'
        BY <1>1, <2>1, <2>3, NameElsewhere DEF Arrive, Goto, CallType, PcType
    <2> QED
        BY <2>2, <2>3
<1>2. CASE Authenticate(r)
    <2>1. /\ pc[r] = "authenticate" /\ UNCHANGED <<log, call>>
          /\ \/ /\ call[r].route.auth = "ssi_rest" /\ pc'[r] = "handle_error"
                /\ raised'[r] \in AuthFailure /\ object' = object
             \/ /\ pc'[r] = "pre_dispatch" /\ raised' = raised
                /\ object'[r] = [object[r] EXCEPT !.auth = call[r].route.auth = "ssi_rest"]
        BY <1>2, FailuresAreStatus DEF Authenticate, Identify, Goto, Raise, db, CallType, PcType
    <2>2. NameInv(r)'
        <3>1. CASE pc'[r] = "handle_error"
            BY <2>1, <3>1 DEF NameInv, Routed, Names, LogRow, Authenticated, Profiled
        <3>2. CASE pc'[r] = "pre_dispatch"
            <4>1. /\ object'[r].auth => call[r].route.auth = "ssi_rest"
                  /\ call[r].route.auth = "ssi_rest" => object'[r].auth
                  /\ object'[r].rule = object[r].rule
                BY <2>1, <3>2 DEF CallType, Remembered
            <4> QED
                BY <2>1, <3>2, <4>1 DEF NameInv, Routed, Authenticated, Profiled, Names
        <3> QED
            BY <2>1, <3>1, <3>2
    <2>3. ASSUME NEW s \in Request \ {r} PROVE NameInv(s)'
        BY <1>2, <2>1, <2>3, NameElsewhere DEF Authenticate, Identify, Goto, Raise, CallType, PcType
    <2> QED
        BY <2>2, <2>3
<1>3. CASE PreDispatch(r)
    <2>1. object[r] \in Remembered
        BY DEF CallType
    <2>2. /\ pc[r] = "pre_dispatch" /\ UNCHANGED <<log, call>>
          /\ object'[r].auth = object[r].auth
          /\ \/ pc'[r] = "resolve_company" /\ raised' = raised /\ object'[r].rule
             \/ /\ pc'[r] = "handle_error" /\ raised'[r] = "denied"
                /\ object'[r].rule = object[r].rule
        <3> DEFINE o == EnsureRequestId(object[r])
                   with == [o EXCEPT !.rule = TRUE]
        <3>1. o \in Remembered /\ o.auth = object[r].auth /\ o.rule = object[r].rule
            BY <2>1, EnsuredId DEF EnsureRequestId, Remembered
        <3>2. with.auth = o.auth /\ with.rule
            BY <3>1 DEF Remembered
        <3>3. pc[r] = "pre_dispatch" /\ UNCHANGED <<log, call>>
            BY <1>3 DEF PreDispatch, db
        <3>4. \/ pc'[r] = "resolve_company" /\ raised' = raised /\ object'[r] = with
              \/ pc'[r] = "handle_error" /\ raised'[r] = "denied" /\ object'[r] = o
            BY <1>3 DEF PreDispatch, Goto, Raise, CallType, PcType
        <3> HIDE DEF o, with
        <3> QED
            BY <3>1, <3>2, <3>3, <3>4
    <2>3. NameInv(r)'
        <3>1. /\ pc[r] = "pre_dispatch" /\ log'[r] = log[r] /\ call'[r] = call[r]
              /\ object'[r].auth = object[r].auth
              /\ call[r].route.auth = "ssi_rest" => object[r].auth
              /\ pc'[r] \in {"resolve_company", "handle_error"}
              /\ pc'[r] = "resolve_company" => object'[r].rule
              /\ pc'[r] = "handle_error" =>
                   raised'[r] = "denied" /\ object'[r].rule = object[r].rule
            BY <2>2 DEF NameInv, Authenticated
        <3>2. Routed(r)'
            BY <3>1 DEF NameInv, Routed
        <3> QED
            BY <3>1, <3>2 DEF NameInv, Names, LogRow, Authenticated, Profiled
    <2>4. ASSUME NEW s \in Request \ {r} PROVE NameInv(s)'
        BY <1>3, <2>2, <2>4, NameElsewhere DEF PreDispatch, Goto, Raise, CallType, PcType
    <2> QED
        BY <2>3, <2>4
<1>4. CASE \/ Begin(r) \/ ResolveCompany(r) \/ Dispatch(r) \/ Update(r) \/ Constraint(r)
           \/ Conflict(r) \/ UpdateReadOnly(r) \/ Commit(r) \/ Crash(r)
    <2>1. /\ UNCHANGED <<log, object, call>>
          /\ \A s \in Request \ {r} : pc'[s] = pc[s] /\ raised'[s] = raised[s]
          /\ pc[r] \notin {"idle", "done", "lost"} /\ pc'[r] # "idle"
          /\ pc'[r] \in Profiled => pc[r] \in Profiled
          /\ pc'[r] \in Authenticated => pc[r] \in Authenticated
          /\ pc'[r] = "handle_error" => pc[r] \in Profiled
        BY <1>4 DEF Begin, ResolveCompany, Dispatch, Update, Constraint, Conflict,
           UpdateReadOnly, Commit, Crash, Retry, ReadOnlyFailure, Flushing, Running, Goto, Raise,
           db, CallType, PcType, Profiled, Authenticated
    <2>2. NameInv(r)'
        <3>1. Routed(r)'
            BY <2>1 DEF NameInv, Routed
        <3> QED
            BY <2>1, <3>1 DEF NameInv, Names, LogRow, Profiled, Authenticated
    <2>3. ASSUME NEW s \in Request \ {r} PROVE NameInv(s)'
        BY <2>1, <2>3, NameElsewhere
    <2> QED
        BY <2>2, <2>3
<1> QED
    BY <1>1, <1>2, <1>3, <1>4

\* A row that is written names what the request object remembers.
LEMMA NameRow ==
    ASSUME TypeOK, NEW r \in Request, NameInv(r), NEW status \in Status, NEW o \in Remembered,
           WriteLog(r, status, o), Names(LogRow(status, o), call[r])
    PROVE  /\ \A i \in DOMAIN log'[r] : Names(log'[r][i], call[r])
           /\ \A i \in DOMAIN log'[r] :
                log'[r][i].rule = o.rule \/ (i \in DOMAIN log[r] /\ log'[r][i] = log[r][i])
           /\ log[r] = <<>> => Len(log'[r]) <= 1
<1> USE TypeParts
<1> DEFINE row == LogRow(status, o)
<1>1. /\ log[r] \in Seq(Row) /\ row \in Row
      /\ log'[r] = Append(log[r], row) \/ log'[r] = log[r]
    BY WriteLogTyped DEF DbType
<1> HIDE DEF row
<1>2. CASE log'[r] = Append(log[r], row)
    <2>1. \A i \in DOMAIN log'[r] :
            log'[r][i] = row \/ (i \in DOMAIN log[r] /\ log'[r][i] = log[r][i])
        BY <1>1, <1>2, AppendRow
    <2>2. log[r] = <<>> => Len(log'[r]) <= 1
        BY <1>1, <1>2
    <2> QED
        BY <2>1, <2>2 DEF NameInv, row, LogRow
<1>3. CASE log'[r] = log[r]
    BY <1>3 DEF NameInv
<1> QED
    BY <1>1, <1>2, <1>3

\* The row of a success, and that of an exception.
LEMMA NameWritten ==
    ASSUME TypeOK, ServeInvs, NameInvs, NEW r \in Request, PostDispatch(r) \/ HandleError(r)
    PROVE  NameInvs'
<1> USE DEF NameInvs
<1> USE TypeParts
<1>1. CASE PostDispatch(r)
    <2>1. /\ pc[r] = "post_dispatch" /\ pc'[r] = "flush" /\ WriteLog(r, "ok", object[r])
          /\ UNCHANGED <<object, call, raised>>
        BY <1>1 DEF PostDispatch, Goto, CallType, PcType
    <2>2. Names(LogRow("ok", object[r]), call[r]) /\ object[r].rule
        BY <2>1 DEF NameInv, Names, LogRow, Authenticated, Profiled
    <2>3. \A i \in DOMAIN log'[r] :
            /\ Names(log'[r][i], call[r])
            /\ \/ log'[r][i].rule = object[r].rule
               \/ i \in DOMAIN log[r] /\ log'[r][i] = log[r][i]
        <3>1. "ok" \in Status /\ object[r] \in Remembered /\ NameInv(r)
            BY DEF CallType, Status
        <3> QED
            BY <2>1, <2>2, <3>1, NameRow, Zenon
    <2>4. NameInv(r)'
        <3>1. \A i \in DOMAIN log'[r] : log'[r][i].rule
            BY <2>1, <2>2, <2>3 DEF NameInv, Routed
        <3>2. Routed(r)'
            BY <2>1, <2>2, <3>1 DEF NameInv, Routed
        <3> QED
            BY <2>1, <2>3, <3>2 DEF NameInv, Authenticated, Profiled, Names
    <2>5. ASSUME NEW s \in Request \ {r} PROVE NameInv(s)'
        BY <1>1, <2>1, <2>5, NameElsewhere DEF PostDispatch, WriteLog, Goto, DbType, CallType, PcType
    <2> QED
        BY <2>4, <2>5
<1>2. CASE HandleError(r)
    <2> DEFINE o == EnsureRequestId(object[r])
    <2>1. /\ pc[r] = "handle_error" /\ pc'[r] \in {"done", "lost"}
          /\ WriteLog(r, raised[r], o)
          /\ object'[r] = o /\ call' = call
        BY <1>2 DEF HandleError, Goto, CallType, PcType
    <2>2. /\ o \in Remembered /\ o.auth = object[r].auth /\ o.rule = object[r].rule
          /\ raised[r] \in Status
        <3>1. object[r] \in Remembered /\ raised[r] \in Status
            BY <2>1 DEF CallType, ServeInvs, ServeInv, Unfinished
        <3> QED
            BY <3>1, EnsuredId DEF EnsureRequestId, Remembered
    <2> HIDE DEF o
    <2>3. Names(LogRow(raised[r], o), call[r])
        BY <2>1, <2>2 DEF NameInv, Names, LogRow
    <2>4. /\ \A i \in DOMAIN log'[r] :
               /\ Names(log'[r][i], call[r])
               /\ \/ log'[r][i].rule = o.rule
                  \/ i \in DOMAIN log[r] /\ log'[r][i] = log[r][i]
          /\ log[r] = <<>> => Len(log'[r]) <= 1
        BY <2>1, <2>2, <2>3, NameRow
    <2>5. NameInv(r)'
        <3>1. /\ ~o.rule => log[r] = <<>>
              /\ \A i \in DOMAIN log[r] : log[r][i].rule
            BY <2>1, <2>2 DEF NameInv, Routed
        <3>2. log'[r] \in Seq(Row)
            BY <2>1, <2>2, WriteLogTyped DEF DbType
        <3>3. \A i \in DOMAIN log'[r] : ~log'[r][i].rule => Len(log'[r]) = 1
            <4> SUFFICES ASSUME NEW i \in DOMAIN log'[r], ~log'[r][i].rule
                         PROVE  Len(log'[r]) = 1
                OBVIOUS
            <4>1. ~o.rule
                BY <2>4, <3>1, Zenon
            <4>2. Len(log'[r]) <= 1
                BY <2>4, <3>1, <4>1
            <4>3. DOMAIN log'[r] = 1 .. Len(log'[r]) /\ Len(log'[r]) \in Nat
                BY <3>2
            <4> DEFINE n == Len(log'[r])
            <4>4. n \in Nat /\ n <= 1 /\ i \in 1 .. n
                BY <4>2, <4>3
            <4> HIDE DEF n
            <4>5. n = 1
                BY <4>4
            <4> QED
                BY <4>5 DEF n
        <3>4. Routed(r)'
            BY <2>1, <2>2, <3>3 DEF NameInv, Routed
        <3> QED
            BY <2>1, <2>2, <2>4, <3>4 DEF NameInv, Authenticated, Profiled, Names
    <2>6. ASSUME NEW s \in Request \ {r} PROVE NameInv(s)'
        BY <1>2, <2>1, <2>6, NameElsewhere DEF HandleError, WriteLog, Goto, DbType, CallType, PcType
    <2> QED
        BY <2>5, <2>6
<1> QED
    BY <1>1, <1>2

\* No step breaks what the logs say of their requests.
LEMMA NameNext == TypeOK /\ ServeInvs /\ NameInvs /\ [Next]_vars => NameInvs'
<1> SUFFICES ASSUME TypeOK, ServeInvs, NameInvs, [Next]_vars PROVE NameInvs'
    OBVIOUS
<1>1. ASSUME NEW r \in Request, Arrive(r) \/ RequestStep(r) \/ Crash(r)
      PROVE  NameInvs'
    BY <1>1, NameAttempt, NameWritten DEF RequestStep
<1>2. CASE Administer \/ UpdateOutside \/ Replicate \/ UNCHANGED vars
    BY <1>2, NameElsewhere DEF NameInvs, Administer, UpdateOutside, Replicate, vars, db
<1> QED
    BY <1>1, <1>2 DEF Next

\* Every row names the scheme and the route of its request as far as any attempt
\* came, whatever the attempts left on the request object.
THEOREM RowsAreNamed == Spec => []RowsNameTheirRequest
<1>1. NameInvs => RowsNameTheirRequest
    BY DEF NameInvs, NameInv, Names, Routed, RowsNameTheirRequest
<1> QED
    BY <1>1, TypeInit, ServeInit, NameInit, ServeNext, NameNext, PTL DEF Spec

====

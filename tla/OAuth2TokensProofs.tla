---- MODULE OAuth2TokensProofs ----
(***************************************************************************)
(* Proofs about OAuth2Tokens, for every set of requests, clients and users *)
(* and every bound: what no step breaks, that it implements the ledger of  *)
(* credentials, that rows follow their parents, that a revocation is       *)
(* heeded and takes effect, and that answers tell what was stored.         *)
(***************************************************************************)
EXTENDS OAuth2Tokens, TLAPS

----------------------------------------------------------------------------
(* The inductive invariant *)

\* Calls name a client and a resource owner where their route needs one.
CallShaped(r) ==
    /\ call[r].op \in {"authorize", "revoke"} \cup GrantType =>
        call[r].client \in Client
    /\ call[r].op = "authorize" => call[r].user \in User

\* An attempt is only begun while one is left.
TriesLeft(r) == pc[r] \in {"idle", "begin"} => tries[r] < MaxTries

\* Outside a transaction nobody is beaten.
BeatenInside(r) == pc[r] \in {"idle", "begin"} => ~beaten[r]

\* A snapshot that shows a row shows one that was committed.
SnapshotStored(r) ==
    pc[r] \in {"handle", "issue", "flush", "commit"} /\ snap[r].row # "absent"
    => call[r].cred \in Stored

\* Who updates a row without looking at its state has seen it.
UpdateSeen(r) ==
    /\ pc[r] \in {"issue", "flush", "commit"}
    /\ call[r].op \in {"authorization_code", "action_revoke"}
    => snap[r].row # "absent"

\* A credential that was exchanged or refreshed was alive and of the right kind.
GrantStems(r) ==
    pc[r] \in {"issue", "flush", "commit"} =>
        /\ call[r].op \in Derives => snap[r].row = "live"
        /\ call[r].op = "authorization_code" => KindOf(call[r].cred) = "code"
        /\ call[r].op = "refresh_token" => KindOf(call[r].cred) = "refresh"

\* What a handler inserts stems from the credential the request presented.
Stems(r, row) ==
    /\ row \in Row
    /\ row.parent = IF call[r].op \in Derives THEN call[r].cred ELSE None

\* Nothing is drafted before the handler, everything after it.
DraftStems(r) ==
    /\ pc[r] \in {"idle", "begin", "handle"} => draft[r] = NoDraft
    /\ \A k \in Kind : draft[r][k] # NoRow => Stems(r, draft[r][k])
    /\ pc[r] \in {"flush", "commit"} =>
         \A k \in Issues(call[r].op) : draft[r][k] # NoRow

\* Only who issues is issuing.
IssuesSome(r) ==
    pc[r] = "issue" =>
        call[r].op \in {"authorize", "client_credentials"} \cup Derives

\* What holds of each request by itself.
RequestSound(r) ==
    /\ CallShaped(r)
    /\ TriesLeft(r)
    /\ BeatenInside(r)
    /\ SnapshotStored(r)
    /\ UpdateSeen(r)
    /\ GrantStems(r)
    /\ DraftStems(r)
    /\ IssuesSome(r)

\* A request has committed no row before it is over.
NotYetStored ==
    \A r \in Request, k \in Kind :
        <<r, k>> \in Stored => pc[r] \in {"done", "lost"}

\* The autovacuum found rows that were committed.
GcFoundStored == gc.found \subseteq Stored

\* An exchange that nobody has beaten to its code still finds it unrevoked.
CodeUnrevoked ==
    \A r \in Request :
        /\ call[r].op = "authorization_code"
        /\ snap[r].row = "live"
        /\ \/ pc[r] \in {"handle", "issue", "flush"} /\ ~beaten[r]
           \/ pc[r] = "commit"
        => call[r].cred \notin revoked

\* No two transactions hold the lock of one row.
LocksDisjoint ==
    \A r, s \in Request : r # s => Locked(r) \cap Locked(s) = {}

\* A code that tokens were issued from is revoked.
CodeConsumed ==
    \A t \in Stored :
        table[t].parent # None /\ KindOf(table[t].parent) = "code"
        => table[t].parent \in revoked

IInv ==
    /\ TypeOK
    /\ \A r \in Request : RequestSound(r)
    /\ NotYetStored
    /\ GcFoundStored
    /\ CodeUnrevoked
    /\ LocksDisjoint
    /\ CodeConsumed
    /\ CodeRedeemedOnce

----------------------------------------------------------------------------
(* Facts about rows *)

\* The absent row is no row.
LEMMA NoRowIsNoRow == NoRow \notin Row
BY ConstantsAssumption DEF NoRow, Row

\* A stored row has the fields of a row.
LEMMA StoredIsRow ==
    ASSUME TypeOK, NEW t \in Stored
    PROVE  t \in Token /\ table[t] \in Row
BY DEF TypeOK, Stored

\* A request updates at most the row of the credential it presented.
LEMMA UpdatesItsCredential ==
    ASSUME NEW r \in Request
    PROVE  Updates(r) \subseteq {call[r].cred}
BY DEF Updates

\* The rows a request issues are named after it.
LEMMA NewRowsAreTokens ==
    ASSUME NEW r \in Request
    PROVE  /\ NewRows(r) \subseteq Token
           /\ \A t \in NewRows(r) : t[1] = r
BY DEF NewRows, Issues, Token, Kind

\* The initial state satisfies the invariant.
LEMMA IInvInit == Init => IInv
<1> SUFFICES ASSUME Init PROVE IInv
  OBVIOUS
<1>1. Stored = {}
  BY DEF Init, Stored
<1>2. TypeOK
  <2>1. /\ NoCall \in Call \cup {NoCall} /\ NoSnapshot \in Snapshot
        /\ NoDraft \in [Kind -> Row \cup {NoRow}]
    BY DEF NoSnapshot, Snapshot, ClientState, NoDraft
  <2> QED
    BY <1>1, <2>1, ConstantsAssumption DEF Init, TypeOK, GcIdle, ClientState
<1>3. ASSUME NEW r \in Request PROVE RequestSound(r)
  <2>1. /\ pc[r] = "idle" /\ tries[r] = 0 /\ ~beaten[r] /\ draft[r] = NoDraft
        /\ call[r].op = "none"
    BY DEF Init, NoCall
  <2> QED
    BY <2>1, ConstantsAssumption DEF RequestSound, CallShaped, TriesLeft, BeatenInside,
       SnapshotStored, UpdateSeen, GrantStems, DraftStems, IssuesSome, GrantType, NoDraft
<1> QED
  BY <1>1, <1>2, <1>3 DEF Init, IInv, NotYetStored, GcFoundStored, GcIdle,
     CodeUnrevoked, LocksDisjoint, Locked, CodeConsumed, CodeRedeemedOnce

\* What a request in flush or commit has drafted is rows, one of each kind it issues.
LEMMA DraftedRows ==
    ASSUME IInv, NEW r \in Request, pc[r] \in {"flush", "commit"}, NEW t \in NewRows(r)
    PROVE  /\ t \in Token /\ t = <<r, KindOf(t)>> /\ KindOf(t) \in Issues(call[r].op)
           /\ KindOf(t) \in Kind
           /\ draft[r][KindOf(t)] \in Row /\ Stems(r, draft[r][KindOf(t)])
<1>1. /\ t \in Token /\ t = <<r, KindOf(t)>> /\ KindOf(t) \in Issues(call[r].op)
      /\ KindOf(t) \in Kind
  BY DEF NewRows, Issues, Token, Kind, KindOf
<1>2. Stems(r, draft[r][KindOf(t)])
  BY <1>1 DEF IInv, RequestSound, DraftStems
<1> QED
  BY <1>1, <1>2 DEF Stems

\* A commit adds the rows of its request and rewrites none.
LEMMA CommitStores ==
    ASSUME IInv, NEW r \in Request, Commit(r)
    PROVE  /\ Stored' = Stored \cup NewRows(r)
           /\ \A t \in Stored : t \notin NewRows(r) /\ table'[t] = table[t]
           /\ \A t \in NewRows(r) : /\ t \in Token /\ table'[t] = draft[r][KindOf(t)]
                                   /\ draft[r][KindOf(t)] \in Row
<1>1. pc[r] = "commit"
  BY DEF Commit
<1>2. \A t \in NewRows(r) : t \in Token /\ t[1] = r /\ draft[r][KindOf(t)] \in Row
  BY <1>1, DraftedRows, NewRowsAreTokens
<1>3. table' = [t \in Token |-> IF t \in NewRows(r) THEN draft[r][KindOf(t)] ELSE table[t]]
  BY DEF Commit
<1>4. \A t \in NewRows(r) : t \notin Stored
  <2>1. \A k \in Kind : <<r, k>> \notin Stored
    BY <1>1 DEF IInv, NotYetStored
  <2>2. \A t \in NewRows(r) : \E k \in Kind : t = <<r, k>>
    BY DEF NewRows, Issues, Kind
  <2> QED
    BY <2>1, <2>2
<1> QED
  BY <1>2, <1>3, <1>4, NoRowIsNoRow DEF Stored

\* What a snapshot can show of a row, and what it means.
LEMMA RowStateMeans ==
    ASSUME NEW t
    PROVE  /\ RowState(t) \in {"absent", "live", "revoked"}
           /\ RowState(t) # "absent" => t \in Stored
           /\ RowState(t) = "live" => t \notin revoked
BY DEF RowState, Visible

\* What a lagging replica can show of a row.
LEMMA ShownMeans ==
    ASSUME NEW r \in Request, NEW row \in Shown(r), behind \subseteq revoked \cup deleted,
           revoked \cup deleted \subseteq Stored
    PROVE  /\ row \in {"absent", "live", "revoked"}
           /\ row # "absent" => call[r].cred \in Stored
           /\ call[r].op # "read" => row = RowState(call[r].cred)
           /\ row = "live" => \/ call[r].cred \notin revoked \cup deleted
                              \/ call[r].op = "read" /\ call[r].cred \in behind
<1>1. /\ RowState(call[r].cred) \in {"absent", "live", "revoked"}
      /\ RowState(call[r].cred) # "absent" => call[r].cred \in Stored
      /\ RowState(call[r].cred) = "live" => call[r].cred \notin revoked \cup deleted
  BY DEF RowState, Visible
<1>2. CASE call[r].op # "read"
  BY <1>1, <1>2 DEF Shown
<1>3. CASE call[r].op = "read"
  <2>1. \/ row \in {RowState(call[r].cred), "absent"}
        \/ row = "live" /\ call[r].cred \in behind
    BY <1>3 DEF Shown, ReplicaStates
  <2> QED
    BY <1>1, <1>3, <2>1
<1> QED
  BY <1>2, <1>3

\* Every call a caller can make has the fields of a call.
LEMMA CallsAreCalls == Calls \subseteq Call
<1> SUFFICES ASSUME NEW q \in Calls PROVE q \in Call
  OBVIOUS
<1>1. Stored \subseteq Token
  BY DEF Stored
<1>2. \A S : (Faults \cap S) \cup {"none"} \subseteq Fault \cup {"none"}
  BY ConstantsAssumption
<1>3. /\ q.op \in Op /\ q.client \in Client \cup {None}
      /\ q.user \in User \cup {None} /\ q.scope \in SUBSET Scope
      /\ q.cred \in Token \cup {None} /\ q.fault \in Fault \cup {"none"}
  BY <1>1, <1>2 DEF Calls, Op, GrantType
<1>4. q = [op |-> q.op, client |-> q.client, user |-> q.user,
           scope |-> q.scope, cred |-> q.cred, fault |-> q.fault]
  BY DEF Calls
<1> QED
  BY <1>3, <1>4 DEF Call

\* A granted request inserts rows of the right shape and the right origin.
LEMMA IssueStems ==
    ASSUME IInv, NEW r \in Request, pc[r] = "issue"
    PROVE  Stems(r, Issue(r)) /\ Issue(r) # NoRow
<1> DEFINE q == call[r]
<1>1. q.op \in {"authorize", "client_credentials"} \cup Derives
  BY DEF IInv, RequestSound, IssuesSome
<1>2. q \in Call
  <2>1. q \in Call \cup {NoCall}
    BY DEF IInv, TypeOK
  <2> QED
    BY <1>1, <2>1 DEF NoCall, Derives
<1>3. now \in Nat /\ granted[r] \in Nat
  BY DEF IInv, TypeOK
<1>4. q.client \in Client /\ q.scope \in SUBSET Scope
  BY <1>1, <1>2 DEF IInv, RequestSound, CallShaped, GrantType, Call, Derives
<1>5. ClientScope[q.client] \in SUBSET Scope
  BY <1>4, ConstantsAssumption
<1>6. q.op = "authorize" => q.user \in User
  BY DEF IInv, RequestSound, CallShaped
<1>7. q.op \in Derives => q.cred \in Token /\ table[q.cred] \in Row
  <2>1. q.op \in Derives => q.cred \in Stored
    BY DEF IInv, RequestSound, GrantStems, SnapshotStored
  <2> QED
    BY <2>1, StoredIsRow DEF IInv
<1>8. /\ Issue(r).client \in Client /\ Issue(r).granted \in Nat /\ Issue(r).at \in Nat
      /\ Issue(r).parent = IF q.op \in Derives THEN q.cred ELSE None
  BY <1>3, <1>4 DEF Issue
<1>9. Issue(r).user \in User \cup {None}
  BY <1>1, <1>6, <1>7 DEF Issue, Row, Derives
<1>10. Issue(r).scope \in SUBSET Scope
  BY <1>1, <1>4, <1>5, <1>7 DEF Issue, Row, Derives
<1>11. Issue(r).parent \in Token \cup {None}
  BY <1>7, <1>8
<1>12. Issue(r) = [client |-> Issue(r).client, user |-> Issue(r).user,
                   scope |-> Issue(r).scope, parent |-> Issue(r).parent,
                   granted |-> Issue(r).granted, at |-> Issue(r).at]
  BY DEF Issue
<1>13. Issue(r) \in Row
  BY <1>8, <1>9, <1>10, <1>11, <1>12 DEF Row
<1> QED
  BY <1>8, <1>13, NoRowIsNoRow DEF Stems

----------------------------------------------------------------------------
(* Every step preserves the invariant *)

\* What a transaction updates was stored when it saw it.
LEMMA UpdatesAreStored ==
    ASSUME IInv, NEW r \in Request, pc[r] \in {"flush", "commit"}
    PROVE  Updates(r) \subseteq Stored
BY DEF IInv, RequestSound, UpdateSeen, SnapshotStored, Updates, LookupForRevoke

\* Every step keeps the types.
LEMMA StepTypeOK == IInv /\ [Next]_vars => TypeOK'
<1> SUFFICES ASSUME IInv, [Next]_vars PROVE TypeOK'
  OBVIOUS
<1> USE DEF IInv
<1>0. NoSnapshot \in Snapshot /\ NoDraft \in [Kind -> Row \cup {NoRow}]
  BY DEF NoSnapshot, Snapshot, ClientState, NoDraft
<1>1. CASE UNCHANGED vars
  BY <1>1 DEF TypeOK, Stored, vars, db, tokens, local
<1>2. ASSUME NEW r \in Request, Arrive(r) PROVE TypeOK'
  <2>1. PICK q \in Calls : call' = [call EXCEPT ![r] = q]
    BY <1>2 DEF Arrive
  <2>2. q \in Call
    BY CallsAreCalls
  <2> QED
    BY <1>2, <2>1, <2>2 DEF Arrive, TypeOK, Stored, db, tokens, local
<1>3. ASSUME NEW r \in Request, Begin(r) PROVE TypeOK'
  <2>1. tries[r] + 1 \in 0 .. MaxTries
    BY <1>3, ConstantsAssumption DEF Begin, RequestSound, TriesLeft, TypeOK
  <2>2. PICK row \in Shown(r) :
            snap' = [snap EXCEPT ![r] = [row |-> row, client |-> ClientRow(call[r].client),
                                         user |-> call[r].user \notin departed]]
    BY <1>3 DEF Begin
  <2>3. row \in {"absent", "live", "revoked"}
    BY ShownMeans DEF TypeOK
  <2>4. ClientRow(call[r].client) \in ClientState
    BY DEF ClientRow, ClientState, TypeOK
  <2>5. [row |-> row, client |-> ClientRow(call[r].client),
         user |-> call[r].user \notin departed] \in Snapshot
    BY <2>3, <2>4 DEF Snapshot
  <2> QED
    BY <1>3, <2>1, <2>2, <2>5 DEF Begin, TypeOK, Stored, db, tokens
<1>4. ASSUME NEW r \in Request, Refuse(r) PROVE TypeOK'
  BY <1>0, <1>4 DEF Refuse, Close, TypeOK, Stored, db, tokens
<1>5. ASSUME NEW r \in Request, Handle(r) \/ Insert(r) PROVE TypeOK'
  <2>1. CASE Handle(r)
    BY <2>1 DEF Handle, TypeOK, Stored, db, tokens
  <2>2. CASE Insert(r)
    <3>1. Issue(r) \in Row
      BY <2>2, IssueStems DEF Insert, Stems
    <3>2. PICK k \in Pending(r) :
              /\ draft' = [draft EXCEPT ![r][k] = Issue(r)]
              /\ pc' = [pc EXCEPT ![r] = IF Pending(r) = {k} THEN "flush" ELSE "issue"]
      BY <2>2 DEF Insert
    <3>3. k \in Kind
      BY DEF Pending, Issues, Kind
    <3>4. draft' \in [Request -> [Kind -> Row \cup {NoRow}]]
      BY <3>1, <3>2, <3>3 DEF TypeOK
    <3> QED
      BY <2>2, <3>2, <3>4 DEF Insert, TypeOK, Stored, db, tokens
  <2> QED
    BY <1>5, <2>1, <2>2
<1>6. ASSUME NEW r \in Request, Retry(r) PROVE TypeOK'
  <2>1. \E to \in {"begin", "done"} : Close(r, to)
    BY <1>6 DEF Retry
  <2>2. /\ pc' \in [Request -> {"idle", "begin", "handle", "issue", "flush", "commit",
                                "done", "lost"}]
        /\ snap' \in [Request -> Snapshot]
        /\ granted' \in [Request -> Nat]
        /\ draft' \in [Request -> [Kind -> Row \cup {NoRow}]]
    BY <1>0, <2>1 DEF Close, TypeOK
  <2>3. answer' \in [Request -> {"none", "ok", "refused", "error"}]
    BY <1>6 DEF Retry, TypeOK
  <2> QED
    BY <1>6, <2>2, <2>3 DEF Retry, TypeOK, Stored, db, tokens
<1>7. ASSUME NEW r \in Request, Flush(r) PROVE TypeOK'
  BY <1>7 DEF Flush, TypeOK, Stored, db, tokens, local
<1>8. ASSUME NEW r \in Request, Commit(r) PROVE TypeOK'
  <2>1. Stored' = Stored \cup NewRows(r)
    BY <1>8, CommitStores
  <2>2. Updates(r) \subseteq Stored
    BY <1>8, UpdatesAreStored DEF Commit
  <2>3. table' \in [Token -> Row \cup {NoRow}]
    BY <1>8, CommitStores DEF Commit, TypeOK
  <2>4. /\ pc' \in [Request -> {"idle", "begin", "handle", "issue", "flush", "commit",
                                "done", "lost"}]
        /\ snap' \in [Request -> Snapshot]
        /\ draft' \in [Request -> [Kind -> Row \cup {NoRow}]]
        /\ granted' \in [Request -> Nat]
        /\ answer' \in [Request -> {"none", "ok", "refused", "error"}]
    <3>1. CASE Close(r, "done") /\ answer' = [answer EXCEPT ![r] = "ok"]
      BY <1>0, <3>1 DEF Close, TypeOK
    <3>2. CASE Close(r, "lost") /\ UNCHANGED answer
      BY <1>0, <3>2 DEF Close, TypeOK
    <3> QED
      BY <1>8, <3>1, <3>2 DEF Commit
  <2>5. /\ beaten' \in [Request -> BOOLEAN]
        /\ gc' \in [found : SUBSET Token, beaten : BOOLEAN]
        /\ behind' \subseteq revoked' \cup deleted'
    BY <1>8 DEF Commit, Beat, Lag, TypeOK
  <2> QED
    BY <1>8, <2>1, <2>2, <2>3, <2>4, <2>5 DEF Commit, TypeOK
<1>9. ASSUME NEW r \in Request, Crash(r) PROVE TypeOK'
  BY <1>0, <1>9 DEF Crash, Close, TypeOK, Stored, db, tokens
<1>10. CASE Tick
  BY <1>10 DEF Tick, TypeOK, Stored, db, tokens, local
<1>11. CASE GcSearch \/ GcConflict
  <2>1. gc' \in [found : SUBSET Token, beaten : BOOLEAN]
    <3>1. {t \in Visible : Expires(t) < now} \subseteq Token
      BY DEF Visible, Stored
    <3>2. CASE GcSearch
      BY <3>1, <3>2 DEF GcSearch, TypeOK
    <3>3. CASE GcConflict
      BY <3>3 DEF GcConflict, GcIdle
    <3> QED
      BY <1>11, <3>2, <3>3
  <2> QED
    BY <1>11, <2>1 DEF GcSearch, GcConflict, TypeOK, Stored, db, tokens, local
<1>12. CASE GcUnlink
  <2>1. gc' \in [found : SUBSET Token, beaten : BOOLEAN]
    BY <1>12 DEF GcUnlink, GcIdle
  <2>2. gc.found \subseteq Stored
    BY DEF GcFoundStored
  <2> QED
    BY <1>12, <2>1, <2>2 DEF GcUnlink, Delete, Lag, Beat, TypeOK, Stored, local
<1>13. ASSUME NEW c \in Administered \cap Client, ToggleClient(c) PROVE TypeOK'
  BY <1>13 DEF ToggleClient, TypeOK, Stored, tokens, local, ClientState
<1>14. ASSUME NEW c \in Administered \cap Client, UnlinkClient(c) PROVE TypeOK'
  <2>1. clients' \in [Client -> ClientState \ {"unknown"}]
    BY <1>14 DEF UnlinkClient, TypeOK, ClientState
  <2> QED
    BY <1>14, <2>1 DEF UnlinkClient, Delete, Lag, Beat, BeatGc, TypeOK, Stored, Visible, local
<1>15. ASSUME NEW u \in Administered \cap User, UnlinkUser(u) PROVE TypeOK'
  BY <1>15 DEF UnlinkUser, Delete, Lag, Beat, BeatGc, TypeOK, Stored, Visible, local
<1>16. ASSUME NEW u \in Administered \cap User, UnlinkOwn(u) PROVE TypeOK'
  <2>1. PICK t \in Visible : unlinked' = unlinked \cup {t} /\ Delete({t}) /\ BeatGc({t})
    BY <1>16 DEF UnlinkOwn
  <2>2. /\ deleted' = deleted \cup {t} /\ t \in Stored
        /\ behind' = behind \/ behind' = behind \cup ({t} \ (revoked \cup deleted))
    BY <2>1 DEF Delete, Lag, Visible
  <2>3. beaten' \in [Request -> BOOLEAN] /\ gc' \in [found : SUBSET Token, beaten : BOOLEAN]
    BY <2>1 DEF Delete, Beat, BeatGc, TypeOK
  <2> QED
    BY <1>16, <2>1, <2>2, <2>3 DEF UnlinkOwn, TypeOK, Stored, local
<1>17. ASSUME NEW t \in Token, Replicate(t) PROVE TypeOK'
  BY <1>17 DEF Replicate, TypeOK, Stored, local
<1> QED
  BY <1>1, <1>2, <1>3, <1>4, <1>5, <1>6, <1>7, <1>8, <1>9, <1>10, <1>11, <1>12,
     <1>13, <1>14, <1>15, <1>16, <1>17
  DEF Next, RequestStep, InsertConflict, UpdateConflict, Idle

\* Rows are never forgotten, and those stored keep what they hold.
LEMMA RowsStay ==
    ASSUME IInv, [Next]_vars
    PROVE  /\ Stored \subseteq Stored'
           /\ \A t \in Stored : table'[t] = table[t]
<1>1. CASE \E r \in Request : Commit(r)
  BY <1>1, CommitStores
<1>2. CASE table' = table
  BY <1>2 DEF Stored
<1>3. [Next]_vars => (\E r \in Request : Commit(r)) \/ table' = table
  BY DEF Next, vars, RequestStep, Arrive, Begin, Refuse, Handle, Insert, InsertConflict,
     UpdateConflict, Retry, Flush, Crash, Tick, GcSearch, GcUnlink, GcConflict,
     ToggleClient, UnlinkClient, UnlinkUser, UnlinkOwn, Replicate, Idle, db, tokens
<1> QED
  BY <1>1, <1>2, <1>3

\* What a step does to a request it is not about: its own state stays, and its
\* flag can only rise, when a row it updates is written.
Bystander(r) ==
    /\ pc'[r] = pc[r] /\ call'[r] = call[r] /\ tries'[r] = tries[r]
    /\ snap'[r] = snap[r] /\ draft'[r] = draft[r] /\ granted'[r] = granted[r]
    /\ beaten[r] => beaten'[r]
    /\ pc[r] \in {"idle", "begin"} /\ ~beaten[r] => ~beaten'[r]

\* Every step is about one request at most.
LEMMA StepIsAboutOne ==
    ASSUME IInv, [Next]_vars
    PROVE  \/ \E r \in Request :
                /\ Arrive(r) \/ RequestStep(r) \/ Crash(r)
                /\ \A s \in Request \ {r} : Bystander(s)
           \/ \A s \in Request : Bystander(s)
<1> USE DEF IInv
<1>1. ASSUME NEW r \in Request, Arrive(r) \/ RequestStep(r) \/ Crash(r)
      PROVE  \A s \in Request \ {r} : Bystander(s)
  <2>1. CASE Arrive(r)
    BY <2>1 DEF Arrive, Bystander, TypeOK, local
  <2>2. CASE Begin(r)
    BY <2>2 DEF Begin, Bystander, TypeOK
  <2>3. CASE Refuse(r)
    BY <2>3 DEF Refuse, Close, Bystander, TypeOK
  <2>4. CASE Handle(r) \/ Insert(r)
    BY <2>4 DEF Handle, Insert, Bystander, TypeOK
  <2>5. CASE Retry(r)
    <3>1. \E to \in {"begin", "done"} : Close(r, to)
      BY <2>5 DEF Retry
    <3> QED
      BY <2>5, <3>1 DEF Retry, Close, Bystander, TypeOK
  <2>6. CASE Flush(r)
    BY <2>6 DEF Flush, Bystander, TypeOK, local
  <2>7. CASE Commit(r)
    <3>1. \E to \in {"done", "lost"} : Close(r, to)
      BY <2>7 DEF Commit
    <3>2. call' = call /\ tries' = tries /\ Beat(Updates(r))
      BY <2>7 DEF Commit
    <3> QED
      BY <3>1, <3>2 DEF Close, Beat, Bystander, TypeOK
  <2>8. CASE Crash(r)
    BY <2>8 DEF Crash, Close, Bystander, TypeOK
  <2> QED
    BY <1>1, <2>1, <2>2, <2>3, <2>4, <2>5, <2>6, <2>7, <2>8
    DEF RequestStep, InsertConflict, UpdateConflict
<1>2. ASSUME \/ \E c \in Administered : ToggleClient(c) \/ UnlinkClient(c)
             \/ \E u \in Administered : UnlinkUser(u) \/ UnlinkOwn(u)
             \/ \E t \in Token : Replicate(t)
             \/ Tick \/ GcSearch \/ GcUnlink \/ GcConflict \/ Idle
             \/ UNCHANGED vars
      PROVE  \A s \in Request : Bystander(s)
  <2>1. pc' = pc /\ call' = call /\ local' = local
    BY <1>2 DEF ToggleClient, UnlinkClient, UnlinkUser, UnlinkOwn, Replicate, Tick, GcSearch,
       GcUnlink, GcConflict, Idle, vars, local
  <2>2. beaten' = beaten \/ \E rows : Beat(rows)
    BY <1>2 DEF ToggleClient, UnlinkClient, UnlinkUser, UnlinkOwn, Replicate, Delete, Tick,
       GcSearch, GcUnlink, GcConflict, Idle, vars
  <2>3. CASE beaten' = beaten
    BY <2>1, <2>3 DEF Bystander, local
  <2>4. ASSUME NEW rows, Beat(rows) PROVE \A s \in Request : Bystander(s)
    BY <2>1, <2>4 DEF Beat, Bystander, local
  <2> QED
    BY <2>2, <2>3, <2>4
<1> QED
  BY <1>1, <1>2 DEF Next

\* A request's own step keeps what was asked, its attempts and what it has seen.
LEMMA OwnStepKeeps ==
    ASSUME IInv, [Next]_vars, NEW r \in Request,
           Arrive(r) \/ RequestStep(r) \/ Crash(r)
    PROVE  /\ CallShaped(r)' /\ TriesLeft(r)' /\ BeatenInside(r)'
           /\ SnapshotStored(r)' /\ UpdateSeen(r)'
<1> USE DEF IInv
<1>0. RequestSound(r)
  OBVIOUS
<1>1. CASE Arrive(r)
  <2>1. PICK q \in Calls : call' = [call EXCEPT ![r] = q]
    BY <1>1 DEF Arrive
  <2>2. /\ q.op \in {"authorize", "revoke"} \cup GrantType => q.client \in Client
        /\ q.op = "authorize" => q.user \in User
    BY DEF Calls, GrantType
  <2> QED
    BY <1>0, <1>1, <2>1, <2>2 DEF Arrive, RequestSound, CallShaped, TriesLeft,
       BeatenInside, SnapshotStored, UpdateSeen, TypeOK, local
<1>2. CASE Begin(r)
  <2>1. Stored' = Stored
    BY <1>2 DEF Begin, db, tokens, Stored
  <2>2. snap'[r].row # "absent" => call[r].cred \in Stored
    BY <1>2, ShownMeans DEF Begin, TypeOK
  <2> QED
    BY <1>0, <1>2, <2>1, <2>2 DEF Begin, RequestSound, CallShaped, TriesLeft,
       BeatenInside, SnapshotStored, UpdateSeen, TypeOK
<1>3. CASE Refuse(r)
  BY <1>0, <1>3 DEF Refuse, Close, RequestSound, CallShaped, TriesLeft,
     BeatenInside, SnapshotStored, UpdateSeen, TypeOK
<1>4. CASE Handle(r)
  <2>1. Stored' = Stored
    BY <1>4 DEF Handle, db, tokens, Stored
  <2>2. call[r].op \in {"authorization_code", "action_revoke"}
        => snap[r].row # "absent"
    BY <1>4 DEF Handle, Granted, TokenGranted, ExchangeGranted, Lookup,
       ActionRevokeGranted, GrantType
  <2> QED
    BY <1>0, <1>4, <2>1, <2>2 DEF Handle, RequestSound, CallShaped,
       TriesLeft, BeatenInside, SnapshotStored, UpdateSeen, TypeOK
<1>5. CASE Retry(r)
  <2>1. CASE tries[r] < MaxTries
    BY <1>0, <1>5, <2>1 DEF Retry, Close, RequestSound, CallShaped, TriesLeft,
       BeatenInside, SnapshotStored, UpdateSeen, TypeOK
  <2>2. CASE ~(tries[r] < MaxTries)
    BY <1>0, <1>5, <2>2 DEF Retry, Close, RequestSound, CallShaped, TriesLeft,
       BeatenInside, SnapshotStored, UpdateSeen, TypeOK
  <2> QED
    BY <2>1, <2>2
<1>6. CASE Flush(r) \/ Insert(r)
  <2>1. /\ pc[r] \in {"issue", "flush"} /\ pc'[r] \in {"issue", "flush", "commit"}
        /\ call' = call /\ snap' = snap /\ Stored' = Stored
    BY <1>6 DEF Flush, Insert, TypeOK, local, db, tokens, Stored
  <2> QED
    BY <1>0, <2>1 DEF RequestSound, CallShaped, TriesLeft, BeatenInside, SnapshotStored,
       UpdateSeen
<1>7. CASE Commit(r)
  <2>1. pc'[r] \in {"done", "lost"} /\ call' = call /\ tries' = tries
    BY <1>7 DEF Commit, Close, TypeOK
  <2> QED
    BY <1>0, <2>1 DEF RequestSound, CallShaped, TriesLeft, BeatenInside,
       SnapshotStored, UpdateSeen
<1>8. CASE Crash(r)
  BY <1>0, <1>8 DEF Crash, Close, RequestSound, CallShaped, TriesLeft,
     BeatenInside, SnapshotStored, UpdateSeen, TypeOK
<1> QED
  BY <1>1, <1>2, <1>3, <1>4, <1>5, <1>6, <1>7, <1>8
  DEF RequestStep, InsertConflict, UpdateConflict

\* A request's own step keeps what it was granted for and what it has drafted.
LEMMA OwnStepDrafts ==
    ASSUME IInv, [Next]_vars, NEW r \in Request,
           Arrive(r) \/ RequestStep(r) \/ Crash(r)
    PROVE  GrantStems(r)' /\ DraftStems(r)' /\ IssuesSome(r)'
<1> USE DEF IInv
<1>0. GrantStems(r) /\ DraftStems(r) /\ IssuesSome(r)
  BY DEF RequestSound
<1>1. CASE Arrive(r) \/ Begin(r)
  <2>1. /\ pc[r] \in {"idle", "begin"} /\ pc'[r] \in {"begin", "handle"} /\ draft' = draft
    BY <1>1 DEF Arrive, Begin, TypeOK, local
  <2>2. draft'[r] = NoDraft
    BY <1>0, <2>1 DEF DraftStems
  <2> QED
    BY <2>1, <2>2 DEF GrantStems, DraftStems, IssuesSome, NoDraft
<1>2. CASE Refuse(r) \/ Retry(r) \/ Commit(r) \/ Crash(r)
  <2>1. pc'[r] \in {"begin", "done", "lost"} /\ draft'[r] = NoDraft
    BY <1>2 DEF Refuse, Retry, Commit, Crash, Close, TypeOK
  <2> QED
    BY <2>1 DEF GrantStems, DraftStems, IssuesSome, NoDraft
<1>3. CASE Handle(r)
  <2>1. /\ pc[r] = "handle" /\ Granted(r) /\ call' = call /\ snap' = snap /\ draft' = draft
        /\ pc'[r] = IF NewRows(r) = {} THEN "flush" ELSE "issue"
    BY <1>3 DEF Handle, TypeOK
  <2>2. draft'[r] = NoDraft
    BY <1>0, <2>1 DEF DraftStems
  <2>3. NewRows(r) = {} => Issues(call[r].op) = {}
    <3>1. \A k \in Issues(call[r].op) : <<r, k>> \in NewRows(r)
      BY DEF NewRows
    <3> QED
      BY <3>1
  <2>4. NewRows(r) # {} => call[r].op \in {"authorize", "client_credentials"} \cup Derives
    BY DEF NewRows, Issues, Derives
  <2>5. /\ call[r].op \in Derives => snap[r].row = "live"
        /\ call[r].op = "authorization_code" => KindOf(call[r].cred) = "code"
        /\ call[r].op = "refresh_token" => KindOf(call[r].cred) = "refresh"
    BY <2>1 DEF Granted, TokenGranted, ExchangeGranted, RefreshGranted, Lookup, GrantType,
       Derives
  <2>6. DraftStems(r)'
    <3>1. pc'[r] = "flush" => Issues(call'[r].op) = {}
      BY <2>1, <2>3
    <3> QED
      BY <2>1, <2>2, <3>1 DEF DraftStems, NoDraft
  <2> QED
    BY <2>1, <2>4, <2>5, <2>6 DEF GrantStems, IssuesSome
<1>4. CASE Insert(r)
  <2>1. PICK k \in Pending(r) :
            /\ draft' = [draft EXCEPT ![r][k] = Issue(r)]
            /\ pc' = [pc EXCEPT ![r] = IF Pending(r) = {k} THEN "flush" ELSE "issue"]
    BY <1>4 DEF Insert
  <2>2. pc[r] = "issue" /\ call' = call /\ snap' = snap
    BY <1>4 DEF Insert
  <2>3. k \in Issues(call[r].op) /\ k \in Kind
    BY DEF Pending, Issues, Kind
  <2>4. Stems(r, Issue(r)) /\ Issue(r) # NoRow
    BY <2>2, IssueStems
  <2>5. /\ draft'[r][k] = Issue(r)
        /\ \A j \in Kind : j # k => draft'[r][j] = draft[r][j]
    BY <2>1, <2>3 DEF TypeOK
  <2>6. \A j \in Kind : draft'[r][j] # NoRow => Stems(r, draft'[r][j])
    BY <1>0, <2>4, <2>5 DEF DraftStems
  <2>7. pc'[r] = "flush" => \A j \in Issues(call[r].op) : draft'[r][j] # NoRow
    <3> SUFFICES ASSUME Pending(r) = {k}, NEW j \in Issues(call[r].op)
                 PROVE  draft'[r][j] # NoRow
      BY <2>1, <2>2 DEF TypeOK
    <3>1. j \in Kind
      BY DEF Issues, Kind
    <3>2. j = k \/ draft[r][j] # NoRow
      BY DEF Pending
    <3> QED
      BY <2>4, <2>5, <3>1, <3>2
  <2>8. pc'[r] \in {"issue", "flush"}
    BY <2>1 DEF TypeOK
  <2>9. \A row : Stems(r, row)' <=> Stems(r, row)
    BY <2>2 DEF Stems
  <2>10. DraftStems(r)'
    BY <2>2, <2>6, <2>7, <2>8, <2>9 DEF DraftStems, Stems
  <2> QED
    BY <1>0, <2>2, <2>8, <2>10 DEF GrantStems, IssuesSome
<1>5. CASE Flush(r)
  <2>1. pc[r] = "flush" /\ pc'[r] = "commit" /\ call' = call /\ snap' = snap /\ draft' = draft
    BY <1>5 DEF Flush, TypeOK, local
  <2> QED
    BY <1>0, <2>1 DEF GrantStems, DraftStems, IssuesSome, Stems
<1> QED
  BY <1>1, <1>2, <1>3, <1>4, <1>5 DEF RequestStep, InsertConflict, UpdateConflict

\* Every request stays sound.
LEMMA StepSound ==
    IInv /\ [Next]_vars => \A s \in Request : RequestSound(s)'
<1> SUFFICES ASSUME IInv, [Next]_vars, NEW s \in Request PROVE RequestSound(s)'
  OBVIOUS
<1>1. CASE Bystander(s)
  <2>1. /\ pc'[s] = pc[s] /\ call'[s] = call[s] /\ snap'[s] = snap[s] /\ draft'[s] = draft[s]
        /\ tries'[s] = tries[s] /\ RequestSound(s)
    BY <1>1 DEF Bystander, IInv
  <2>2. GrantStems(s)' /\ DraftStems(s)' /\ IssuesSome(s)'
    BY <2>1 DEF RequestSound, GrantStems, DraftStems, IssuesSome, Stems
  <2> QED
    BY <1>1, <2>1, <2>2, RowsStay DEF Bystander, RequestSound, CallShaped, TriesLeft,
       BeatenInside, SnapshotStored, UpdateSeen
<1>2. CASE Arrive(s) \/ RequestStep(s) \/ Crash(s)
  BY <1>2, OwnStepKeeps, OwnStepDrafts DEF RequestSound
<1> QED
  BY <1>1, <1>2, StepIsAboutOne

\* Who has stored rows is over, and stays over.
LEMMA StepNotYetStored == IInv /\ [Next]_vars => NotYetStored'
<1> SUFFICES ASSUME IInv, [Next]_vars,
                    NEW s \in Request, NEW k \in Kind, <<s, k>> \in Stored'
             PROVE  pc'[s] \in {"done", "lost"}
  BY DEF NotYetStored
<1>1. CASE \E r \in Request : Commit(r)
  <2>1. PICK r \in Request : Commit(r)
    BY <1>1
  <2>2. CASE s = r
    BY <2>1, <2>2 DEF Commit, Close, IInv, TypeOK
  <2>3. CASE s # r
    <3>1. <<s, k>> \in Stored
      BY <2>1, <2>3, CommitStores, NewRowsAreTokens
    <3>2. pc[s] \in {"done", "lost"}
      BY <3>1 DEF IInv, NotYetStored
    <3> QED
      BY <2>1, <2>3, <3>2 DEF Commit, Close, IInv, TypeOK
  <2> QED
    BY <2>2, <2>3
<1>2. CASE ~\E r \in Request : Commit(r)
  <2>1. table' = table
    BY <1>2 DEF Next, vars, RequestStep, Arrive, Begin, Refuse, Handle, Insert,
       InsertConflict, UpdateConflict, Retry, Flush, Crash, Tick, GcSearch,
       GcUnlink, GcConflict, ToggleClient, UnlinkClient, UnlinkUser, UnlinkOwn, Replicate, Idle, db, tokens
  <2>2. pc[s] \in {"done", "lost"}
    BY <2>1 DEF IInv, NotYetStored, Stored
  <2>3. ~(Arrive(s) \/ RequestStep(s) \/ Crash(s))
    BY <1>2, <2>2 DEF RequestStep, Arrive, Begin, Refuse, Handle, Insert,
       InsertConflict, UpdateConflict, Flush, Crash
  <2> QED
    BY <2>2, <2>3, StepIsAboutOne DEF Bystander
<1> QED
  BY <1>1, <1>2

\* What the autovacuum found is stored.
LEMMA StepGcFoundStored == IInv /\ [Next]_vars => GcFoundStored'
<1> SUFFICES ASSUME IInv, [Next]_vars PROVE gc'.found \subseteq Stored'
  BY DEF GcFoundStored
<1>1. gc'.found \subseteq gc.found \/ gc'.found \subseteq Visible
  <2>1. CASE gc' = gc \/ gc' = GcIdle
    BY <2>1 DEF GcIdle
  <2>2. CASE GcSearch
    BY <2>2 DEF GcSearch, IInv, TypeOK
  <2>3. ASSUME NEW r \in Request, Commit(r) PROVE gc'.found = gc.found
    BY <2>3 DEF Commit, IInv, TypeOK
  <2>4. ASSUME NEW rows, BeatGc(rows) PROVE gc'.found = gc.found
    BY <2>4 DEF BeatGc, IInv, TypeOK
  <2>5. \/ gc' = gc \/ gc' = GcIdle \/ GcSearch \/ \E r \in Request : Commit(r)
        \/ \E rows : BeatGc(rows)
    BY DEF UnlinkClient, UnlinkUser, UnlinkOwn, Replicate, Next, vars, RequestStep, Arrive, Begin, Refuse, Handle, Insert,
       InsertConflict, UpdateConflict, Retry, Flush, Crash, Tick, GcUnlink,
       GcConflict, ToggleClient, Idle
  <2> QED
    BY <2>1, <2>2, <2>3, <2>4, <2>5
<1> QED
  BY <1>1, RowsStay DEF IInv, GcFoundStored, Visible

\* What a request in a transaction updates does not change under it.
LEMMA UpdatesStay ==
    ASSUME IInv, [Next]_vars, NEW s \in Request, Bystander(s),
           pc[s] \in {"handle", "issue", "flush", "commit"}
    PROVE  Updates(s)' = Updates(s)
<1>1. call'[s] = call[s] /\ snap'[s] = snap[s]
  BY DEF Bystander
<1>2. snap[s].row # "absent" =>
        table'[call[s].cred] = table[call[s].cred]
  BY RowsStay DEF IInv, RequestSound, SnapshotStored
<1>3. LookupForRevoke(s, call[s].client)' <=> LookupForRevoke(s, call[s].client)
  BY <1>1, <1>2 DEF LookupForRevoke
<1> QED
  BY <1>1, <1>3 DEF Updates, LookupForRevoke

\* A row becomes revoked by the commit of a transaction that updates it.
LEMMA RevokedByCommit ==
    ASSUME IInv, [Next]_vars
    PROVE  \/ \E r \in Request :
                Commit(r) /\ revoked' = revoked \cup Updates(r)
           \/ revoked' = revoked /\ ~\E r \in Request : Commit(r)
<1>1. (~\E r \in Request : Commit(r)) => revoked' = revoked
  BY DEF Next, vars, RequestStep, Arrive, Begin, Refuse, Handle, Insert, InsertConflict,
     UpdateConflict, Retry, Flush, Crash, Tick, GcSearch, GcUnlink, GcConflict,
     ToggleClient, UnlinkClient, UnlinkUser, UnlinkOwn, Replicate, Idle, db, tokens
<1> QED
  BY <1>1 DEF Commit

\* No two transactions hold one lock after a step.
LEMMA StepLocksDisjoint == IInv /\ [Next]_vars => LocksDisjoint'
<1> SUFFICES ASSUME IInv, [Next]_vars, NEW r \in Request, NEW s \in Request,
                    r # s, pc'[r] = "commit", pc'[s] = "commit"
             PROVE  Updates(r)' \cap Updates(s)' = {}
  BY DEF LocksDisjoint, Locked
<1>1. ASSUME NEW a \in Request, NEW b \in Request, a # b, Bystander(b),
             pc'[a] = "commit", pc'[b] = "commit",
             Arrive(a) \/ RequestStep(a) \/ Crash(a)
      PROVE  Updates(a)' \cap Updates(b)' = {}
  <2>1. Flush(a)
    BY <1>1 DEF RequestStep, Arrive, Begin, Refuse, Handle, Insert, InsertConflict,
       UpdateConflict, Retry, Commit, Close, Crash, IInv, TypeOK
  <2>2. pc[b] = "commit"
    BY <1>1 DEF Bystander
  <2>3. Updates(b) \cap Updates(a) = {}
    BY <1>1, <2>1, <2>2 DEF Flush, LockFree, Locked
  <2>4. Updates(b)' = Updates(b)
    BY <1>1, <2>2, UpdatesStay
  <2>5. Updates(a)' = Updates(a)
    BY <2>1 DEF Flush, Updates, LookupForRevoke, db, tokens, local
  <2> QED
    BY <2>3, <2>4, <2>5
<1>2. CASE Bystander(r) /\ Bystander(s)
  <2>1. pc[r] = "commit" /\ pc[s] = "commit"
    BY <1>2 DEF Bystander
  <2>2. Updates(r)' = Updates(r) /\ Updates(s)' = Updates(s)
    BY <1>2, <2>1, UpdatesStay
  <2> QED
    BY <2>1, <2>2 DEF IInv, LocksDisjoint, Locked
<1> QED
  BY <1>1, <1>2, StepIsAboutOne

\* Whoever comes to a code first, the other one is beaten or still waits.
LEMMA StepCodeUnrevoked == IInv /\ [Next]_vars => CodeUnrevoked'
<1> SUFFICES ASSUME IInv, [Next]_vars, NEW r \in Request,
                    call'[r].op = "authorization_code",
                    snap'[r].row = "live",
                    \/ pc'[r] \in {"handle", "issue", "flush"} /\ ~beaten'[r]
                    \/ pc'[r] = "commit"
             PROVE  call'[r].cred \notin revoked'
  BY DEF CodeUnrevoked
<1> USE DEF IInv
<1>1. CASE Arrive(r) \/ RequestStep(r) \/ Crash(r)
  <2>1. CASE Begin(r)
    <3>1. call'[r] = call[r] /\ revoked' = revoked
      BY <2>1 DEF Begin, db, tokens
    <3>2. snap'[r].row \in Shown(r)
      BY <2>1 DEF Begin, TypeOK
    <3> QED
      BY <3>1, <3>2, ShownMeans DEF TypeOK
  <2>2. CASE Handle(r) \/ Insert(r)
    BY <2>2 DEF Handle, Insert, TypeOK, db, tokens, CodeUnrevoked
  <2>3. CASE Flush(r)
    BY <2>3 DEF Flush, TypeOK, db, tokens, local, CodeUnrevoked
  <2>4. CASE Arrive(r) \/ Refuse(r) \/ Retry(r) \/ Crash(r) \/ Commit(r)
    <3>1. pc'[r] \in {"begin", "done", "lost"}
      BY <2>4 DEF Arrive, Refuse, Retry, Crash, Commit, Close, TypeOK
    <3> QED
      BY <3>1
  <2> QED
    BY <1>1, <2>1, <2>2, <2>3, <2>4
    DEF RequestStep, InsertConflict, UpdateConflict
<1>2. CASE Bystander(r)
  <2>1. /\ call[r] = call'[r] /\ snap[r] = snap'[r] /\ pc[r] = pc'[r]
        /\ ~beaten'[r] => ~beaten[r]
    BY <1>2 DEF Bystander
  <2>2. call[r].cred \notin revoked
    BY <2>1 DEF CodeUnrevoked
  <2>3. ASSUME NEW q \in Request, Commit(q), call[r].cred \in Updates(q)
        PROVE  FALSE
    <3>1. q # r /\ pc[q] = "commit"
      BY <1>2, <2>3 DEF Bystander, Commit, Close, TypeOK
    <3>2. Updates(r) = {call[r].cred}
      BY <2>1 DEF Updates
    <3>3. pc[r] # "commit"
      BY <2>3, <3>1, <3>2 DEF LocksDisjoint, Locked
    <3>4. pc[r] \in {"handle", "issue", "flush"} /\ ~beaten'[r]
      BY <2>1, <3>3
    <3>5. Updates(r) \cap Updates(q) # {}
      BY <2>3, <3>2
    <3> QED
      BY <2>3, <3>4, <3>5 DEF Commit, Beat
  <2> QED
    BY <2>1, <2>2, <2>3, RevokedByCommit
<1> QED
  BY <1>1, <1>2, StepIsAboutOne

\* Tokens that stem from a code come from its exchange, which updates it.
LEMMA NewFromCode ==
    ASSUME IInv, NEW r \in Request, Commit(r), NEW t \in NewRows(r),
           table'[t].parent # None, KindOf(table'[t].parent) = "code"
    PROVE  /\ call[r].op = "authorization_code"
           /\ table'[t].parent = call[r].cred
           /\ call[r].cred \in Updates(r)
           /\ call[r].cred \notin revoked
<1>1. pc[r] = "commit"
  BY DEF Commit
<1>2. table'[t] = draft[r][KindOf(t)] /\ Stems(r, draft[r][KindOf(t)])
  BY <1>1, CommitStores, DraftedRows
<1>3. call[r].op \in Derives /\ table'[t].parent = call[r].cred
  BY <1>2 DEF Stems
<1>4. call[r].op = "authorization_code" /\ snap[r].row = "live"
  BY <1>1, <1>3 DEF IInv, RequestSound, GrantStems, Derives
<1>5. call[r].cred \notin revoked
  BY <1>1, <1>4 DEF IInv, CodeUnrevoked
<1> QED
  BY <1>3, <1>4, <1>5 DEF Updates

\* A step that stores nothing leaves the table as it is.
LEMMA StoredByCommit ==
    ASSUME [Next]_vars, ~\E r \in Request : Commit(r)
    PROVE  table' = table /\ Stored' = Stored
BY DEF Next, vars, RequestStep, Arrive, Begin, Refuse, Handle, Insert, InsertConflict,
   UpdateConflict, Retry, Flush, Crash, Tick, GcSearch, GcUnlink, GcConflict,
   ToggleClient, UnlinkClient, UnlinkUser, UnlinkOwn, Replicate, Idle, db, tokens, Stored

\* A code that tokens stem from stays revoked, and becomes so with the first.
LEMMA StepCodeConsumed == IInv /\ [Next]_vars => CodeConsumed'
<1> SUFFICES ASSUME IInv, [Next]_vars, NEW t \in Stored',
                    table'[t].parent # None,
                    KindOf(table'[t].parent) = "code"
             PROVE  table'[t].parent \in revoked'
  BY DEF CodeConsumed
<1>1. revoked \subseteq revoked'
  BY RevokedByCommit
<1>2. CASE t \in Stored
  BY <1>1, <1>2, RowsStay DEF IInv, CodeConsumed
<1>3. CASE t \notin Stored
  <2>1. PICK r \in Request : Commit(r)
    BY <1>3, StoredByCommit
  <2>2. t \in NewRows(r)
    BY <1>3, <2>1, CommitStores
  <2> QED
    BY <2>1, <2>2, NewFromCode DEF Commit
<1> QED
  BY <1>2, <1>3

\* No step issues tokens of one kind from a code that has yielded one.
LEMMA StepCodeRedeemedOnce == IInv /\ [Next]_vars => CodeRedeemedOnce'
<1> SUFFICES ASSUME IInv, [Next]_vars, NEW s \in Stored', NEW t \in Stored',
                    table'[s].parent = table'[t].parent,
                    table'[s].parent # None,
                    KindOf(table'[s].parent) = "code",
                    KindOf(s) = KindOf(t)
             PROVE  s = t
  BY DEF CodeRedeemedOnce
<1>1. CASE s \in Stored /\ t \in Stored
  BY <1>1, RowsStay DEF IInv, CodeRedeemedOnce
<1>2. ASSUME NEW old \in Stored, NEW new \in Stored', new \notin Stored,
             table'[old].parent = table'[new].parent,
             table'[new].parent # None, KindOf(table'[new].parent) = "code"
      PROVE  FALSE
  <2>1. PICK r \in Request : Commit(r)
    BY <1>2, StoredByCommit
  <2>2. new \in NewRows(r)
    BY <1>2, <2>1, CommitStores
  <2>3. table'[new].parent = call[r].cred /\ call[r].cred \notin revoked
    BY <1>2, <2>1, <2>2, NewFromCode
  <2>4. table[old].parent \in revoked
    BY <1>2, RowsStay DEF IInv, CodeConsumed
  <2> QED
    BY <1>2, <2>3, <2>4, RowsStay
<1>3. CASE s \notin Stored /\ t \notin Stored
  <2>1. PICK r \in Request : Commit(r)
    BY <1>3, StoredByCommit
  <2>2. s \in NewRows(r) /\ t \in NewRows(r)
    BY <1>3, <2>1, CommitStores
  <2> QED
    BY <2>2 DEF NewRows, KindOf
<1> QED
  BY <1>1, <1>2, <1>3

----------------------------------------------------------------------------
(* The theorems *)

\* The invariant is inductive: it holds in every state of every behaviour.
THEOREM Invariance == Spec => []IInv
<1>1. IInv /\ [Next]_vars => IInv'
  BY StepTypeOK, StepSound, StepNotYetStored, StepGcFoundStored,
     StepCodeUnrevoked, StepLocksDisjoint, StepCodeConsumed,
     StepCodeRedeemedOnce DEF IInv
<1> QED
  BY IInvInit, <1>1, PTL DEF Spec

\* The server's state, its requests' and the autovacuum's keep their types
\* under any number of requests.
THEOREM TypeCorrect == Spec => []TypeOK
BY Invariance, PTL DEF IInv

\* However many exchanges of one code run at once, are rolled back, tried again
\* or cut off by a crash, one of them at most stores its tokens.
THEOREM RedeemedOnce == Spec => []CodeRedeemedOnce
BY Invariance, PTL DEF IInv

----------------------------------------------------------------------------
(* The invariant, on top of IInv *)

\* A granted handler saw a credential of its own client, which had not expired.
GrantFollows(r) ==
    pc[r] \in {"issue", "flush", "commit"} =>
        /\ call[r].op = "client_credentials" => call[r].client \in Confidential
        /\ call[r].op \in Derives =>
             /\ call[r].cred \in Stored
             /\ call[r].client = table[call[r].cred].client
             /\ granted[r] < Expires(call[r].cred)

\* A row is worth what the credential it stems from is worth.
RowFollows(r, row) ==
    /\ row.client = call[r].client /\ row.granted = granted[r]
    /\ call[r].op = "authorize" => row.user \in User
    /\ call[r].op = "client_credentials" => row.user = None
    /\ call[r].op \in Derives =>
         /\ row.user = table[call[r].cred].user
         /\ row.scope = table[call[r].cred].scope

DraftFollows(r) ==
    pc[r] \in {"issue", "flush", "commit"} =>
        \A k \in Kind : draft[r][k] # NoRow => RowFollows(r, draft[r][k])

\* The user interface revokes rows of its own user only.
ActionOwned(r) ==
    pc[r] \in {"issue", "flush", "commit"} /\ call[r].op = "action_revoke" =>
        table[call[r].cred].user = call[r].user

\* A revocation that sees no row comes after the row's deletion.
RevokeSees(r) ==
    call[r].op = "revoke" =>
        /\ call[r].cred \in Stored
        /\ pc[r] \in {"handle", "issue", "flush", "commit"} /\ snap[r].row = "absent" =>
             call[r].cred \in deleted

\* The credential is dead, and the replica has heard of it where it is read there.
Gone(r) == call[r].cred \in (revoked \cup deleted)
                             \ IF call[r].op = "read" THEN behind ELSE {}

\* Who arrived after its credential died never sees it alive.
Late(r) ==
    settled[r] =>
        /\ Gone(r)
        /\ pc[r] # "idle"
        /\ pc[r] \in {"handle", "issue", "flush", "commit"} => snap[r].row # "live"
        /\ call[r].op \in Derives \cup {"use", "read"} =>
             pc[r] \notin {"issue", "flush", "commit"} /\ answer[r] # "ok"

\* What a caller was told of its own rows, and of a row it revoked.
Told(r) ==
    /\ answer[r] # "none" => pc[r] = "done"
    /\ answer[r] = "ok" => NewRows(r) \subseteq Stored
    /\ answer[r] \in {"refused", "error"} => NewRows(r) \cap Stored = {}
    /\ answer[r] = "ok" /\ call[r].op = "revoke"
       /\ KindOf(call[r].cred) \in {"access", "refresh"}
       /\ table[call[r].cred].client = call[r].client
       => call[r].cred \in revoked \cup deleted

RequestTrue(r) ==
    /\ GrantFollows(r) /\ DraftFollows(r) /\ ActionOwned(r)
    /\ RevokeSees(r) /\ Late(r) /\ Told(r)

\* A row is deleted because it expired, because its client or its resource owner
\* was, or because that owner unlinked it.
ReasonToDelete(t) ==
    \/ Expires(t) < now
    \/ clients[table[t].client] = "deleted"
    \/ table[t].user \in departed
    \/ t \in unlinked

DeletedForAReason == \A t \in deleted : ReasonToDelete(t)

GcFoundExpired == \A t \in gc.found : Expires(t) < now

JInv ==
    /\ \A r \in Request : RequestTrue(r)
    /\ FollowsItsParent
    /\ OwnerlessIsClientCredentials
    /\ DeletedForAReason
    /\ GcFoundExpired

----------------------------------------------------------------------------
(* What stays through every step *)

\* A row that died and that the replica has heard of stays so.
LEMMA StaysDead ==
    ASSUME IInv, [Next]_vars
    PROVE  (revoked \cup deleted) \ behind \subseteq (revoked' \cup deleted') \ behind'
<1>1. /\ revoked \subseteq revoked' /\ deleted \subseteq deleted'
      /\ \A t \in revoked \cup deleted : t \in behind' => t \in behind
  <2>1. CASE \E r \in Request : Commit(r)
    BY <2>1 DEF Commit, Lag
  <2>2. CASE \E rows : Delete(rows) /\ revoked' = revoked
    BY <2>2 DEF Delete, Lag
  <2>3. CASE behind' \subseteq behind /\ UNCHANGED <<revoked, deleted>>
    BY <2>3
  <2>4. ~(\E r \in Request : Commit(r)) =>
          \/ \E rows : Delete(rows) /\ revoked' = revoked
          \/ behind' \subseteq behind /\ UNCHANGED <<revoked, deleted>>
    <3>1. ASSUME NEW r \in Request, Arrive(r) \/ RequestStep(r) \/ Crash(r), ~Commit(r)
          PROVE  UNCHANGED <<behind, revoked, deleted>>
      BY <3>1 DEF RequestStep, Arrive, Begin, Refuse, Handle, Insert, InsertConflict,
         UpdateConflict, Retry, Flush, Crash, db, tokens
    <3>2. ASSUME \/ GcUnlink \/ \E c \in Administered : UnlinkClient(c)
                 \/ \E u \in Administered : UnlinkUser(u) \/ UnlinkOwn(u)
          PROVE  \E rows : Delete(rows) /\ revoked' = revoked
      BY <3>2 DEF GcUnlink, UnlinkClient, UnlinkUser, UnlinkOwn
    <3>3. ASSUME \/ Tick \/ GcSearch \/ GcConflict \/ Idle \/ UNCHANGED vars
                 \/ \E c \in Administered : ToggleClient(c)
                 \/ \E t \in Token : Replicate(t)
          PROVE  behind' \subseteq behind /\ UNCHANGED <<revoked, deleted>>
      BY <3>3 DEF Tick, GcSearch, GcConflict, Idle, vars, ToggleClient, Replicate, db, tokens
    <3> QED
      BY <3>1, <3>2, <3>3 DEF Next
  <2> QED
    BY <2>1, <2>2, <2>3, <2>4
<1> QED
  BY <1>1

\* The clock, the revocations and the deletions only go forward.
LEMMA Forward ==
    ASSUME IInv, [Next]_vars
    PROVE  /\ revoked \subseteq revoked' /\ deleted \subseteq deleted'
           /\ now \in Nat /\ now' \in Nat /\ now <= now'
           /\ departed \subseteq departed' /\ unlinked \subseteq unlinked'
           /\ \A c \in Client : clients[c] = "deleted" => clients'[c] = "deleted"
<1>1. revoked \subseteq revoked'
    BY RevokedByCommit
<1>2. now \in Nat /\ (now' = now \/ now' = now + 1)
    BY DEF Next, vars, RequestStep, Arrive, Begin, Refuse, Handle, Insert, InsertConflict,
       UpdateConflict, Retry, Flush, Commit, Crash, Tick, GcSearch, GcUnlink, GcConflict,
       ToggleClient, UnlinkClient, UnlinkUser, UnlinkOwn, Replicate, Idle, IInv, TypeOK
<1>3. deleted \subseteq deleted'
    BY DEF Next, vars, local, db, tokens, Delete, RequestStep, Arrive, Begin, Refuse, Handle, Insert,
       InsertConflict, UpdateConflict, Retry, Flush, Commit, Crash, Tick, GcSearch, GcUnlink,
       GcConflict, ToggleClient, UnlinkClient, UnlinkUser, UnlinkOwn, Replicate, Idle
<1>4. \/ clients' = clients
      \/ \E c \in Administered : ToggleClient(c) \/ UnlinkClient(c)
    BY DEF Next, vars, local, db, tokens, RequestStep, Arrive, Begin, Refuse, Handle, Insert,
       InsertConflict, UpdateConflict, Retry, Flush, Commit, Crash, Tick, GcSearch, GcUnlink,
       GcConflict, UnlinkUser, UnlinkOwn, Replicate, Idle
<1>5. \A c \in Client : clients[c] = "deleted" => clients'[c] = "deleted"
    BY <1>4 DEF ToggleClient, UnlinkClient, IInv, TypeOK
<1>6. departed \subseteq departed' /\ unlinked \subseteq unlinked'
    BY DEF Next, vars, local, db, tokens, Delete, RequestStep, Arrive, Begin, Refuse, Handle, Insert,
       InsertConflict, UpdateConflict, Retry, Flush, Commit, Crash, Tick, GcSearch, GcUnlink,
       GcConflict, ToggleClient, UnlinkClient, UnlinkUser, UnlinkOwn, Replicate, Idle
<1> QED
    BY <1>1, <1>2, <1>3, <1>5, <1>6

\* A row keeps its client and its expiry.
LEMMA ExpiryStays ==
    ASSUME IInv, [Next]_vars, NEW t \in Stored
    PROVE  t \in Stored' /\ table'[t] = table[t] /\ Expires(t)' = Expires(t)
    BY RowsStay DEF Expires

\* A step leaves what a request it is not about was told and found.
LEMMA Aside ==
    ASSUME IInv, [Next]_vars, NEW s \in Request, ~(Arrive(s) \/ RequestStep(s) \/ Crash(s))
    PROVE  Bystander(s) /\ answer'[s] = answer[s] /\ settled'[s] = settled[s]
<1>1. Bystander(s)
    BY StepIsAboutOne
<1>2. ASSUME NEW r \in Request, Arrive(r) \/ RequestStep(r) \/ Crash(r)
      PROVE  answer'[s] = answer[s] /\ settled'[s] = settled[s]
    <2>1. r # s
        BY <1>2
    <2> QED
        BY <1>2, <2>1 DEF RequestStep, Arrive, Begin, Refuse, Handle, Insert, InsertConflict,
           UpdateConflict, Retry, Flush, Commit, Crash, IInv, TypeOK
<1>3. \/ \E r \in Request : Arrive(r) \/ RequestStep(r) \/ Crash(r)
      \/ answer' = answer /\ settled' = settled
    BY DEF Next, vars, Tick, GcSearch, GcUnlink, GcConflict, ToggleClient, UnlinkClient, UnlinkUser, UnlinkOwn, Replicate, Idle
<1> QED
    BY <1>1, <1>2, <1>3


----------------------------------------------------------------------------
(* A request's own step keeps what is true of it *)

\* Steps that commit nothing leave the rows, and what they tell of them.
LEMMA NoCommitKeeps ==
    ASSUME IInv, [Next]_vars, NEW r \in Request, Arrive(r) \/ RequestStep(r) \/ Crash(r),
           ~Commit(r)
    PROVE  UNCHANGED <<now, table, revoked, deleted, behind, clients>> /\ Stored' = Stored
    BY DEF RequestStep, Arrive, Begin, Refuse, Handle, Insert, InsertConflict, UpdateConflict, Retry,
       Flush, Crash, db, tokens, Stored

\* What a handler is granted for.
LEMMA HandleFollows ==
    ASSUME IInv, NEW r \in Request, Handle(r)
    PROVE  GrantFollows(r)' /\ ActionOwned(r)'
<1> USE DEF IInv
<1>1. /\ pc[r] = "handle" /\ Granted(r) /\ granted'[r] = now
      /\ UNCHANGED <<now, table, call, snap>> /\ Stored' = Stored
    BY DEF Handle, db, tokens, TypeOK, Stored
<1>2. RequestSound(r)
    OBVIOUS
<1>3. call[r].op = "client_credentials" => call[r].client \in Confidential
    BY <1>1 DEF Granted, TokenGranted, ClientCredentialsGranted, GrantType
<1>4. ASSUME call[r].op \in Derives
      PROVE  /\ call[r].cred \in Stored
             /\ call[r].client = table[call[r].cred].client
             /\ now < Expires(call[r].cred)
    <2>1. TokenGranted(r)
        BY <1>1, <1>4 DEF Granted, GrantType, Derives
    <2>2. Lookup(r, "code", call[r].client) \/ Lookup(r, "refresh", call[r].client)
        <3>1. CASE call[r].op = "authorization_code"
            BY <2>1, <3>1 DEF TokenGranted, ExchangeGranted
        <3>2. CASE call[r].op = "refresh_token"
            BY <2>1, <3>2 DEF TokenGranted, RefreshGranted
        <3> QED
            BY <1>4, <3>1, <3>2 DEF Derives
    <2>3. call[r].client \in Client
        BY <1>2, <1>4 DEF RequestSound, CallShaped, GrantType, Derives
    <2>4. /\ call[r].cred \in Stored
          /\ call[r].client = table[call[r].cred].client
          /\ Expires(call[r].cred) > now
        BY <1>1, <1>2, <2>2, <2>3, ConstantsAssumption DEF Lookup, RequestSound, SnapshotStored
    <2>5. call[r].cred \in Token /\ table[call[r].cred] \in Row
        BY <2>4, StoredIsRow
    <2>6. Expires(call[r].cred) \in Nat /\ now \in Nat
        BY <2>5, ConstantsAssumption DEF Expires, TypeOK, Row, KindOf, Token, Kind
    <2> QED
        BY <2>4, <2>6
<1>5. Expires(call[r].cred)' = Expires(call[r].cred)
    BY <1>1 DEF Expires
<1>6. GrantFollows(r)'
    BY <1>1, <1>3, <1>4, <1>5 DEF GrantFollows
<1>7. ActionOwned(r)'
    BY <1>1 DEF ActionOwned, Granted, ActionRevokeGranted, GrantType
<1> QED
    BY <1>6, <1>7

\* What is issued follows the grant it is issued on.
LEMMA IssueFollows ==
    ASSUME IInv, NEW r \in Request, pc[r] = "issue"
    PROVE  RowFollows(r, Issue(r))
<1>1. call[r].op = "authorize" => call[r].user \in User
    BY DEF IInv, RequestSound, CallShaped
<1>2. Issue(r).client = call[r].client /\ Issue(r).granted = granted[r]
    BY DEF Issue
<1>3. /\ call[r].op = "authorize" => Issue(r).user = call[r].user
      /\ call[r].op = "client_credentials" => Issue(r).user = None
      /\ call[r].op \in Derives =>
           /\ Issue(r).user = table[call[r].cred].user
           /\ Issue(r).scope = table[call[r].cred].scope
    BY DEF Issue, Derives
<1> QED
    BY <1>1, <1>2, <1>3 DEF RowFollows

\* A handler that goes on issuing keeps what it drafted.
LEMMA InsertFollows ==
    ASSUME IInv, JInv, NEW r \in Request, Insert(r)
    PROVE  DraftFollows(r)'
<1> USE DEF IInv, JInv, RequestTrue
<1>1. PICK k \in Pending(r) : draft' = [draft EXCEPT ![r][k] = Issue(r)]
    BY DEF Insert
<1>2. /\ pc[r] = "issue"
      /\ UNCHANGED <<call, granted, table>>
    BY DEF Insert, db, tokens
<1>3. k \in Kind
    BY DEF Pending, Issues, Kind
<1>4. ASSUME NEW j \in Kind PROVE draft'[r][j] = IF j = k THEN Issue(r) ELSE draft[r][j]
    BY <1>1, <1>3 DEF TypeOK
<1>5. RowFollows(r, Issue(r)) /\ DraftFollows(r)
    BY <1>2, IssueFollows
<1>6. ASSUME NEW j \in Kind, draft'[r][j] # NoRow PROVE RowFollows(r, draft'[r][j])
    BY <1>2, <1>4, <1>5, <1>6 DEF DraftFollows
<1>7. ASSUME NEW j \in Kind, draft'[r][j] # NoRow PROVE RowFollows(r, draft[r][j])'
    BY <1>2, <1>6, <1>7 DEF RowFollows
<1> QED
    BY <1>7 DEF DraftFollows

\* A request's own step keeps what its grant and its drafts are worth.
LEMMA OwnDrafts ==
    ASSUME IInv, JInv, [Next]_vars, NEW r \in Request, Arrive(r) \/ RequestStep(r) \/ Crash(r)
    PROVE  GrantFollows(r)' /\ DraftFollows(r)' /\ ActionOwned(r)'
<1> USE DEF IInv, JInv, RequestTrue
<1>1. CASE Handle(r)
    <2>1. draft'[r] = NoDraft
        BY <1>1 DEF Handle, RequestSound, DraftStems
    <2>2. DraftFollows(r)'
        BY <2>1 DEF DraftFollows, NoDraft
    <2> QED
        BY <1>1, <2>2, HandleFollows
<1>2. CASE Insert(r) \/ Flush(r)
    <2>1. /\ pc[r] \in {"issue", "flush"} /\ UNCHANGED <<call, granted, table>>
          /\ Stored' = Stored
        BY <1>2 DEF Insert, Flush, db, tokens, local, Stored
    <2>2. Expires(call[r].cred)' = Expires(call[r].cred)
        BY <2>1 DEF Expires
    <2>3. GrantFollows(r)' /\ ActionOwned(r)'
        BY <2>1, <2>2 DEF GrantFollows, ActionOwned
    <2>4. CASE Flush(r)
        <3>1. draft' = draft
            BY <2>4 DEF Flush, local
        <3>2. \A row : RowFollows(r, row)' <=> RowFollows(r, row)
            BY <2>1 DEF RowFollows
        <3>3. DraftFollows(r)
            OBVIOUS
        <3> QED
            BY <2>1, <2>3, <3>1, <3>2, <3>3 DEF DraftFollows, RowFollows
    <2> QED
        BY <1>2, <2>3, <2>4, InsertFollows
<1>3. CASE Arrive(r) \/ Begin(r) \/ Refuse(r) \/ Retry(r) \/ Commit(r) \/ Crash(r)
    <2>1. pc'[r] \notin {"issue", "flush", "commit"}
        BY <1>3 DEF Arrive, Begin, Refuse, Retry, Commit, Crash, Close, TypeOK
    <2> QED
        BY <2>1 DEF GrantFollows, DraftFollows, ActionOwned
<1> QED
    BY <1>1, <1>2, <1>3 DEF RequestStep, InsertConflict, UpdateConflict

\* A revocation presents a row that was stored once.
LEMMA OwnRevokeSees ==
    ASSUME IInv, JInv, [Next]_vars, NEW r \in Request, Arrive(r) \/ RequestStep(r) \/ Crash(r)
    PROVE  RevokeSees(r)'
<1> USE DEF IInv, JInv, RequestTrue
<1>1. CASE Arrive(r)
    <2>1. PICK q \in Calls : call' = [call EXCEPT ![r] = q]
        BY <1>1 DEF Arrive
    <2>2. q.op = "revoke" => q.cred \in Stored
        BY DEF Calls
    <2>3. pc'[r] = "begin" /\ call'[r] = q /\ Stored' = Stored
        BY <1>1, <2>1 DEF Arrive, TypeOK, Stored, db, tokens
    <2> QED
        BY <2>2, <2>3 DEF RevokeSees
<1>2. CASE Begin(r)
    <2>1. /\ call[r].op = "revoke" => snap'[r].row = RowState(call[r].cred)
          /\ call' = call /\ UNCHANGED <<revoked, deleted>> /\ Stored' = Stored
        BY <1>2 DEF Begin, Shown, TypeOK, Stored, db, tokens
    <2>2. call[r].cred \in Stored /\ RowState(call[r].cred) = "absent" => call[r].cred \in deleted
        BY DEF RowState, Visible
    <2> QED
        BY <2>1, <2>2 DEF RevokeSees
<1>3. CASE Handle(r) \/ Insert(r) \/ Flush(r)
    <2>1. /\ pc[r] \in {"handle", "issue", "flush"}
          /\ UNCHANGED <<call, snap, deleted>> /\ Stored' = Stored
        BY <1>3 DEF Handle, Insert, Flush, Stored, db, tokens, local
    <2> QED
        BY <2>1 DEF RevokeSees
<1>4. CASE Refuse(r) \/ Retry(r) \/ Commit(r) \/ Crash(r)
    <2>1. pc'[r] \notin {"handle", "issue", "flush", "commit"} /\ call' = call
        BY <1>4 DEF Refuse, Retry, Commit, Crash, Close, TypeOK
    <2>2. Stored \subseteq Stored'
        BY RowsStay
    <2> QED
        BY <2>1, <2>2 DEF RevokeSees
<1> QED
    BY <1>1, <1>2, <1>3, <1>4 DEF RequestStep, InsertConflict, UpdateConflict

\* A credential that was dead on arrival is dead in every attempt.
LEMMA OwnLate ==
    ASSUME IInv, JInv, [Next]_vars, NEW r \in Request, Arrive(r) \/ RequestStep(r) \/ Crash(r)
    PROVE  Late(r)'
<1> USE DEF IInv, JInv, RequestTrue
<1>0. \A t \in revoked \cup deleted :
        t \in revoked' \cup deleted' /\ (t \notin behind => t \notin behind')
    BY Forward, StaysDead
<1>1. CASE Arrive(r)
    <2>1. PICK q \in Calls :
            /\ call' = [call EXCEPT ![r] = q]
            /\ settled' = [settled EXCEPT ![r] =
                 q.cred \in (revoked \cup deleted) \ IF q.op = "read" THEN behind ELSE {}]
        BY <1>1 DEF Arrive
    <2>2. /\ call'[r] = q /\ pc'[r] = "begin" /\ UNCHANGED <<snap, answer>>
          /\ UNCHANGED <<revoked, deleted, behind>>
          /\ settled'[r] = (q.cred \in (revoked \cup deleted)
                                       \ IF q.op = "read" THEN behind ELSE {})
        BY <1>1, <2>1 DEF Arrive, TypeOK, local, db, tokens
    <2>3. answer[r] # "ok"
        BY <1>1 DEF Arrive, Told
    <2> QED
        BY <2>2, <2>3 DEF Late, Gone
<1>2. ASSUME ~Arrive(r) PROVE call' = call /\ settled' = settled /\ (Gone(r) => Gone(r)')
    <2>1. call' = call /\ settled' = settled
        BY <1>2 DEF RequestStep, Begin, Refuse, Handle, Insert, InsertConflict, UpdateConflict,
           Retry, Flush, Commit, Crash
    <2> QED
        BY <1>0, <2>1 DEF Gone
<1>3. CASE Begin(r)
    <2>1. /\ pc'[r] = "handle" /\ pc[r] = "begin" /\ answer' = answer
          /\ snap'[r].row \in Shown(r)
        BY <1>3 DEF Begin, TypeOK
    <2>2. Gone(r) => snap'[r].row # "live"
        BY <2>1, ShownMeans DEF Gone, TypeOK
    <2> QED
        BY <1>2, <1>3, <2>1, <2>2 DEF Late, Begin, Arrive
<1>4. CASE Handle(r)
    <2>1. pc[r] = "handle" /\ Granted(r) /\ UNCHANGED <<answer, snap>> /\ pc'[r] # "idle"
        BY <1>4 DEF Handle, TypeOK
    <2>2. settled[r] => call[r].op \notin Derives \cup {"use", "read"}
        BY <2>1 DEF Late, Granted, TokenGranted, ExchangeGranted, RefreshGranted,
           UseGranted, Lookup, GrantType, Derives
    <2> QED
        BY <1>2, <2>1, <2>2 DEF Late, Arrive
<1>5. CASE Insert(r) \/ Flush(r)
    <2>1. /\ pc[r] \in {"issue", "flush"} /\ pc'[r] \in {"issue", "flush", "commit"}
          /\ UNCHANGED <<answer, snap>>
        BY <1>5 DEF Insert, Flush, TypeOK, local
    <2> QED
        BY <1>2, <2>1 DEF Late, Arrive
<1>6. CASE Refuse(r) \/ InsertConflict(r) \/ UpdateConflict(r) \/ Commit(r) \/ Crash(r)
    <2>1. pc[r] # "idle"
        BY <1>6 DEF Refuse, InsertConflict, UpdateConflict, Commit, Crash
    <2>2. /\ pc'[r] \in {"begin", "done", "lost"}
          /\ answer'[r] = "ok" => pc[r] = "commit" \/ answer[r] = "ok"
        BY <1>6 DEF Refuse, InsertConflict, UpdateConflict, Retry, Commit, Crash, Close, TypeOK
    <2> QED
        BY <1>2, <2>1, <2>2 DEF Late, Arrive
<1> QED
    BY <1>1, <1>3, <1>4, <1>5, <1>6 DEF RequestStep

\* Who is answered of a success has its rows stored and its row revoked or gone.
LEMMA OwnTold ==
    ASSUME IInv, JInv, [Next]_vars, NEW r \in Request, Arrive(r) \/ RequestStep(r) \/ Crash(r)
    PROVE  Told(r)'
<1> USE DEF IInv, JInv, RequestTrue
<1>1. CASE Commit(r)
    <2>1. /\ pc[r] = "commit" /\ call' = call /\ revoked' = revoked \cup Updates(r)
          /\ deleted' = deleted
          /\ \/ answer'[r] = "ok" /\ pc'[r] = "done"
             \/ answer' = answer
        BY <1>1 DEF Commit, Close, TypeOK
    <2>2. NewRows(r)' = NewRows(r) /\ Stored' = Stored \cup NewRows(r)
        BY <1>1, <2>1, CommitStores DEF NewRows
    <2>3. answer[r] = "none"
        BY <2>1 DEF Told
    <2>4. ASSUME call[r].op = "revoke", KindOf(call[r].cred) \in {"access", "refresh"},
                 table'[call[r].cred].client = call[r].client
          PROVE  call[r].cred \in revoked' \cup deleted'
        <3>1. call[r].cred \in Stored /\ (snap[r].row = "absent" => call[r].cred \in deleted)
            BY <2>1, <2>4 DEF RevokeSees
        <3>2. table'[call[r].cred] = table[call[r].cred]
            BY <3>1, RowsStay
        <3>3. CASE snap[r].row = "absent"
            BY <2>1, <3>1, <3>3
        <3>4. CASE snap[r].row # "absent"
            BY <2>1, <2>4, <3>2, <3>4 DEF Updates, LookupForRevoke
        <3> QED
            BY <3>3, <3>4
    <2> QED
        BY <2>1, <2>2, <2>3, <2>4 DEF Told
<1>2. CASE ~Commit(r)
    <2>1. UNCHANGED <<revoked, deleted, table>> /\ Stored' = Stored
        BY <1>2, NoCommitKeeps
    <2>2. CASE Arrive(r)
        <3>1. answer'[r] = "none"
            BY <2>2 DEF Arrive, Told
        <3> QED
            BY <3>1 DEF Told
    <2>3. CASE Begin(r) \/ Handle(r) \/ Insert(r) \/ Flush(r) \/ Crash(r)
        <3>1. answer'[r] = answer[r] /\ answer[r] = "none"
            BY <2>3 DEF Begin, Handle, Insert, Flush, Crash, Told
        <3> QED
            BY <3>1 DEF Told
    <2>4. CASE Refuse(r) \/ InsertConflict(r) \/ UpdateConflict(r)
        <3>1. pc[r] \in {"handle", "issue", "flush"} /\ call' = call
            BY <2>4 DEF Refuse, InsertConflict, UpdateConflict, Retry
        <3>2. /\ answer[r] = "none"
              /\ \/ answer'[r] = "none"
                 \/ answer'[r] \in {"refused", "error"} /\ pc'[r] = "done"
            BY <2>4, <3>1 DEF Refuse, InsertConflict, UpdateConflict, Retry, Close, Told, TypeOK
        <3>3. NewRows(r) \cap Stored = {}
            <4>1. \A k \in Kind : <<r, k>> \notin Stored
                BY <3>1 DEF NotYetStored
            <4>2. \A t \in NewRows(r) : \E k \in Kind : t = <<r, k>>
                BY DEF NewRows, Issues, Kind
            <4> QED
                BY <4>1, <4>2
        <3>4. NewRows(r)' = NewRows(r)
            BY <3>1 DEF NewRows
        <3> QED
            BY <2>1, <3>2, <3>3, <3>4 DEF Told
    <2> QED
        BY <1>2, <2>2, <2>3, <2>4 DEF RequestStep
<1> QED
    BY <1>1, <1>2

----------------------------------------------------------------------------
(* Every step keeps the invariant *)

\* What is true of a request stays so beside the steps of others.
LEMMA AsideTrue ==
    ASSUME IInv, JInv, [Next]_vars, NEW s \in Request, Bystander(s),
           answer'[s] = answer[s], settled'[s] = settled[s]
    PROVE  RequestTrue(s)'
<1> USE DEF IInv, JInv, RequestTrue
<1>1. /\ pc'[s] = pc[s] /\ call'[s] = call[s] /\ snap'[s] = snap[s] /\ draft'[s] = draft[s]
      /\ granted'[s] = granted[s] /\ NewRows(s)' = NewRows(s)
    BY DEF Bystander, NewRows
<1>2. revoked \subseteq revoked' /\ deleted \subseteq deleted' /\ Stored \subseteq Stored'
    BY Forward, RowsStay
<1>3. call[s].cred \in Stored =>
        /\ table'[call[s].cred] = table[call[s].cred]
        /\ Expires(call[s].cred)' = Expires(call[s].cred)
    BY <1>1, RowsStay DEF Expires
<1>4. GrantFollows(s)' /\ DraftFollows(s)'
    <2>1. GrantFollows(s) /\ GrantFollows(s)'
        BY <1>1, <1>2, <1>3 DEF GrantFollows
    <2>2. pc[s] \in {"issue", "flush", "commit"} =>
            \A row : RowFollows(s, row) => RowFollows(s, row)'
        BY <1>1, <1>3, <2>1 DEF GrantFollows, RowFollows
    <2> QED
        BY <1>1, <2>1, <2>2 DEF DraftFollows, RowFollows
<1>5. ActionOwned(s)'
    <2>1. pc[s] \in {"issue", "flush", "commit"} /\ call[s].op = "action_revoke"
            => call[s].cred \in Stored
        BY DEF RequestSound, UpdateSeen, SnapshotStored
    <2> QED
        BY <1>1, <1>3, <2>1 DEF ActionOwned
<1>6. RevokeSees(s)' /\ Late(s)'
    <2>1. Gone(s) => Gone(s)'
        BY <1>1, <1>2, StaysDead DEF Gone
    <2> QED
        BY <1>1, <1>2, <2>1 DEF RevokeSees, Late
<1>7. Told(s)'
    <2>1. answer[s] \in {"refused", "error"} => NewRows(s) \cap Stored' = {}
        <3> SUFFICES ASSUME answer[s] \in {"refused", "error"}, NEW t \in NewRows(s), t \in Stored'
                     PROVE  FALSE
            OBVIOUS
        <3>1. t \notin Stored
            BY DEF Told
        <3>2. PICK r \in Request : Commit(r) /\ t \in NewRows(r)
            BY <3>1, StoredByCommit, CommitStores
        <3>3. r = s
            BY <3>2, NewRowsAreTokens
        <3> QED
            BY <1>1, <3>2, <3>3 DEF Commit, Close, TypeOK
    <2>2. call[s].op = "revoke" => call[s].cred \in Stored
        BY DEF RevokeSees
    <2> QED
        BY <1>1, <1>2, <1>3, <2>1, <2>2 DEF Told
<1> QED
    BY <1>4, <1>5, <1>6, <1>7

\* What is true of a request stays so.
LEMMA StepRequestTrue == IInv /\ JInv /\ [Next]_vars => \A s \in Request : RequestTrue(s)'
<1> SUFFICES ASSUME IInv, JInv, [Next]_vars, NEW s \in Request PROVE RequestTrue(s)'
    OBVIOUS
<1>1. CASE Arrive(s) \/ RequestStep(s) \/ Crash(s)
    BY <1>1, OwnDrafts, OwnRevokeSees, OwnLate, OwnTold DEF RequestTrue
<1>2. CASE ~(Arrive(s) \/ RequestStep(s) \/ Crash(s))
    BY <1>2, Aside, AsideTrue
<1> QED
    BY <1>1, <1>2


\* What a commit stores is worth what its parent is worth.
LEMMA NewFollows ==
    ASSUME IInv, JInv, NEW r \in Request, Commit(r), NEW t \in NewRows(r), NEW row,
           row = draft[r][KindOf(t)]
    PROVE  /\ pc[r] = "commit" /\ row \in Row
           /\ table'[t] = row /\ t = <<r, KindOf(t)>> /\ KindOf(t) \in Issues(call[r].op)
           /\ Stems(r, row) /\ RowFollows(r, row) /\ GrantFollows(r) /\ GrantStems(r)
           /\ call[r].op \in {"authorize", "client_credentials"} \cup Derives
<1>1. pc[r] = "commit" /\ GrantStems(r) /\ GrantFollows(r) /\ DraftFollows(r)
    BY DEF Commit, IInv, RequestSound, JInv, RequestTrue
<1>2. table'[t] = row
    BY CommitStores
<1>3. /\ t = <<r, KindOf(t)>> /\ KindOf(t) \in Issues(call[r].op) /\ KindOf(t) \in Kind
      /\ row \in Row /\ Stems(r, row)
    BY <1>1, DraftedRows
<1>4. RowFollows(r, row)
    BY <1>1, <1>3, NoRowIsNoRow DEF DraftFollows
<1>5. call[r].op \in {"authorize", "client_credentials"} \cup Derives
    BY <1>3 DEF Issues, Derives
<1> QED
    BY <1>1, <1>2, <1>3, <1>4, <1>5

\* A row's parent stays what the row was issued from.
LEMMA StepFollowsItsParent == IInv /\ JInv /\ [Next]_vars => FollowsItsParent'
<1> SUFFICES ASSUME IInv, JInv, [Next]_vars, NEW t \in Stored', NEW p,
                    p = table'[t].parent, p # None
             PROVE  /\ p \in Stored'
                    /\ table'[t].client = table'[p].client
                    /\ table'[t].user = table'[p].user
                    /\ table'[t].scope = table'[p].scope
                    /\ table'[t].granted < Expires(p)'
                    /\ KindOf(p) = "code" => p \in revoked'
                    /\ KindOf(p) = "refresh" => KindOf(t) = "access"
    BY DEF FollowsItsParent
<1>1. revoked \subseteq revoked'
    BY Forward
<1>2. p \in Stored => p \in Stored' /\ table'[p] = table[p] /\ Expires(p)' = Expires(p)
    BY ExpiryStays
<1>3. CASE t \in Stored
    <2>1. table'[t] = table[t]
        BY <1>3, RowsStay
    <2>2. /\ p \in Stored
          /\ table[t].client = table[p].client
          /\ table[t].user = table[p].user
          /\ table[t].scope = table[p].scope
          /\ table[t].granted < Expires(p)
          /\ KindOf(p) = "code" => p \in revoked
          /\ KindOf(p) = "refresh" => KindOf(t) = "access"
        BY <1>3, <2>1 DEF JInv, FollowsItsParent
    <2> QED
        BY <1>1, <1>2, <2>1, <2>2
<1>4. CASE t \notin Stored
    <2>1. PICK r \in Request : Commit(r) /\ t \in NewRows(r)
        BY <1>4, StoredByCommit, CommitStores
    <2>2. /\ pc[r] = "commit" /\ KindOf(t) \in Issues(call[r].op)
          /\ Stems(r, table'[t]) /\ RowFollows(r, table'[t])
          /\ GrantFollows(r) /\ GrantStems(r)
          /\ call[r].op \in {"authorize", "client_credentials"} \cup Derives
        BY <2>1, NewFollows
    <2>3. call[r].op \in Derives /\ p = call[r].cred
        BY <2>2 DEF Stems, Derives
    <2>4. /\ p \in Stored
          /\ table'[t].client = table[p].client
          /\ table'[t].user = table[p].user
          /\ table'[t].scope = table[p].scope
          /\ table'[t].granted < Expires(p)
        BY <2>2, <2>3 DEF GrantFollows, RowFollows
    <2>5. CASE call[r].op = "authorization_code"
        <3>1. KindOf(p) = "code" /\ p \in Updates(r)
            BY <2>2, <2>3, <2>5 DEF GrantStems, Updates
        <3> QED
            <4>1. p \in revoked' /\ KindOf(p) # "refresh"
                BY <2>1, <3>1 DEF Commit
            <4> QED
                BY <1>2, <2>2, <2>4, <4>1, Zenon
    <2>6. CASE call[r].op = "refresh_token"
        <3>1. KindOf(p) = "refresh" /\ KindOf(t) = "access"
            BY <2>2, <2>3, <2>6 DEF GrantStems, Issues
        <3> QED
            BY <1>2, <2>2, <2>4, <3>1
    <2> QED
        BY <2>3, <2>5, <2>6 DEF Derives
<1> QED
    BY <1>3, <1>4

\* A token without an owner is a confidential client's own.
LEMMA StepOwnerless == IInv /\ JInv /\ [Next]_vars => OwnerlessIsClientCredentials'
<1> SUFFICES ASSUME IInv, JInv, [Next]_vars, NEW t \in Stored', table'[t].user = None
             PROVE  KindOf(t) = "access" /\ table'[t].parent = None /\ table'[t].client \in Confidential
    BY DEF OwnerlessIsClientCredentials
<1>1. CASE t \in Stored
    BY <1>1, RowsStay DEF JInv, OwnerlessIsClientCredentials
<1>2. CASE t \notin Stored
    <2>1. PICK r \in Request : Commit(r) /\ t \in NewRows(r)
        BY <1>2, StoredByCommit, CommitStores
    <2>2. /\ pc[r] = "commit" /\ KindOf(t) \in Issues(call[r].op)
          /\ Stems(r, table'[t]) /\ RowFollows(r, table'[t])
          /\ GrantFollows(r) /\ GrantStems(r)
          /\ call[r].op \in {"authorize", "client_credentials"} \cup Derives
        BY <2>1, NewFollows
    <2>3. call[r].op # "authorize"
        BY <2>2, ConstantsAssumption DEF RowFollows
    <2>4. call[r].op \notin Derives
        <3> SUFFICES ASSUME call[r].op \in Derives PROVE FALSE
            OBVIOUS
        <3>1. call[r].cred \in Stored /\ table[call[r].cred].user = None
            BY <2>2 DEF GrantFollows, RowFollows
        <3>2. KindOf(call[r].cred) = "access"
            BY <3>1 DEF JInv, OwnerlessIsClientCredentials
        <3> QED
            BY <2>2, <3>2 DEF GrantStems, Derives
    <2>5. call[r].op = "client_credentials"
        BY <2>2, <2>3, <2>4
    <2> QED
        BY <2>2, <2>5 DEF GrantFollows, RowFollows, Stems, Issues, Derives
<1> QED
    BY <1>1, <1>2

\* A stored row expires at a moment of the clock.
LEMMA ExpiresIsTime ==
    ASSUME TypeOK, NEW t \in Stored
    PROVE  Expires(t) \in Nat
    BY StoredIsRow, ConstantsAssumption DEF Expires, Row, KindOf, Token, Kind

\* What the autovacuum found stays expired.
LEMMA StepGcFoundExpired == IInv /\ JInv /\ [Next]_vars => GcFoundExpired'
<1> SUFFICES ASSUME IInv, JInv, [Next]_vars, NEW t \in gc'.found
             PROVE  Expires(t)' < now'
    BY DEF GcFoundExpired
<1>1. t \in Stored /\ Expires(t) < now
    <2>1. CASE t \in gc.found
        BY <2>1 DEF IInv, GcFoundStored, JInv, GcFoundExpired
    <2>2. CASE t \notin gc.found
        <3>1. gc' # gc /\ gc'.found # gc.found
            BY <2>2
        <3>2. GcSearch
            <4>1. ~GcUnlink /\ ~GcConflict
                BY <2>2 DEF GcUnlink, GcConflict, GcIdle
            <4>2. \A r \in Request : ~Commit(r)
                BY <3>1 DEF Commit, IInv, TypeOK
            <4>3. \A c \in Administered : ~UnlinkClient(c) /\ ~UnlinkUser(c) /\ ~UnlinkOwn(c)
                BY <3>1 DEF UnlinkClient, UnlinkUser, UnlinkOwn, BeatGc, IInv, TypeOK
            <4> QED
                BY <3>1, <4>1, <4>2, <4>3 DEF Next, vars, RequestStep, Arrive, Begin, Refuse,
                   Handle, Insert, InsertConflict, UpdateConflict, Retry, Flush, Crash, Tick,
                   ToggleClient, Replicate, Idle
        <3>3. t \in {u \in Visible : Expires(u) < now}
            BY <3>2 DEF GcSearch, IInv, TypeOK
        <3> QED
            BY <3>3 DEF Visible
    <2> QED
        BY <2>1, <2>2
<1>2. Expires(t)' = Expires(t)
    BY <1>1, ExpiryStays
<1>3. Expires(t) \in Nat
    BY <1>1, ExpiresIsTime DEF IInv
<1> QED
    BY <1>1, <1>2, <1>3, Forward

\* What is deleted has its reason, and keeps it.
LEMMA StepDeletedForAReason == IInv /\ JInv /\ [Next]_vars => DeletedForAReason'
<1> SUFFICES ASSUME IInv, JInv, [Next]_vars, NEW t \in deleted'
             PROVE  ReasonToDelete(t)'
    BY DEF DeletedForAReason
<1>1. /\ now \in Nat /\ now' \in Nat /\ now <= now'
      /\ departed \subseteq departed' /\ unlinked \subseteq unlinked'
      /\ \A c \in Client : clients[c] = "deleted" => clients'[c] = "deleted"
    BY Forward
<1>2. ASSUME t \in Stored
      PROVE  /\ table[t].client \in Client /\ Expires(t) \in Nat
             /\ table'[t] = table[t] /\ Expires(t)' = Expires(t)
    BY <1>2, StoredIsRow, ExpiresIsTime, ExpiryStays DEF IInv, Row
<1>3. CASE t \in deleted
    <2>1. t \in Stored /\ ReasonToDelete(t)
        BY <1>3 DEF IInv, TypeOK, JInv, DeletedForAReason
    <2> QED
        BY <1>1, <1>2, <2>1 DEF ReasonToDelete
<1>4. CASE t \notin deleted
    <2>1. \/ GcUnlink
          \/ \E c \in Administered \cap Client : UnlinkClient(c)
          \/ \E u \in Administered \cap User : UnlinkUser(u) \/ UnlinkOwn(u)
        BY <1>4 DEF Next, vars, local, db, tokens, RequestStep, Arrive, Begin, Refuse, Handle,
           Insert, InsertConflict, UpdateConflict, Retry, Flush, Commit, Crash, Tick, GcSearch,
           GcConflict, ToggleClient, Replicate, Idle
    <2>2. CASE GcUnlink
        <3>1. t \in gc.found /\ t \in Stored /\ Expires(t) < now
            BY <1>4, <2>2 DEF GcUnlink, Delete, IInv, GcFoundStored, JInv, GcFoundExpired
        <3> QED
            BY <1>1, <1>2, <3>1 DEF ReasonToDelete
    <2>3. ASSUME NEW c \in Client, UnlinkClient(c) PROVE ReasonToDelete(t)'
        <3>1. t \in Stored /\ table[t].client = c
            BY <1>4, <2>3 DEF UnlinkClient, Delete, Visible
        <3>2. clients'[c] = "deleted"
            BY <2>3 DEF UnlinkClient, IInv, TypeOK
        <3> QED
            BY <1>2, <3>1, <3>2 DEF ReasonToDelete
    <2>4. ASSUME NEW u, UnlinkUser(u) PROVE ReasonToDelete(t)'
        <3>1. t \in Stored /\ table[t].user = u /\ u \in departed'
            BY <1>4, <2>4 DEF UnlinkUser, Delete, Visible
        <3> QED
            BY <1>2, <3>1 DEF ReasonToDelete
    <2>5. ASSUME NEW u, UnlinkOwn(u) PROVE ReasonToDelete(t)'
        BY <1>4, <2>5 DEF UnlinkOwn, Delete, ReasonToDelete
    <2> QED
        BY <2>1, <2>2, <2>3, <2>4, <2>5
<1> QED
    BY <1>3, <1>4

\* The first state satisfies the invariant.
LEMMA JInvInit == Init => JInv
<1> SUFFICES ASSUME Init PROVE JInv
    OBVIOUS
<1>1. Stored = {}
    BY DEF Init, Stored
<1>2. ASSUME NEW r \in Request PROVE RequestTrue(r)
    BY DEF Init, RequestTrue, GrantFollows, DraftFollows, ActionOwned, RevokeSees, Late, Told,
       NoCall
<1> QED
    BY <1>1, <1>2 DEF Init, JInv, FollowsItsParent, OwnerlessIsClientCredentials,
       DeletedForAReason, GcFoundExpired, GcIdle

\* The two invariants are inductive together.
LEMMA JInvariance == Spec => [](IInv /\ JInv)
<1>1. IInv /\ JInv /\ [Next]_vars => JInv'
    BY StepRequestTrue, StepFollowsItsParent, StepOwnerless, StepGcFoundExpired,
       StepDeletedForAReason DEF JInv
<1> QED
    BY Invariance, JInvInit, <1>1, PTL DEF Spec


----------------------------------------------------------------------------
(* The properties *)

\* A token keeps the client, owner and scope of what it was issued from, which had
\* not expired when the request was checked, however much later the row is
\* issued, and finds a code it was issued from revoked.
THEOREM ParentsFollowed == Spec => []FollowsItsParent
    BY JInvariance, PTL DEF JInv

\* Only a confidential client's own access tokens have no resource owner.
THEOREM OwnerlessTokens == Spec => []OwnerlessIsClientCredentials
    BY JInvariance, PTL DEF JInv

\* No request is granted on the strength of a credential that was revoked or
\* deleted before it arrived, in whichever attempt, once the replica has heard
\* of it where a read-only route looks it up there.
THEOREM RevocationHeeded == Spec => []RevocationIsHeeded
<1>1. JInv => RevocationIsHeeded
    BY DEF JInv, RequestTrue, Late, RevocationIsHeeded
<1> QED
    BY <1>1, JInvariance, PTL

\* A revocation that was answered left its token revoked or gone.
THEOREM RevocationEffective == Spec => []RevokeTakesEffect
<1>1. JInv => RevokeTakesEffect
    BY DEF JInv, RequestTrue, Told, RevokeTakesEffect
<1> QED
    BY <1>1, JInvariance, PTL

\* A success stored its rows, which only expiry, the deletion of their client or
\* of their owner, or that owner's own hand takes away; a failure stored none.
THEOREM AnswersTrue == Spec => []AnswerTellsEffect
<1>1. IInv /\ JInv => AnswerTellsEffect
    <2> SUFFICES ASSUME IInv, JInv, NEW r \in Request
                 PROVE  /\ answer[r] = "ok" => \A t \in NewRows(r) :
                             /\ t \in Stored
                             /\ \/ t \in Visible
                                \/ Expires(t) <= now
                                \/ clients[table[t].client] = "deleted"
                                \/ table[t].user \in departed
                                \/ t \in unlinked
                        /\ answer[r] \in {"refused", "error"} => NewRows(r) \cap Stored = {}
        BY DEF AnswerTellsEffect
    <2>1. Told(r)
        BY DEF JInv, RequestTrue
    <2>2. ASSUME NEW t \in Stored
          PROVE  \/ t \in Visible
                 \/ Expires(t) <= now
                 \/ clients[table[t].client] = "deleted"
                 \/ table[t].user \in departed
                 \/ t \in unlinked
        <3>1. Expires(t) \in Nat /\ now \in Nat
            BY ExpiresIsTime DEF IInv, TypeOK
        <3>2. t \in deleted => ReasonToDelete(t)
            BY DEF JInv, DeletedForAReason
        <3> QED
            BY <3>1, <3>2 DEF Visible, ReasonToDelete
    <2> QED
        BY <2>1, <2>2 DEF Told
<1> QED
    BY <1>1, JInvariance, PTL

\* A row is revoked by its own client or its own resource owner, for good.
THEOREM OwnRevocations == Spec => RevokedByItsOwn
<1> DEFINE Owned(t) == \E r \in Request :
             /\ pc[r] = "commit" /\ call[r].cred = t
             /\ \/ call[r].client = table[t].client
                \/ call[r].op = "action_revoke" /\ call[r].user = table[t].user
<1>1. IInv /\ JInv /\ [Next]_vars =>
        revoked \subseteq revoked' /\ \A t \in revoked' \ revoked : Owned(t)
    <2> SUFFICES ASSUME IInv, JInv, [Next]_vars, NEW t \in revoked' \ revoked PROVE Owned(t)
        BY Forward
    <2>1. PICK r \in Request : Commit(r) /\ t \in Updates(r)
        BY RevokedByCommit
    <2>2. pc[r] = "commit" /\ t = call[r].cred
        BY <2>1 DEF Commit, Updates
    <2>3. RequestTrue(r) /\ RequestSound(r)
        BY DEF IInv, JInv
    <2>4. CASE call[r].op = "authorization_code"
        BY <2>2, <2>3, <2>4 DEF RequestTrue, GrantFollows, Derives
    <2>5. CASE call[r].op = "action_revoke"
        BY <2>2, <2>3, <2>5 DEF RequestTrue, ActionOwned
    <2>6. CASE call[r].op \notin {"authorization_code", "action_revoke"}
        BY <2>1, <2>2, <2>6 DEF Updates, LookupForRevoke
    <2> QED
        BY <2>4, <2>5, <2>6
<1> QED
    BY <1>1, JInvariance, PTL DEF Spec, RevokedByItsOwn

----------------------------------------------------------------------------
(* The refinement of the ledger *)

\* The ledger's entry of a stored row.
Entry(t, row) ==
    [kind |-> KindOf(t), client |-> row.client, user |-> row.user, scope |-> row.scope,
     parent |-> row.parent]

Entries == [t \in Token |-> Credential(t)]

\* Where a row is stored, and where none is.
LEMMA EntryOf ==
    /\ \A t \in Token : Entries[t] = IF t \in Stored THEN Entry(t, table[t]) ELSE None
    /\ Entries = [t \in Token |-> Entries[t]]
    BY DEF Entries, Credential, Entry

\* An entry is not the absence of one.
LEMMA EntryIsSome ==
    ASSUME NEW t \in Stored, TypeOK
    PROVE  Entries[t] # None
<1>1. table[t] \in Row /\ t \in Token
    BY StoredIsRow
<1> QED
    BY <1>1, EntryOf, LedgerAssumption DEF Entry, Row, KindOf, Token


\* The ledger starts empty.
LEMMA LedgerInit == Init => Ledger!Init
<1>1. Init => Stored = {} /\ revoked = {}
    BY DEF Init, Stored
<1> QED
    BY <1>1 DEF Ledger!Init, Credential

\* A step that commits nothing leaves the ledger as it is.
LEMMA LedgerStutters ==
    ASSUME IInv, [Next]_vars, ~\E r \in Request : Commit(r)
    PROVE  UNCHANGED <<Entries, revoked>>
    BY StoredByCommit, RevokedByCommit DEF Entries, Credential

\* What a commit makes of the ledger.
LEMMA CommitEntries ==
    ASSUME IInv, NEW r \in Request, Commit(r)
    PROVE  /\ Entries' = [t \in Token |->
                IF t \in NewRows(r) THEN Entry(t, draft[r][KindOf(t)]) ELSE Entries[t]]
           /\ \A t \in NewRows(r) : t \in Token /\ Entries[t] = None /\ Entries'[t] # None
           /\ revoked' = revoked \cup Updates(r)
<1>1. /\ Stored' = Stored \cup NewRows(r)
      /\ \A t \in Stored : t \notin NewRows(r) /\ table'[t] = table[t]
      /\ \A t \in NewRows(r) : /\ t \in Token /\ table'[t] = draft[r][KindOf(t)]
                              /\ draft[r][KindOf(t)] \in Row
    BY CommitStores
<1>2. Entries' = [t \in Token |->
            IF t \in NewRows(r) THEN Entry(t, draft[r][KindOf(t)]) ELSE Entries[t]]
    BY <1>1 DEF Entries, Credential, Entry
<1>3. ASSUME NEW t \in NewRows(r)
      PROVE  t \in Token /\ Entries[t] = None /\ Entries'[t] # None
    <2>1. t \in Token /\ t \notin Stored /\ draft[r][KindOf(t)] \in Row
        BY <1>1, <1>3
    <2>2. Entries[t] = None
        BY <2>1, EntryOf
    <2>3. Entry(t, draft[r][KindOf(t)]) # None
        BY <2>1, LedgerAssumption DEF Entry, Row, KindOf, Token
    <2> QED
        BY <1>2, <1>3, <2>1, <2>2, <2>3
<1> QED
    BY <1>2, <1>3 DEF Commit

\* The entry a request derives from another one.
DerivedFrom(e, kind, p) ==
    [kind |-> kind, client |-> e.client, user |-> e.user, scope |-> e.scope, parent |-> p]

\* A row that is issued from another one gives an entry derived from its entry.
LEMMA DerivedEntry ==
    ASSUME NEW t, NEW p, NEW row, NEW from,
           row.parent = p, row.client = from.client, row.user = from.user,
           row.scope = from.scope
    PROVE  Entry(t, row) = DerivedFrom(Entry(p, from), KindOf(t), p)
    BY DEF Entry, DerivedFrom

\* The commit of an exchange spends the code and hands out its pair.
LEMMA ExchangeStep ==
    ASSUME IInv, JInv, NEW r \in Request, Commit(r), call[r].op = "authorization_code"
    PROVE  Ledger!Exchange(call[r].cred)
<1> DEFINE p == call[r].cred
           a == <<r, "access">>
           f == <<r, "refresh">>
<1>1. NewRows(r) = {a, f} /\ Updates(r) = {p}
    BY DEF NewRows, Issues, Updates
<1>2. /\ pc[r] = "commit" /\ GrantStems(r) /\ GrantFollows(r)
      /\ \A k \in {"access", "refresh"} :
            Stems(r, draft[r][k]) /\ RowFollows(r, draft[r][k])
    <2>1. \A t \in {a, f} : LET row == draft[r][KindOf(t)] IN
            /\ pc[r] = "commit" /\ GrantStems(r) /\ GrantFollows(r)
            /\ Stems(r, row) /\ RowFollows(r, row)
        BY <1>1, NewFollows
    <2> QED
        BY <2>1 DEF KindOf
<1>3. /\ p \in Stored /\ KindOf(p) = "code" /\ p \notin revoked
      /\ \A k \in {"access", "refresh"} :
            /\ draft[r][k].parent = p /\ draft[r][k].client = table[p].client
            /\ draft[r][k].user = table[p].user /\ draft[r][k].scope = table[p].scope
    <2>1. KindOf(p) = "code" /\ snap[r].row = "live" /\ p \in Stored
          /\ call[r].client = table[p].client
        BY <1>2 DEF GrantStems, GrantFollows, Derives
    <2>2. p \notin revoked
        BY <1>2, <2>1 DEF IInv, CodeUnrevoked
    <2> QED
        BY <1>2, <2>1, <2>2 DEF Stems, RowFollows, Derives
<1>4. p \in Token /\ Entries[p] = Entry(p, table[p]) /\ Entries[p] # None
    BY <1>3, EntryOf, EntryIsSome DEF Stored, IInv
<1>5. /\ a \in Token /\ f \in Token /\ a # f
      /\ Entries[a] = None /\ Entries'[a] # None /\ Entries[f] = None /\ Entries'[f] # None
      /\ revoked' = revoked \cup {p}
      /\ Entries' = [t \in Token |->
            IF t \in {a, f} THEN Entry(t, draft[r][KindOf(t)]) ELSE Entries[t]]
    BY <1>1, CommitEntries
<1>6. /\ KindOf(a) = "access" /\ KindOf(f) = "refresh"
      /\ Entry(a, draft[r]["access"]) = DerivedFrom(Entries[p], "access", p)
      /\ Entry(f, draft[r]["refresh"]) = DerivedFrom(Entries[p], "refresh", p)
    BY <1>3, <1>4, DerivedEntry DEF KindOf
<1>7. Entries' = [Entries EXCEPT ![a] = DerivedFrom(Entries[p], "access", p),
                                 ![f] = DerivedFrom(Entries[p], "refresh", p)]
    BY <1>5, <1>6, EntryOf
<1>8. Entries[p].kind = "code"
    BY <1>3, <1>4 DEF Entry
<1> QED
    BY <1>3, <1>4, <1>5, <1>7, <1>8
    DEF Ledger!Exchange, Ledger!Unused, Ledger!HandsOut, Ledger!Derived, DerivedFrom, Entries


\* The commit of a refresh hands out an access token.
LEMMA RefreshStep ==
    ASSUME IInv, JInv, NEW r \in Request, Commit(r), call[r].op = "refresh_token"
    PROVE  Ledger!Refresh(call[r].cred)
<1> DEFINE p == call[r].cred
           a == <<r, "access">>
           row == draft[r]["access"]
<1>1. NewRows(r) = {a} /\ Updates(r) = {}
    BY DEF NewRows, Issues, Updates
<1>2. GrantStems(r) /\ GrantFollows(r) /\ pc[r] = "commit" /\ Stems(r, row) /\ RowFollows(r, row)
    <2>1. a \in NewRows(r) /\ row = draft[r][KindOf(a)]
        BY <1>1 DEF KindOf
    <2> QED
        BY <2>1, NewFollows
<1>3. /\ p \in Stored /\ KindOf(p) = "refresh" /\ row.parent = p
      /\ row.client = table[p].client /\ row.user = table[p].user
      /\ row.scope = table[p].scope
    BY <1>2 DEF Stems, GrantStems, GrantFollows, RowFollows, Derives
<1>4. p \in Token /\ Entries[p] = Entry(p, table[p]) /\ Entries[p] # None
    BY <1>3, EntryOf, EntryIsSome DEF Stored, IInv
<1>5. /\ a \in Token /\ Entries[a] = None /\ Entries'[a] # None /\ revoked' = revoked
      /\ Entries' = [t \in Token |->
            IF t \in {a} THEN Entry(t, draft[r][KindOf(t)]) ELSE Entries[t]]
    BY <1>1, CommitEntries
<1>6. KindOf(a) = "access" /\ Entry(a, row) = DerivedFrom(Entries[p], "access", p)
    BY <1>3, <1>4, DerivedEntry DEF KindOf
<1>7. Entries' = [Entries EXCEPT ![a] = DerivedFrom(Entries[p], "access", p)]
    BY <1>5, <1>6, EntryOf
<1>8. Entries[p].kind = "refresh"
    BY <1>3, <1>4 DEF Entry
<1> QED
    BY <1>3, <1>4, <1>5, <1>7, <1>8
    DEF Ledger!Refresh, Ledger!Unused, Ledger!HandsOut, Ledger!Derived, DerivedFrom, Entries

\* The commit of an authorization hands out a code, that of a client's own
\* credentials an access token without an owner.
LEMMA HandOutStep ==
    ASSUME IInv, JInv, NEW r \in Request, Commit(r),
           call[r].op \in {"authorize", "client_credentials"}
    PROVE  \E t \in Token : Ledger!HandOutCode(t) \/ Ledger!HandOutOwnerless(t)
<1>1. PICK t \in Token : /\ NewRows(r) = {t} /\ Updates(r) = {}
                         /\ call[r].op = "authorize" => KindOf(t) = "code"
                         /\ call[r].op = "client_credentials" => KindOf(t) = "access"
    <2>1. Updates(r) = {}
        BY DEF Updates
    <2>2. CASE call[r].op = "authorize"
        <3>1. NewRows(r) = {<<r, "code">>} /\ <<r, "code">> \in Token
            BY <2>2 DEF NewRows, Issues, Token, Kind
        <3> QED
            BY <2>1, <2>2, <3>1 DEF KindOf
    <2>3. CASE call[r].op = "client_credentials"
        <3>1. NewRows(r) = {<<r, "access">>} /\ <<r, "access">> \in Token
            BY <2>3 DEF NewRows, Issues, Token, Kind
        <3> QED
            BY <2>1, <2>3, <3>1 DEF KindOf
    <2> QED
        BY <2>2, <2>3
<1> DEFINE row == draft[r][KindOf(t)]
<1>2. Stems(r, row) /\ RowFollows(r, row) /\ GrantFollows(r) /\ row \in Row /\ pc[r] = "commit"
    BY <1>1, NewFollows
<1>3. /\ Entries[t] = None /\ Entries'[t] # None /\ revoked' = revoked
      /\ Entries' = [u \in Token |->
            IF u \in {t} THEN Entry(u, draft[r][KindOf(u)]) ELSE Entries[u]]
    BY <1>1, CommitEntries
<1>4. Entries' = [Entries EXCEPT ![t] = Entry(t, row)]
    BY <1>3, EntryOf
<1>5. row.client \in Client /\ row.scope \in SUBSET Scope /\ row.parent = None
    BY <1>1, <1>2 DEF Row, Stems, Derives
<1>6. CASE call[r].op = "authorize"
    <2>1. row.user \in User
        BY <1>2, <1>6 DEF RowFollows
    <2>2. Entry(t, row) = [kind |-> "code", client |-> row.client,
                                user |-> row.user, scope |-> row.scope,
                                parent |-> None]
        BY <1>1, <1>5, <1>6 DEF Entry
    <2>3. \E c \in Client, u \in User, s \in SUBSET Scope :
            Entries' = [Entries EXCEPT ![t] = [kind |-> "code", client |-> c, user |-> u,
                                               scope |-> s, parent |-> None]]
        BY <1>4, <1>5, <2>1, <2>2
    <2>4. Ledger!HandOutCode(t)
        BY <1>3, <2>3 DEF Ledger!HandOutCode, Ledger!HandsOut, Entries
    <2> QED
        BY <2>4
<1>7. CASE call[r].op = "client_credentials"
    <2>1. row.user = None /\ row.client \in Confidential
        BY <1>2, <1>7 DEF RowFollows, GrantFollows
    <2>2. Entry(t, row) = [kind |-> "access", client |-> row.client, user |-> None,
                                scope |-> row.scope, parent |-> None]
        BY <1>1, <1>5, <1>7, <2>1 DEF Entry
    <2>3. \E c \in Confidential, s \in SUBSET Scope :
            Entries' = [Entries EXCEPT ![t] = [kind |-> "access", client |-> c, user |-> None,
                                               scope |-> s, parent |-> None]]
        BY <1>4, <1>5, <2>1, <2>2
    <2>4. Ledger!HandOutOwnerless(t)
        BY <1>3, <2>3 DEF Ledger!HandOutOwnerless, Ledger!HandsOut, Entries
    <2> QED
        BY <2>4
<1> QED
    BY <1>6, <1>7

\* The commit of any other request spends the row it updates, if any.
LEMMA SpendStep ==
    ASSUME IInv, JInv, NEW r \in Request, Commit(r),
           call[r].op \notin {"authorize", "client_credentials"} \cup Derives
    PROVE  \/ \E t \in Token : Ledger!Spend(t)
           \/ UNCHANGED <<Entries, revoked>>
<1>1. NewRows(r) = {}
    BY DEF NewRows, Issues, Derives
<1>2. Entries' = Entries /\ revoked' = revoked \cup Updates(r)
    BY <1>1, CommitEntries, EntryOf
<1>3. CASE Updates(r) = {}
    BY <1>2, <1>3
<1>4. CASE Updates(r) # {}
    <2>1. PICK t \in Stored : Updates(r) = {t}
        BY <1>4, UpdatesAreStored DEF Updates, Commit
    <2>2. t \in Token /\ Entries[t] # None
        BY <2>1, EntryIsSome DEF Stored, IInv
    <2>3. Ledger!Spend(t)
        BY <1>2, <2>1, <2>2 DEF Ledger!Spend, Ledger!Unused, Entries
    <2> QED
        BY <2>2, <2>3
<1> QED
    BY <1>3, <1>4

\* A commit is one step of the ledger, or none.
LEMMA LedgerNext == IInv /\ JInv /\ [Next]_vars => [Ledger!Next]_(Ledger!vars)
<1> SUFFICES ASSUME IInv, JInv, [Next]_vars
             PROVE  Ledger!Next \/ UNCHANGED <<Entries, revoked>>
    BY DEF Ledger!vars, Entries
<1>1. CASE ~\E r \in Request : Commit(r)
    BY <1>1, LedgerStutters
<1>2. ASSUME NEW r \in Request, Commit(r)
      PROVE  Ledger!Next \/ UNCHANGED <<Entries, revoked>>
    <2>1. CASE call[r].op = "authorization_code"
        <3>1. call[r].cred \in Token
            <4>1. Updates(r) = {call[r].cred}
                BY <2>1 DEF Updates
            <4> QED
                BY <1>2, <4>1, UpdatesAreStored DEF Commit, Stored
        <3> QED
            BY <1>2, <2>1, <3>1, ExchangeStep DEF Ledger!Next
    <2>2. CASE call[r].op = "refresh_token"
        <3>1. call[r].cred \in Token
            <4>1. <<r, "access">> \in NewRows(r)
                BY <2>2 DEF NewRows, Issues
            <4>2. GrantFollows(r) /\ pc[r] = "commit"
                BY <1>2, <4>1, NewFollows
            <4> QED
                BY <2>2, <4>2 DEF GrantFollows, Derives, Stored
        <3> QED
            BY <1>2, <2>2, <3>1, RefreshStep DEF Ledger!Next
    <2>3. CASE call[r].op \in {"authorize", "client_credentials"}
        BY <1>2, <2>3, HandOutStep DEF Ledger!Next
    <2>4. CASE call[r].op \notin {"authorize", "client_credentials"} \cup Derives
        BY <1>2, <2>4, SpendStep DEF Ledger!Next
    <2> QED
        BY <2>1, <2>2, <2>3, <2>4 DEF Derives
<1> QED
    BY <1>1, <1>2

\* The authorization server, with its transactions, races, retries, clock and
\* autovacuum, is a ledger of credentials.
THEOREM ImplementsLedger == Spec => LedgerSpec
    BY JInvariance, LedgerInit, LedgerNext, PTL DEF Spec, LedgerSpec, Ledger!Spec

====

---- MODULE OAuth2Tokens ----
(***************************************************************************)
(* The OAuth2 authorization server of ssi_rest_api_auth_oauth2: the        *)
(* authorize, token and revoke routes, the bearer lookup of the            *)
(* authentication provider, the UI revoke button, the expiry autovacuum    *)
(* and the administration of a client, over one PostgreSQL database.       *)
(*                                                                         *)
(* Every HTTP request runs in a REPEATABLE READ transaction: it reads the  *)
(* snapshot taken by its first query, its INSERTs reach the database one   *)
(* by one, its UPDATEs when the ORM flushes after the handler returned,    *)
(* the first updater of a row wins and the other one is rolled back and    *)
(* run again, MaxTries times at most. A bearer token presented to a        *)
(* read-only route is looked up on a replica, which may lag behind. A raw  *)
(* token is a fresh random value, so a row is named by the request whose   *)
(* commit stored it and by its kind.                                       *)
(***************************************************************************)
EXTENDS Integers, FiniteSets

CONSTANTS
    Request,        \* the HTTP requests of a behaviour, each made once
    Client,         \* rows of ssi_rest_oauth_client
    Confidential,   \* the clients with client_type = "confidential"
    Grants,         \* Grants[c]: the grant types client c allows
    User,           \* resource owners
    Scope,          \* scope codes; a scope string is a set of them
    ClientScope,    \* ClientScope[c]: the codes of c's scope_ids
    Lifetime,       \* Lifetime[c][k]: seconds a token of kind k of c lives
    MaxTries,       \* attempts of one request
    Ops,            \* bound: the operations callers ask for
    Faults,         \* bound: the mistakes callers make
    Administered,   \* bound: clients an administrator changes or deletes, and
                    \* users one deletes or who delete rows of their own
    MaxClock,       \* bound on the clock
    None            \* no user, no parent, no row, no argument

Kind == {"code", "access", "refresh"}

GrantType == {"authorization_code", "refresh_token", "client_credentials"}

\* The grants that derive tokens from a credential that was issued before.
Derives == {"authorization_code", "refresh_token"}

\* A bearer token is presented to a route that may write, "use", or to a
\* read-only one, "read".
Op == {"authorize", "revoke", "action_revoke", "use", "read"} \cup GrantType

\* What a caller gets wrong: a parameter, the client secret, the PKCE verifier,
\* or the kind of the credential.
Fault == {"params", "secret", "pkce", "kind"}

Token == Request \X Kind

KindOf(t) == t[2]

ASSUME ConstantsAssumption ==
    /\ Confidential \subseteq Client
    /\ Grants \in [Client -> SUBSET GrantType]
    /\ ClientScope \in [Client -> SUBSET Scope]
    /\ Lifetime \in [Client -> [Kind -> Nat]]
    /\ MaxTries \in Nat \ {0}
    /\ Ops \subseteq Op /\ Faults \subseteq Fault
    /\ Administered \subseteq Client \cup User
    /\ MaxClock \in Nat
    /\ None \notin Client \cup User \cup Token

\* One row of ssi_rest_oauth_token. `at' is the clock its expiry is counted
\* from. The code does not store `parent', the code or refresh token it was
\* issued from, nor `granted', the clock its request was checked against.
Row == [client : Client, user : User \cup {None}, scope : SUBSET Scope,
        parent : Token \cup {None}, granted : Nat, at : Nat]

NoRow == [client |-> None, user |-> None]

NoDraft == [k \in Kind |-> NoRow]

Call == [op : Op, client : Client \cup {None}, user : User \cup {None},
         scope : SUBSET Scope, cred : Token \cup {None},
         fault : Fault \cup {"none"}]

NoCall == [op |-> "none", cred |-> None]

ClientState == {"active", "archived", "deleted", "unknown"}

\* What a transaction's snapshot holds of its credential, of its client and of
\* the user who is signed in.
Snapshot == [row : {"absent", "live", "revoked"}, client : ClientState,
             user : BOOLEAN]

VARIABLES
    now,        \* the wall clock
    table,      \* every row ever committed
    revoked,    \* committed rows whose revoked field is set
    deleted,    \* committed rows that were unlinked since
    unlinked,   \* those of them their own resource owner unlinked
    behind,     \* rows that died, still alive on the replica
    clients,    \* state of each client row
    departed,   \* users that were deleted
    pc,         \* where each request is
    call,       \* what each request asks for
    tries,      \* attempts each request has started
    snap,       \* snapshot of each request's transaction
    beaten,     \* whether another one wrote, since, the row it writes
    granted,    \* the clock its handler was granted at
    draft,      \* what the rows its handler inserted hold, uncommitted
    answer,     \* what the client was told
    settled,    \* whether its credential was dead before it arrived, and the
                \* replica had heard of it where it may be read there
    gc          \* the autovacuum's transaction: rows found, beaten to one

tokens == <<table, revoked, deleted, unlinked, behind>>
db == <<tokens, clients, departed>>
local == <<tries, snap, granted, draft>>
vars == <<now, db, pc, call, local, beaten, answer, settled, gc>>

NoSnapshot == [row |-> "absent", client |-> "unknown", user |-> FALSE]

GcIdle == [found |-> {}, beaten |-> FALSE]

Init ==
    /\ now = 0
    /\ table = [t \in Token |-> NoRow]
    /\ revoked = {} /\ deleted = {} /\ unlinked = {} /\ behind = {}
    /\ departed = {}
    /\ clients = [c \in Client |-> "active"]
    /\ pc = [r \in Request |-> "idle"]
    /\ call = [r \in Request |-> NoCall]
    /\ tries = [r \in Request |-> 0]
    /\ snap = [r \in Request |-> NoSnapshot]
    /\ beaten = [r \in Request |-> FALSE]
    /\ granted = [r \in Request |-> 0]
    /\ draft = [r \in Request |-> NoDraft]
    /\ answer = [r \in Request |-> "none"]
    /\ settled = [r \in Request |-> FALSE]
    /\ gc = GcIdle

----------------------------------------------------------------------------
(* Rows and what a transaction sees of them *)

Stored == {t \in Token : table[t] # NoRow}

Visible == Stored \ deleted

Expires(t) == table[t].at + Lifetime[table[t].client][KindOf(t)]

RowState(t) ==
    CASE t \in Visible \ revoked -> "live"
      [] t \in Visible \cap revoked -> "revoked"
      [] OTHER -> "absent"

ClientRow(c) == IF c \in Client THEN clients[c] ELSE "unknown"

\* What a lagging replica shows: it may not have received a row's death, nor
\* its birth.
ReplicaStates(t) ==
    {RowState(t), "absent"} \cup IF t \in behind THEN {"live"} ELSE {}

\* What the snapshot of a request may show of its credential.
Shown(r) ==
    LET t == call[r].cred IN
    IF call[r].op = "read" THEN ReplicaStates(t) ELSE {RowState(t)}

\* Faulty: a revoked row still matches.
LookupIgnoringRevoked(r, kind, client) ==
    LET t == call[r].cred IN
    /\ snap[r].row # "absent"
    /\ KindOf(t) = kind /\ Expires(t) > now
    /\ client \in {None, table[t].client}

\* Faulty: an expired row still matches.
LookupIgnoringExpiry(r, kind, client) ==
    LET t == call[r].cred IN
    /\ snap[r].row = "live"
    /\ KindOf(t) = kind
    /\ client \in {None, table[t].client}

\* _lookup: the row of a kind, unrevoked and unexpired, of that client if given.
Lookup(r, kind, client) ==
    LET t == call[r].cred IN
    /\ snap[r].row = "live"
    /\ KindOf(t) = kind
    /\ Expires(t) > now
    /\ client \in {None, table[t].client}

\* Faulty: any client's token.
LookupForRevokeOfAnyClient(r, client) ==
    snap[r].row # "absent" /\ KindOf(call[r].cred) \in {"access", "refresh"}

\* Faulty: access tokens only.
LookupForRevokeOfAccess(r, client) ==
    LET t == call[r].cred IN
    snap[r].row # "absent" /\ KindOf(t) = "access" /\ table[t].client = client

\* _lookup_for_revoke: an access or refresh token of the client, in any state.
LookupForRevoke(r, client) ==
    LET t == call[r].cred IN
    /\ snap[r].row # "absent"
    /\ KindOf(t) \in {"access", "refresh"}
    /\ table[t].client = client

AllowsGrant(c, g) == g \in Grants[c]

\* _check_client_secret_if_confidential.
SecretOK(c, fault) == c \in Confidential => fault # "secret"

\* _check_pkce: the verifier answers the challenge stored with the code.
PkceOK(fault) == fault # "pkce"

\* A missing or unsupported parameter, or an unregistered redirect_uri.
ParamsOK(fault) == fault # "params"

----------------------------------------------------------------------------
(* The handlers: whether a request is granted, what it inserts and updates *)

AuthorizeGranted(r) ==
    LET q == call[r] IN
    /\ snap[r].user
    /\ snap[r].client = "active"
    /\ ParamsOK(q.fault)
    /\ AllowsGrant(q.client, "authorization_code")

ExchangeGranted(r) ==
    LET q == call[r] IN
    /\ SecretOK(q.client, q.fault)
    /\ Lookup(r, "code", q.client)
    /\ PkceOK(q.fault)

RefreshGranted(r) ==
    LET q == call[r] IN
    SecretOK(q.client, q.fault) /\ Lookup(r, "refresh", q.client)

\* Faulty: for a public client too, which has no secret to check.
ClientCredentialsToPublic(r) ==
    SecretOK(call[r].client, call[r].fault)

ClientCredentialsGranted(r) ==
    LET q == call[r] IN
    q.client \in Confidential /\ SecretOK(q.client, q.fault)

TokenGranted(r) ==
    LET q == call[r] IN
    /\ ParamsOK(q.fault)
    /\ snap[r].client = "active"
    /\ AllowsGrant(q.client, q.op)
    /\ CASE q.op = "client_credentials" -> ClientCredentialsGranted(r)
         [] q.op = "authorization_code" -> ExchangeGranted(r)
         [] q.op = "refresh_token" -> RefreshGranted(r)

RevokeGranted(r) ==
    LET q == call[r] IN
    /\ ParamsOK(q.fault)
    /\ snap[r].client = "active"
    /\ SecretOK(q.client, q.fault)

\* The record rule: a user sees the rows they are the resource owner of.
ActionRevokeGranted(r) ==
    snap[r].row # "absent" /\ table[call[r].cred].user = call[r].user

\* _rest_auth_verify: a bearer token, of whatever client.
UseGranted(r) == Lookup(r, "access", None)

Granted(r) ==
    CASE call[r].op = "authorize" -> AuthorizeGranted(r)
      [] call[r].op \in GrantType -> TokenGranted(r)
      [] call[r].op = "revoke" -> RevokeGranted(r)
      [] call[r].op = "action_revoke" -> ActionRevokeGranted(r)
      [] OTHER -> UseGranted(r)

\* The kinds of token each operation issues.
Issues(op) ==
    CASE op = "authorize" -> {"code"}
      [] op = "authorization_code" -> {"access", "refresh"}
      [] op \in {"refresh_token", "client_credentials"} -> {"access"}
      [] OTHER -> {}

NewRows(r) == {r} \X Issues(call[r].op)

\* The kinds a granted handler has not issued yet.
Pending(r) == {k \in Issues(call[r].op) : draft[r][k] = NoRow}

\* _issue: what a row of a granted request holds; the clock is read once more.
Issue(r) ==
    LET q == call[r] IN
    [client |-> q.client,
     user |-> CASE q.op = "authorize" -> q.user
                [] q.op = "client_credentials" -> None
                [] OTHER -> table[q.cred].user,
     scope |-> CASE q.op = "authorize" -> q.scope
                 [] q.op = "client_credentials" ->
                      IF q.scope = {} THEN ClientScope[q.client] ELSE q.scope
                 [] OTHER -> table[q.cred].scope,
     parent |-> IF q.op \in Derives THEN q.cred ELSE None,
     granted |-> granted[r], at |-> now]

\* Faulty: the exchange leaves its code unrevoked.
UpdatesWithoutCode(r) ==
    LET q == call[r] IN
    IF \/ q.op = "action_revoke"
       \/ q.op = "revoke" /\ LookupForRevoke(r, q.client)
    THEN {q.cred}
    ELSE {}

\* The rows a granted request sets revoked on.
Updates(r) ==
    LET q == call[r] IN
    IF \/ q.op \in {"authorization_code", "action_revoke"}
       \/ q.op = "revoke" /\ LookupForRevoke(r, q.client)
    THEN {q.cred}
    ELSE {}

\* A transaction holds the locks of the rows it updated until it commits.
Locked(r) == IF pc[r] = "commit" THEN Updates(r) ELSE {}

\* It also holds a share lock on the client and the user its new rows refer to.
RefersTo(r, x) == \E k \in Kind : draft[r][k] # NoRow
                                 /\ x \in {draft[r][k].client, draft[r][k].user}

\* Rows die on the primary; the replica shows them alive until it hears of it.
\* Bound: kept only where somebody reads the replica.
Lag(rows) ==
    behind' = IF "read" \in Ops THEN behind \cup (rows \ (revoked \cup deleted))
              ELSE behind

\* Rows are written: the transactions about to write them have lost the race.
Beat(rows) ==
    beaten' = [r \in Request |->
        \/ beaten[r]
        \/ pc[r] \in {"handle", "issue", "flush"} /\ Updates(r) \cap rows # {}]

----------------------------------------------------------------------------
(* One request, attempt by attempt *)

\* The kinds of credential an operation is meant for.
Expects(op) ==
    CASE op = "authorization_code" -> {"code"}
      [] op = "refresh_token" -> {"refresh"}
      [] op \in {"use", "read"} -> {"access"}
      [] op = "revoke" -> {"access", "refresh"}
      [] OTHER -> Kind

\* What may be asked, with any credential that was ever stored.
Calls ==
    LET Mistakes(S) == (Faults \cap S) \cup {"none"} IN
    {q \in [op : {"authorize"}, client : Client, user : User,
            scope : SUBSET Scope, cred : {None}, fault : Mistakes({"params"})]
           \cup
           [op : {"client_credentials"}, client : Client, user : {None},
            scope : SUBSET Scope, cred : {None}, fault : Mistakes({"secret"})]
           \cup
           [op : {"refresh_token", "revoke"}, client : Client, user : {None},
            scope : {{}}, cred : Stored, fault : Mistakes({"secret"})]
           \cup
           [op : {"authorization_code"}, client : Client, user : {None},
            scope : {{}}, cred : Stored, fault : Mistakes({"secret", "pkce"})]
           \cup
           [op : {"action_revoke"}, client : {None}, user : User,
            scope : {{}}, cred : Stored, fault : {"none"}]
           \cup
           [op : {"use", "read"}, client : {None}, user : {None},
            scope : {{}}, cred : Stored, fault : {"none"}] :
        /\ q.op \in Ops
        /\ q.cred # None /\ "kind" \notin Faults => KindOf(q.cred) \in Expects(q.op)}

Arrive(r) ==
    /\ pc[r] = "idle"
    /\ pc' = [pc EXCEPT ![r] = "begin"]
    /\ \E q \in Calls :
        /\ call' = [call EXCEPT ![r] = q]
        /\ settled' = [settled EXCEPT ![r] =
             q.cred \in (revoked \cup deleted)
                        \ IF q.op = "read" THEN behind ELSE {}]
    /\ UNCHANGED <<now, db, local, beaten, answer, gc>>

\* The attempt's first query takes the snapshot.
Begin(r) ==
    /\ pc[r] = "begin"
    /\ pc' = [pc EXCEPT ![r] = "handle"]
    /\ tries' = [tries EXCEPT ![r] = @ + 1]
    /\ \E row \in Shown(r) :
        snap' = [snap EXCEPT ![r] = [row |-> row,
                                     client |-> ClientRow(call[r].client),
                                     user |-> call[r].user \notin departed]]
    /\ UNCHANGED <<now, db, call, beaten, granted, draft, answer, settled, gc>>

\* The transaction ends and the request's thread forgets what it read.
Close(r, to) ==
    /\ pc' = [pc EXCEPT ![r] = to]
    /\ snap' = [snap EXCEPT ![r] = NoSnapshot]
    /\ granted' = [granted EXCEPT ![r] = 0]
    /\ draft' = [draft EXCEPT ![r] = NoDraft]

\* A RestAuthError: rolled back and answered with its own status.
Refuse(r) ==
    /\ pc[r] = "handle"
    /\ ~Granted(r)
    /\ Close(r, "done")
    /\ answer' = [answer EXCEPT ![r] = "refused"]
    /\ beaten' = [beaten EXCEPT ![r] = FALSE]
    /\ UNCHANGED <<now, db, call, tries, settled, gc>>

\* The handler has checked the request and goes on to issue, if it issues.
Handle(r) ==
    /\ pc[r] = "handle"
    /\ Granted(r)
    /\ pc' = [pc EXCEPT ![r] = IF NewRows(r) = {} THEN "flush" ELSE "issue"]
    /\ granted' = [granted EXCEPT ![r] = now]
    /\ UNCHANGED <<now, db, call, tries, snap, beaten, draft, answer, settled, gc>>

\* What the rows of r refer to is still there.
Refers(r) ==
    clients[call[r].client] # "deleted" /\ Issue(r).user \notin departed

\* One row is hashed and inserted, the access token before the refresh token.
Insert(r) ==
    /\ pc[r] = "issue"
    /\ Refers(r)
    /\ \E k \in Pending(r) :
        /\ k = "refresh" => "access" \notin Pending(r)
        /\ draft' = [draft EXCEPT ![r][k] = Issue(r)]
        /\ pc' = [pc EXCEPT ![r] = IF Pending(r) = {k} THEN "flush" ELSE "issue"]
    /\ UNCHANGED <<now, db, call, tries, snap, granted, beaten, answer, settled, gc>>

\* A concurrency failure: roll back and run again, or give up with a 500.
Retry(r) ==
    /\ beaten' = [beaten EXCEPT ![r] = FALSE]
    /\ IF tries[r] < MaxTries
       THEN Close(r, "begin") /\ UNCHANGED answer
       ELSE Close(r, "done") /\ answer' = [answer EXCEPT ![r] = "error"]
    /\ UNCHANGED <<now, db, call, tries, settled, gc>>

InsertConflict(r) ==
    /\ pc[r] = "issue"
    /\ ~Refers(r)
    /\ Retry(r)

\* The deferred UPDATE waits for the row's lock.
LockFree(r) ==
    \A s \in Request \ {r} : Locked(s) \cap Updates(r) = {}

Flush(r) ==
    /\ pc[r] = "flush"
    /\ LockFree(r)
    /\ ~beaten[r]
    /\ pc' = [pc EXCEPT ![r] = "commit"]
    /\ UNCHANGED <<now, db, call, local, beaten, answer, settled, gc>>

UpdateConflict(r) ==
    /\ pc[r] = "flush"
    /\ LockFree(r)
    /\ beaten[r]
    /\ Retry(r)

\* Once committed, the answer leaves, unless the worker dies in between.
Commit(r) ==
    /\ pc[r] = "commit"
    /\ table' = [t \in Token |->
                    IF t \in NewRows(r) THEN draft[r][KindOf(t)] ELSE table[t]]
    /\ revoked' = revoked \cup Updates(r)
    /\ Lag(Updates(r))
    /\ Beat(Updates(r))
    /\ gc' = [gc EXCEPT !.beaten = @ \/ gc.found \cap Updates(r) # {}]
    /\ \/ Close(r, "done") /\ answer' = [answer EXCEPT ![r] = "ok"]
       \/ Close(r, "lost") /\ UNCHANGED answer
    /\ UNCHANGED <<now, deleted, unlinked, clients, departed, call, tries, settled>>

\* The worker dies: an open transaction is rolled back, nobody is answered.
Crash(r) ==
    /\ pc[r] \in {"begin", "handle", "issue", "flush", "commit"}
    /\ Close(r, "lost")
    /\ beaten' = [beaten EXCEPT ![r] = FALSE]
    /\ UNCHANGED <<now, db, call, tries, answer, settled, gc>>

----------------------------------------------------------------------------
(* What happens beside the requests *)

Tick ==
    /\ now < MaxClock
    /\ now' = now + 1
    /\ UNCHANGED <<db, pc, call, local, beaten, answer, settled, gc>>

\* The replica receives the death of a row.
Replicate(t) ==
    /\ t \in behind
    /\ behind' = behind \ {t}
    /\ UNCHANGED <<now, table, revoked, deleted, unlinked, clients, departed, pc,
                   call, local, beaten, answer, settled, gc>>

\* A DELETE waits for the locks of the rows.
Delete(rows) ==
    /\ \A r \in Request : Locked(r) \cap rows = {}
    /\ deleted' = deleted \cup rows
    /\ Lag(rows)
    /\ Beat(rows)

\* Rows the autovacuum has found are deleted under it.
BeatGc(rows) == gc' = [gc EXCEPT !.beaten = @ \/ gc.found \cap rows # {}]

\* Faulty: the comparison is turned around.
GcSearchUnexpired ==
    /\ gc = GcIdle
    /\ gc' = [gc EXCEPT !.found = {t \in Visible : Expires(t) > now}]
    /\ UNCHANGED <<now, db, pc, call, local, beaten, answer, settled>>

\* _gc_expired_oauth_token, its search and its unlink; one that finds nothing
\* changes nothing.
GcSearch ==
    /\ gc = GcIdle
    /\ gc' = [gc EXCEPT !.found = {t \in Visible : Expires(t) < now}]
    /\ UNCHANGED <<now, db, pc, call, local, beaten, answer, settled>>

GcUnlink ==
    /\ gc.found # {}
    /\ ~gc.beaten
    /\ Delete(gc.found)
    /\ gc' = GcIdle
    /\ UNCHANGED <<now, table, revoked, unlinked, clients, departed, pc, call, local,
                   answer, settled>>

\* The autovacuum logs a conflict and leaves the rows to its next run.
GcConflict ==
    /\ gc.beaten
    /\ gc' = GcIdle
    /\ UNCHANGED <<now, db, pc, call, local, beaten, answer, settled>>

\* An administrator archives or restores a client.
ToggleClient(c) ==
    /\ \/ clients[c] = "active" /\ clients' = [clients EXCEPT ![c] = "archived"]
       \/ clients[c] = "archived" /\ clients' = [clients EXCEPT ![c] = "active"]
    /\ UNCHANGED <<now, tokens, departed, pc, call, local, beaten, answer,
                   settled, gc>>

\* An administrator deletes a client; ondelete="cascade" takes its rows along.
UnlinkClient(c) ==
    /\ clients[c] # "deleted"
    /\ \A r \in Request : ~RefersTo(r, c)
    /\ clients' = [clients EXCEPT ![c] = "deleted"]
    /\ LET rows == {t \in Visible : table[t].client = c} IN
        Delete(rows) /\ BeatGc(rows)
    /\ UNCHANGED <<now, table, revoked, unlinked, departed, pc, call, local, answer,
                   settled>>

\* An administrator deletes a user, and the rows the user is the owner of.
UnlinkUser(u) ==
    /\ u \notin departed
    /\ \A r \in Request : ~RefersTo(r, u)
    /\ departed' = departed \cup {u}
    /\ LET rows == {t \in Visible : table[t].user = u} IN
        Delete(rows) /\ BeatGc(rows)
    /\ UNCHANGED <<now, table, revoked, unlinked, clients, pc, call, local, answer,
                   settled>>

\* Faulty: a deletion that would wait for a lock is skipped and taken for done.
UnlinkOwnUnlessLocked(u) ==
    /\ u \notin departed
    /\ \E t \in Visible :
        /\ table[t].user = u
        /\ unlinked' = unlinked \cup {t}
        /\ IF \E r \in Request : t \in Locked(r)
           THEN UNCHANGED <<deleted, behind, beaten, gc>>
           ELSE Delete({t}) /\ BeatGc({t})
    /\ UNCHANGED <<now, table, revoked, clients, departed, pc, call, local, answer,
                   settled>>

\* A user of base.group_system unlinks a row in the list of tokens, where the
\* record rule shows the user's own.
UnlinkOwn(u) ==
    /\ u \notin departed
    /\ \E t \in Visible :
        /\ table[t].user = u
        /\ unlinked' = unlinked \cup {t}
        /\ Delete({t}) /\ BeatGc({t})
    /\ UNCHANGED <<now, table, revoked, clients, departed, pc, call, local, answer,
                   settled>>

\* No request is left: the server is idle.
Idle ==
    /\ \A r \in Request : pc[r] \in {"done", "lost"}
    /\ UNCHANGED vars

RequestStep(r) ==
    Begin(r) \/ Refuse(r) \/ Handle(r) \/ Insert(r) \/ InsertConflict(r)
    \/ Flush(r) \/ UpdateConflict(r) \/ Commit(r)

Next ==
    \/ \E r \in Request : Arrive(r) \/ RequestStep(r) \/ Crash(r)
    \/ \E c \in Administered \cap Client : ToggleClient(c) \/ UnlinkClient(c)
    \/ \E u \in Administered \cap User : UnlinkUser(u) \/ UnlinkOwn(u)
    \/ \E t \in Token : Replicate(t)
    \/ Tick \/ GcSearch \/ GcUnlink \/ GcConflict \/ Idle

Spec == Init /\ [][Next]_vars

----------------------------------------------------------------------------
(* Properties *)

TypeOK ==
    /\ now \in Nat
    /\ table \in [Token -> Row \cup {NoRow}]
    /\ revoked \subseteq Stored /\ deleted \subseteq Stored
    /\ unlinked \subseteq deleted /\ behind \subseteq revoked \cup deleted
    /\ departed \subseteq User
    /\ clients \in [Client -> ClientState \ {"unknown"}]
    /\ pc \in [Request -> {"idle", "begin", "handle", "issue", "flush", "commit",
                           "done", "lost"}]
    /\ call \in [Request -> Call \cup {NoCall}]
    /\ tries \in [Request -> 0 .. MaxTries]
    /\ snap \in [Request -> Snapshot]
    /\ beaten \in [Request -> BOOLEAN]
    /\ granted \in [Request -> Nat]
    /\ draft \in [Request -> [Kind -> Row \cup {NoRow}]]
    /\ answer \in [Request -> {"none", "ok", "refused", "error"}]
    /\ settled \in [Request -> BOOLEAN]
    /\ gc \in [found : SUBSET Token, beaten : BOOLEAN]

\* An authorization code is redeemed at most once, however many exchanges of
\* it run at the same time: no two stored rows of one kind come from it.
CodeRedeemedOnce ==
    \A s, t \in Stored :
        /\ table[s].parent = table[t].parent
        /\ table[s].parent # None /\ KindOf(table[s].parent) = "code"
        /\ KindOf(s) = KindOf(t)
        => s = t

\* A token keeps the client, the resource owner and the scope of the code or
\* refresh token it was issued from, and finds a code it was issued from
\* revoked. Its request was checked before that one expired, though the token
\* may be issued later: the clock is read once to look the credential up and
\* once more for each token.
FollowsItsParent ==
    \A t \in Stored : LET p == table[t].parent IN
        p # None =>
            /\ p \in Stored
            /\ table[t].client = table[p].client
            /\ table[t].user = table[p].user
            /\ table[t].scope = table[p].scope
            /\ table[t].granted < Expires(p)
            /\ KindOf(p) = "code" => p \in revoked
            /\ KindOf(p) = "refresh" => KindOf(t) = "access"

\* A request that arrives after a credential was revoked or deleted is never
\* granted on the strength of it, though its transaction may be run again. For a
\* read-only route it is the replica's hearing of it that counts: until then
\* such a route goes on serving the token.
RevocationIsHeeded ==
    \A r \in Request :
        /\ answer[r] = "ok"
        /\ call[r].op \in Derives \cup {"use", "read"}
        => ~settled[r]

\* A token without a resource owner, which runs as the public user, is an
\* access token of a confidential client issued for its own credentials.
OwnerlessIsClientCredentials ==
    \A t \in Stored : table[t].user = None =>
        /\ KindOf(t) = "access"
        /\ table[t].parent = None
        /\ table[t].client \in Confidential

\* Who is told of a success finds the rows stored, until they expire, their
\* client or their resource owner is deleted, or that owner unlinks them; who is
\* told of a failure has changed nothing.
AnswerTellsEffect ==
    \A r \in Request :
        /\ answer[r] = "ok" =>
            \A t \in NewRows(r) :
                /\ t \in Stored
                /\ \/ t \in Visible
                   \/ Expires(t) <= now
                   \/ clients[table[t].client] = "deleted"
                   \/ table[t].user \in departed
                   \/ t \in unlinked
        /\ answer[r] \in {"refused", "error"} => NewRows(r) \cap Stored = {}

\* Once a revocation of one of the client's own tokens was answered, the token
\* is revoked or gone, whatever ran beside it.
RevokeTakesEffect ==
    \A r \in Request :
        /\ answer[r] = "ok" /\ call[r].op = "revoke"
        /\ KindOf(call[r].cred) \in {"access", "refresh"}
        /\ table[call[r].cred].client = call[r].client
        => call[r].cred \in revoked \cup deleted

\* A row is only ever revoked by a request of its own client or, through the
\* user interface, of its own resource owner, and is never unrevoked.
RevokedByItsOwn ==
    [][/\ revoked \subseteq revoked'
       /\ \A t \in revoked' \ revoked : \E r \in Request :
            /\ pc[r] = "commit" /\ call[r].cred = t
            /\ \/ call[r].client = table[t].client
               \/ call[r].op = "action_revoke" /\ call[r].user = table[t].user
      ]_vars

\* "Scopes this client may be granted on an issued token" (the help text of
\* scope_ids): no token of a client carries a scope outside them.
ScopeWithinClients ==
    \A t \in Stored : table[t].scope \subseteq ClientScope[table[t].client]

\* The detailed specification implements the ledger: a commit is the one step
\* at which a request takes effect. No entry of the ledger is None.
Credential(t) ==
    IF t \in Stored
    THEN [kind |-> KindOf(t), client |-> table[t].client,
          user |-> table[t].user, scope |-> table[t].scope,
          parent |-> table[t].parent]
    ELSE None

ASSUME LedgerAssumption ==
    None \notin [kind : Kind, client : Client, user : User \cup {None}, scope : SUBSET Scope,
                 parent : Token \cup {None}]

Ledger == INSTANCE OAuthLedger WITH
    Scopes <- SUBSET Scope,
    ledger <- [t \in Token |-> Credential(t)],
    spent <- revoked

LedgerSpec == Ledger!Spec

====
